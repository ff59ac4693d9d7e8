--------------------------- MODULE DrainableService ---------------------------
(***************************************************************************)
(* The application of app/src/main.rs: the handler of /, its in-flight     *)
(* counter, the /drainez handler that reads it, and the shutdown task that *)
(* SIGTERM starts when DAT6_GRACEFUL_DRAIN is set.  Handlers and the       *)
(* shutdown task run on several threads and share two atomics.             *)
(*                                                                         *)
(* Abstractions.                                                           *)
(*   - A request is a client that sends again when it has its answer.      *)
(*   - The latency of / is any number of ticks: Finish stands for the end  *)
(*     of the sleep and for the 30 s TimeoutLayer, which both drop the     *)
(*     guard.                                                              *)
(*   - axum's graceful shutdown is external: once its signal resolves it   *)
(*     accepts nothing more, lets what is being handled end, and returns.  *)
(*   - Time counts from SIGTERM and stops at Grace.  A tick waits for the  *)
(*     shutdown task, whose 200 ms poll is shorter than one.               *)
(*                                                                         *)
(* Variables.                                                              *)
(*   proc        the process: up, exited (main returned) or killed         *)
(*   req[r]      where request r is                                        *)
(*   IN_FLIGHT_COUNT, IS_DRAINING  the two atomics                         *)
(*   graceful_drain  read from the environment at start                    *)
(*   task        the shutdown task: what it does next                      *)
(*   clock       ticks since SIGTERM                                       *)
(*   settling    ticks left of the sleep after "drain complete"            *)
(*   probe       the /drainez handler: its next load, what it has loaded,  *)
(*               its last answer, and, as history, whether the service was *)
(*               draining and idle at some instant since the probe began   *)
(*               and which requests that it found in flight still are      *)
(***************************************************************************)
EXTENDS Naturals, FiniteSets

CONSTANTS Requests,        \* clients of /
          DrainSettings,   \* values DAT6_GRACEFUL_DRAIN may have at start
          DrainMax,        \* DAT6_DRAIN_MAX_SECS, in ticks
          Settle,          \* the sleep after "drain complete", in ticks
          Grace            \* the pod's grace period, in ticks

ASSUME RequestsAssumption == IsFiniteSet(Requests)

ASSUME TimeAssumption ==
    /\ DrainSettings \subseteq BOOLEAN
    /\ DrainMax \in Nat /\ Settle \in Nat /\ Grace \in Nat
    /\ DrainMax < Grace

VARIABLES proc, req, IN_FLIGHT_COUNT, IS_DRAINING, graceful_drain, task,
          clock, settling, probe

shutdown == <<IS_DRAINING, graceful_drain, task, clock, settling>>
vars == <<proc, req, IN_FLIGHT_COUNT, shutdown, probe>>

\* responding: the guard is dropped, the answer not yet written.
RequestStates ==
    {"idle", "queued", "handling", "responding", "refused", "cut"}

Tasks == {"listening", "checking", "settling", "resolved"}

Probes == [at : {"idle", "loadCount", "loadFlag"}, count : 0 .. Cardinality(Requests),
           answer : {"none", "ready", "notYet"}, wasIdle : BOOLEAN,
           older : SUBSET Requests]

NoProbe == [at |-> "idle", count |-> 0, answer |-> "none", wasIdle |-> FALSE,
            older |-> {}]

Fresh ==
    /\ req = [r \in Requests |-> "idle"]
    /\ IN_FLIGHT_COUNT = 0
    /\ IS_DRAINING = FALSE
    /\ graceful_drain \in DrainSettings
    /\ task = "listening"
    /\ clock = 0
    /\ settling = 0
    /\ probe = NoProbe

Init == proc = "up" /\ Fresh

Accepting == proc = "up" /\ task # "resolved"

-----------------------------------------------------------------------------
(***************************************************************************)
(* Requests to /.                                                          *)
(***************************************************************************)

Handling == {r \in Requests : req[r] = "handling"}

\* The history of the probe: was the service draining and idle just now, and
\* which of the older requests have ended?
Observe(draining, inFlight, ended) ==
    probe' = [probe EXCEPT
                 !.wasIdle = @ \/ (probe.at # "idle" /\ draining /\ inFlight = 0),
                 !.older = @ \ ended]

\* A connection is made; its handler has not started.
Send(r) ==
    /\ Accepting
    /\ req[r] \in {"idle", "refused"}
    /\ req' = [req EXCEPT ![r] = "queued"]
    /\ UNCHANGED <<proc, IN_FLIGHT_COUNT, shutdown, probe>>

\* Mutant: the guard is not bound to a name, and so dropped at once.
StartUnguarded(r) ==
    /\ proc = "up"
    /\ req[r] = "queued"
    /\ req' = [req EXCEPT ![r] = "handling"]
    /\ UNCHANGED <<proc, IN_FLIGHT_COUNT, shutdown, probe>>

Start(r) ==
    /\ proc = "up"
    /\ req[r] = "queued"
    /\ req' = [req EXCEPT ![r] = "handling"]
    /\ IN_FLIGHT_COUNT' = IN_FLIGHT_COUNT + 1
    /\ UNCHANGED <<proc, shutdown, probe>>

\* InFlightGuard is dropped, whether or not there is anyone left to answer.
DropGuard(r, next) ==
    /\ proc = "up"
    /\ req[r] = "handling"
    /\ req' = [req EXCEPT ![r] = next]
    /\ IN_FLIGHT_COUNT' = IN_FLIGHT_COUNT - 1
    /\ Observe(IS_DRAINING, IN_FLIGHT_COUNT - 1, {r})
    /\ UNCHANGED <<proc, shutdown>>

Finish(r) == DropGuard(r, "responding")

\* Mutant: the counter is decremented at the end of the handler, not by a guard.
DisconnectWithoutGuard(r) ==
    /\ proc = "up"
    /\ req[r] = "handling"
    /\ req' = [req EXCEPT ![r] = "idle"]
    /\ UNCHANGED <<proc, IN_FLIGHT_COUNT, shutdown, probe>>

\* The client goes away: hyper drops the handler's future.
Disconnect(r) == DropGuard(r, "idle")

Respond(r) ==
    /\ proc = "up"
    /\ req[r] = "responding"
    /\ req' = [req EXCEPT ![r] = "idle"]
    /\ UNCHANGED <<proc, IN_FLIGHT_COUNT, shutdown, probe>>

\* Once the server accepts no more, a connection without a request is closed.
Refuse(r) ==
    /\ proc = "up" /\ task = "resolved"
    /\ req[r] = "queued"
    /\ req' = [req EXCEPT ![r] = "refused"]
    /\ UNCHANGED <<proc, IN_FLIGHT_COUNT, shutdown, probe>>

-----------------------------------------------------------------------------
(***************************************************************************)
(* GET /drainez: two loads, one after the other.                           *)
(***************************************************************************)

Probe ==
    /\ Accepting
    /\ probe.at = "idle"
    /\ probe' = [NoProbe EXCEPT !.at = "loadCount",
                    !.wasIdle = IS_DRAINING /\ IN_FLIGHT_COUNT = 0,
                    !.older = Handling]
    /\ UNCHANGED <<proc, req, IN_FLIGHT_COUNT, shutdown>>

LoadCount ==
    /\ proc = "up"
    /\ probe.at = "loadCount"
    /\ probe' = [probe EXCEPT !.at = "loadFlag", !.count = IN_FLIGHT_COUNT]
    /\ UNCHANGED <<proc, req, IN_FLIGHT_COUNT, shutdown>>

\* Mutant: ready as soon as nothing is in flight.
AnswerIgnoresFlag == IF probe.count = 0 THEN "ready" ELSE "notYet"

Answer == IF IS_DRAINING /\ probe.count = 0 THEN "ready" ELSE "notYet"

LoadFlag ==
    /\ proc = "up"
    /\ probe.at = "loadFlag"
    /\ probe' = [probe EXCEPT !.at = "idle", !.answer = Answer]
    /\ UNCHANGED <<proc, req, IN_FLIGHT_COUNT, shutdown>>

-----------------------------------------------------------------------------
(***************************************************************************)
(* SIGTERM, the shutdown task, and the end of the process.                 *)
(***************************************************************************)

\* Whoever is still waiting for an answer does not get it.
Cut == [r \in Requests |->
           IF req[r] \in {"queued", "handling", "responding"} THEN "cut" ELSE req[r]]

\* Without the handler the signal has its default effect, which the kernel
\* withholds from the first process of a container.
Sigterm ==
    /\ proc = "up"
    /\ task = "listening"
    /\ \/ /\ graceful_drain
          /\ IS_DRAINING' = TRUE
          /\ task' = "checking"
          /\ Observe(TRUE, IN_FLIGHT_COUNT, {})
          /\ UNCHANGED <<proc, req>>
       \/ /\ ~graceful_drain
          /\ proc' = "killed"
          /\ req' = Cut
          /\ UNCHANGED <<IS_DRAINING, task, probe>>
    /\ UNCHANGED <<IN_FLIGHT_COUNT, graceful_drain, clock, settling>>

\* Mutant: the loop has no upper bound.
CheckUnbounded ==
    /\ proc = "up"
    /\ task = "checking"
    /\ IN_FLIGHT_COUNT = 0
    /\ task' = "settling"
    /\ settling' = Settle
    /\ UNCHANGED <<proc, req, IN_FLIGHT_COUNT, IS_DRAINING, graceful_drain,
                   clock, probe>>

\* One turn of the loop that leaves it; any other turn changes nothing.
Check ==
    /\ proc = "up"
    /\ task = "checking"
    /\ \/ /\ IN_FLIGHT_COUNT = 0
          /\ task' = "settling"
          /\ settling' = Settle
       \/ /\ IN_FLIGHT_COUNT # 0
          /\ clock >= DrainMax
          /\ task' = "resolved"
          /\ UNCHANGED settling
    /\ UNCHANGED <<proc, req, IN_FLIGHT_COUNT, IS_DRAINING, graceful_drain,
                   clock, probe>>

Settled ==
    /\ proc = "up"
    /\ task = "settling"
    /\ settling = 0
    /\ task' = "resolved"
    /\ UNCHANGED <<proc, req, IN_FLIGHT_COUNT, IS_DRAINING, graceful_drain,
                   clock, settling, probe>>

\* The server returns when its connections are closed, and main with it.
Exit ==
    /\ proc = "up"
    /\ task = "resolved"
    /\ \A r \in Requests : req[r] \notin {"queued", "handling", "responding"}
    /\ probe.at = "idle"
    /\ proc' = "exited"
    /\ UNCHANGED <<req, IN_FLIGHT_COUNT, shutdown, probe>>

\* SIGKILL.
Killed ==
    /\ proc = "up"
    /\ proc' = "killed"
    /\ req' = Cut
    /\ UNCHANGED <<IN_FLIGHT_COUNT, shutdown, probe>>

\* It comes at the end of the grace period.
Kill == clock = Grace /\ Killed

\* Nothing is due at the shutdown task.
Waiting ==
    \/ task = "checking" /\ IN_FLIGHT_COUNT # 0 /\ clock < DrainMax
    \/ task = "settling" /\ settling > 0
    \/ task = "resolved"

Tick ==
    /\ proc = "up"
    /\ Waiting
    /\ clock < Grace
    /\ clock' = clock + 1
    /\ settling' = IF settling > 0 THEN settling - 1 ELSE 0
    /\ UNCHANGED <<proc, req, IN_FLIGHT_COUNT, IS_DRAINING, graceful_drain,
                   task, probe>>

-----------------------------------------------------------------------------

Request(r) ==
    \/ Send(r)
    \/ Start(r)
    \/ Finish(r)
    \/ Disconnect(r)
    \/ Respond(r)
    \/ Refuse(r)

Drainez == Probe \/ LoadCount \/ LoadFlag

Next ==
    \/ \E r \in Requests : Request(r)
    \/ Drainez
    \/ Sigterm
    \/ Check
    \/ Settled
    \/ Exit
    \/ Kill
    \/ Tick

Spec == Init /\ [][Next]_vars

\* The runtime polls handlers and the shutdown task, and every handler ends,
\* by its timeout if not before.  Time passes: no infinite number of steps fits
\* into one tick, though a tick may have to wait at some of them (hence SF).
\* Neither clients nor SIGKILL can be relied on.
Fairness ==
    /\ \A r \in Requests :
          WF_vars(Start(r)) /\ WF_vars(Finish(r)) /\ WF_vars(Respond(r))
          /\ WF_vars(Refuse(r))
    /\ WF_vars(LoadCount) /\ WF_vars(LoadFlag)
    /\ WF_vars(Check) /\ WF_vars(Settled) /\ WF_vars(Exit)
    /\ SF_vars(Tick)

FairSpec == Spec /\ Fairness

-----------------------------------------------------------------------------
(***************************************************************************)
(* Properties.                                                             *)
(***************************************************************************)

\* Every variable keeps to its domain; the counter never wraps below zero
\* (IN_FLIGHT_COUNT is a u64) nor above the number of clients.
TypeOK ==
    /\ proc \in {"up", "exited", "killed"}
    /\ req \in [Requests -> RequestStates]
    /\ IN_FLIGHT_COUNT \in 0 .. Cardinality(Requests)
    /\ IS_DRAINING \in BOOLEAN
    /\ graceful_drain \in DrainSettings
    /\ task \in Tasks
    /\ clock \in 0 .. Grace
    /\ settling \in 0 .. Settle
    /\ probe \in Probes

\* What /drainez and the shutdown task go by is exact: the counter is the
\* number of handlers that run, through answers, timeouts and disconnects
\* (InFlightGuard in root_handler).
CounterExact == proc = "up" => IN_FLIGHT_COUNT = Cardinality(Handling)

\* A ready answer vouches for every request that was in flight when the
\* controller asked: they have all ended, whatever has started since (drainez,
\* InFlightGuard).  ReadyWasTrue, below, asks for more than that.
ReadyCoversOlder == probe.answer = "ready" => probe.older = {}

\* SIGTERM ends the process however long clients keep sending, without the
\* help of SIGKILL (shutdown_signal).
DrainEnds == IS_DRAINING ~> proc # "up"

\* A ready answer was true at some instant of the probe: the service was
\* draining with nothing in flight (EXPERIMENT_PLAYBOOK.md on /drainez).
ReadyWasTrue == probe.answer = "ready" => probe.wasIdle

=============================================================================
