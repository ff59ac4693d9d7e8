------------------------ MODULE DrainableServiceProofs ------------------------
(***************************************************************************)
(* Theorems about DrainableService, for any finite number of clients and   *)
(* any limits.                                                             *)
(*                                                                         *)
(* That the counter stays in its range (TypeOK) and that it is exact       *)
(* (CounterExact) are inductive only together: an increment stays below    *)
(* the number of clients because one of them was not being handled, and a  *)
(* decrement does not wrap because one of them was.                        *)
(***************************************************************************)
EXTENDS DrainableService, FiniteSetTheorems, TLAPS

Counting == TypeOK /\ CounterExact

\* The number of handlers is a number, and no more than there are clients.
LEMMA HandlingFinite ==
    /\ IsFiniteSet(Handling)
    /\ Cardinality(Handling) \in Nat
    /\ Cardinality(Requests) \in Nat
    /\ Cardinality(Handling) <= Cardinality(Requests)
<1>1. Handling \subseteq Requests
  BY DEF Handling
<1> QED
  BY <1>1, RequestsAssumption, FS_Subset, FS_CardinalityType

\* A request that comes to be handled is one more, and there was room for it.
LEMMA OneMore ==
    ASSUME NEW r \in Requests, req[r] # "handling"
    PROVE  /\ Cardinality(Handling \cup {r}) = Cardinality(Handling) + 1
           /\ Cardinality(Handling) + 1 <= Cardinality(Requests)
<1>1. r \notin Handling /\ Handling \cup {r} \subseteq Requests
  BY DEF Handling
<1>2. Cardinality(Handling \cup {r}) = Cardinality(Handling) + 1
  BY <1>1, HandlingFinite, FS_AddElement
<1>3. Cardinality(Handling \cup {r}) <= Cardinality(Requests)
  BY <1>1, RequestsAssumption, FS_Subset
<1> QED
  BY <1>2, <1>3

\* A request whose guard is dropped is one less, and it was there.
LEMMA OneLess ==
    ASSUME NEW r \in Requests, req[r] = "handling"
    PROVE  /\ Cardinality(Handling \ {r}) = Cardinality(Handling) - 1
           /\ Cardinality(Handling) >= 1
<1>1. r \in Handling
  BY DEF Handling
<1>2. Cardinality(Handling \ {r}) = Cardinality(Handling) - 1
  BY <1>1, HandlingFinite, FS_RemoveElement
<1>3. IsFiniteSet(Handling \ {r})
  BY HandlingFinite, FS_Subset
<1>4. Cardinality(Handling \ {r}) \in Nat
  BY <1>3, FS_CardinalityType
<1> QED
  BY <1>2, <1>4, HandlingFinite

\* A step of a request other than the start and the end of its handler leaves
\* the handlers as they are.
LEMMA HandlersStay ==
    ASSUME TypeOK, NEW r \in Requests, NEW s, s # "handling", req[r] # "handling",
           req' = [req EXCEPT ![r] = s]
    PROVE  Handling' = Handling
BY DEF TypeOK, Handling

\* The start of a handler, and its increment.
LEMMA StartCounts ==
    ASSUME Counting, NEW r \in Requests, Start(r)
    PROVE  Counting'
<1>1. IN_FLIGHT_COUNT = Cardinality(Handling)
  BY DEF Counting, CounterExact, Start
<1>2. Handling' = Handling \cup {r}
  BY DEF Counting, TypeOK, Start, Handling
<1>3. IN_FLIGHT_COUNT' = Cardinality(Handling')
        /\ IN_FLIGHT_COUNT' \in 0 .. Cardinality(Requests)
  BY <1>1, <1>2, OneMore, HandlingFinite DEF Start
<1> QED
  BY <1>3 DEF Counting, TypeOK, CounterExact, Start, shutdown, RequestStates

\* The end of a handler, answered or dropped, and its decrement.
LEMMA DropGuardCounts ==
    ASSUME Counting, NEW r \in Requests, NEW next \in RequestStates \ {"handling"},
           DropGuard(r, next)
    PROVE  Counting'
<1>1. IN_FLIGHT_COUNT = Cardinality(Handling)
  BY DEF Counting, CounterExact, DropGuard
<1>2. Handling' = Handling \ {r}
  BY DEF Counting, TypeOK, DropGuard, Handling
<1>3. IN_FLIGHT_COUNT' = Cardinality(Handling')
        /\ IN_FLIGHT_COUNT' \in 0 .. Cardinality(Requests)
  BY <1>1, <1>2, OneLess, HandlingFinite DEF DropGuard
<1>4. probe' \in Probes
  BY DEF Counting, TypeOK, DropGuard, Observe, Probes
<1> QED
  BY <1>3, <1>4 DEF Counting, TypeOK, CounterExact, DropGuard, shutdown

\* The types and the counter together are inductive.
LEMMA CountingStep ==
    ASSUME Counting, [Next]_vars
    PROVE  Counting'
<1>1. ASSUME NEW r \in Requests, Send(r) \/ Respond(r) \/ Refuse(r)
      PROVE  Counting'
  <2>1. Handling' = Handling
    BY <1>1, HandlersStay DEF Counting, Send, Respond, Refuse
  <2>2. req' \in [Requests -> RequestStates]
    BY <1>1 DEF Counting, TypeOK, Send, Respond, Refuse, RequestStates
  <2> QED
    BY <1>1, <2>1, <2>2
       DEF Counting, TypeOK, CounterExact, Send, Respond, Refuse, shutdown
<1>2. ASSUME NEW r \in Requests, Start(r)
      PROVE  Counting'
  BY <1>2, StartCounts
<1>3. ASSUME NEW r \in Requests, Finish(r) \/ Disconnect(r)
      PROVE  Counting'
  BY <1>3, DropGuardCounts DEF Finish, Disconnect, RequestStates
<1>4. CASE Drainez
  <2>1. IN_FLIGHT_COUNT \in 0 .. Cardinality(Requests)
          /\ 0 \in 0 .. Cardinality(Requests)
    BY HandlingFinite DEF Counting, TypeOK
  <2>2. CASE Probe
    BY <2>1, <2>2 DEF Counting, TypeOK, CounterExact, Handling, Probe, Probes, NoProbe, shutdown
  <2>3. CASE LoadCount
    BY <2>1, <2>3
       DEF Counting, TypeOK, CounterExact, Handling, LoadCount, Probes, shutdown
  <2>4. CASE LoadFlag
    BY <2>4 DEF Counting, TypeOK, CounterExact, Handling, LoadFlag, Answer, Probes, shutdown
  <2> QED
    BY <1>4, <2>2, <2>3, <2>4 DEF Drainez
<1>5. CASE Sigterm
  <2>1. Cut \in [Requests -> RequestStates]
    BY DEF Counting, TypeOK, Cut, RequestStates
  <2>2. Observe(TRUE, IN_FLIGHT_COUNT, {}) => probe' \in Probes
    BY DEF Counting, TypeOK, Observe, Probes
  <2> QED
    BY <1>5, <2>1, <2>2
       DEF Counting, TypeOK, CounterExact, Handling, Sigterm, Tasks
<1>6. CASE Check \/ Settled
  BY <1>6, TimeAssumption
     DEF Counting, TypeOK, CounterExact, Handling, Check, Settled, Tasks
<1>7. CASE Exit \/ Kill
  <2>1. Cut \in [Requests -> RequestStates]
    BY DEF Counting, TypeOK, Cut, RequestStates
  <2> QED
    BY <1>7, <2>1 DEF Counting, TypeOK, CounterExact, Exit, Kill, Killed, shutdown
<1>8. CASE Tick
  BY <1>8, TimeAssumption DEF Counting, TypeOK, CounterExact, Handling, Tick
<1>9. CASE UNCHANGED vars
  BY <1>9 DEF Counting, TypeOK, CounterExact, Handling, vars, shutdown
<1> QED
  BY <1>1, <1>2, <1>3, <1>4, <1>5, <1>6, <1>7, <1>8, <1>9 DEF Next, Request

\* Nothing is handled by a fresh process, or before there is one, and the
\* counter is zero.
LEMMA FreshCounts ==
    ASSUME Fresh, proc \in {"up", "exited", "killed"}
    PROVE  Counting
<1>1. Handling = {}
  BY DEF Fresh, Handling
<1>2. IN_FLIGHT_COUNT = Cardinality(Handling)
  BY <1>1, FS_EmptySet DEF Fresh
<1>3. IN_FLIGHT_COUNT \in 0 .. Cardinality(Requests)
  BY HandlingFinite DEF Fresh
<1>4. probe \in Probes
  BY <1>3, HandlingFinite DEF Fresh, Probes, NoProbe
<1>5. req \in [Requests -> RequestStates]
  BY DEF Fresh, RequestStates
<1>6. clock \in 0 .. Grace /\ settling \in 0 .. Settle
  BY TimeAssumption DEF Fresh
<1>7. IS_DRAINING \in BOOLEAN /\ graceful_drain \in DrainSettings /\ task \in Tasks
  BY DEF Fresh, Tasks
<1> QED
  BY <1>2, <1>3, <1>4, <1>5, <1>6, <1>7 DEF Counting, TypeOK, CounterExact

\* So it is at the start.
LEMMA CountingInit ==
    ASSUME Init
    PROVE  Counting
BY FreshCounts DEF Init

\* Every variable keeps to its domain: in particular the counter, a u64, never
\* wraps below zero and never exceeds the number of clients.
THEOREM TypeCorrect == Spec => []TypeOK
<1>1. Counting => TypeOK
  BY DEF Counting
<1> QED
  BY <1>1, CountingInit, CountingStep, PTL DEF Spec

\* While the process is up its counter is the number of running handlers.
THEOREM CounterIsExact == Spec => []CounterExact
<1>1. Counting => CounterExact
  BY DEF Counting
<1> QED
  BY <1>1, CountingInit, CountingStep, PTL DEF Spec

-----------------------------------------------------------------------------
(***************************************************************************)
(* What a probe is worth.  A ready answer covers the requests the probe    *)
(* found because they were all still counted when the counter was loaded:  *)
(* the older requests not yet ended are being handled until that load, and *)
(* none is left if it loads zero.                                          *)
(***************************************************************************)

Covered ==
    /\ proc = "up" /\ probe.at = "loadCount" => probe.older \subseteq Handling
    /\ proc = "up" /\ probe.at = "loadFlag" /\ probe.count = 0 => probe.older = {}
    /\ ReadyCoversOlder

\* A step that ends the process, or that neither ends a handler nor is one of
\* the probe's own, takes nothing from what a probe is worth.
LEMMA CoveredStays ==
    ASSUME Covered, Handling \subseteq Handling', proc' = "up" => proc = "up",
           \/ UNCHANGED probe
           \/ TypeOK /\ Observe(TRUE, IN_FLIGHT_COUNT, {})
    PROVE  Covered'
<1>1. /\ probe'.at = probe.at /\ probe'.count = probe.count
      /\ probe'.answer = probe.answer /\ probe'.older = probe.older
  BY DEF Observe, TypeOK, Probes
<1> QED
  BY <1>1 DEF Covered, ReadyCoversOlder

\* A request that ends is no longer handled, and no longer older either.
LEMMA CoveredByGuard ==
    ASSUME TypeOK, Covered, NEW r \in Requests, NEW next, next # "handling",
           DropGuard(r, next)
    PROVE  Covered'
<1>1. Handling' = Handling \ {r}
  BY DEF TypeOK, DropGuard, Handling
<1>2. /\ probe'.at = probe.at /\ probe'.count = probe.count
      /\ probe'.answer = probe.answer /\ probe'.older = probe.older \ {r}
  BY DEF DropGuard, Observe, TypeOK, Probes
<1>3. proc' = proc
  BY DEF DropGuard
<1> QED
  BY <1>1, <1>2, <1>3 DEF Covered, ReadyCoversOlder

\* A ready answer, and the loads it is made of, stay worth what they were.
LEMMA CoveredStep ==
    ASSUME Counting, Covered, [Next]_vars
    PROVE  Covered'
<1>1. ASSUME NEW r \in Requests, Send(r) \/ Start(r) \/ Respond(r) \/ Refuse(r)
      PROVE  Covered'
  <2>1. Handling \subseteq Handling'
    BY <1>1 DEF Counting, TypeOK, Send, Start, Respond, Refuse, Handling
  <2> QED
    BY <1>1, <2>1, CoveredStays DEF Send, Start, Respond, Refuse
<1>2. ASSUME NEW r \in Requests, Finish(r) \/ Disconnect(r)
      PROVE  Covered'
  BY <1>2, CoveredByGuard DEF Counting, Finish, Disconnect
<1>3. CASE Probe
  BY <1>3 DEF Probe, NoProbe, Covered, ReadyCoversOlder, Handling
<1>4. CASE LoadCount
  <2>1. /\ probe'.at = "loadFlag" /\ probe'.count = IN_FLIGHT_COUNT
        /\ probe'.answer = probe.answer /\ probe'.older = probe.older
    BY <1>4 DEF LoadCount, Counting, TypeOK, Probes
  <2>2. IN_FLIGHT_COUNT = 0 => Handling = {}
    BY <1>4, HandlingFinite, FS_EmptySet DEF LoadCount, Counting, CounterExact
  <2>3. probe.older \subseteq Handling
    BY <1>4 DEF LoadCount, Covered
  <2> QED
    BY <2>1, <2>2, <2>3 DEF Covered, ReadyCoversOlder
<1>5. CASE LoadFlag
  <2>1. /\ probe'.at = "idle" /\ probe'.older = probe.older
        /\ probe'.answer = "ready" => probe.count = 0
    BY <1>5 DEF LoadFlag, Answer, Counting, TypeOK, Probes
  <2>2. probe.count = 0 => probe.older = {}
    BY <1>5 DEF LoadFlag, Covered
  <2> QED
    BY <2>1, <2>2 DEF Covered, ReadyCoversOlder
<1>6. CASE Sigterm
  <2>1. CASE graceful_drain
    <3>1. Handling' = Handling /\ proc' = proc
      BY <1>6, <2>1 DEF Sigterm, Handling
    <3> QED
      BY <1>6, <2>1, <3>1, CoveredStays DEF Sigterm, Counting
  <2>2. CASE ~graceful_drain
    BY <1>6, <2>2 DEF Sigterm, Covered, ReadyCoversOlder
  <2> QED
    BY <2>1, <2>2
<1>7. CASE Exit \/ Kill
  BY <1>7 DEF Exit, Kill, Killed, Covered, ReadyCoversOlder
<1>8. CASE Check \/ Settled \/ Tick \/ UNCHANGED vars
  <2>1. Handling' = Handling /\ proc' = proc /\ UNCHANGED probe
    BY <1>8 DEF Check, Settled, Tick, vars, Handling
  <2> QED
    BY <2>1, CoveredStays
<1> QED
  BY <1>1, <1>2, <1>3, <1>4, <1>5, <1>6, <1>7, <1>8 DEF Next, Request, Drainez

\* A ready answer vouches for every request that was in flight when the
\* controller asked.
THEOREM ReadyCovers == Spec => []ReadyCoversOlder
<1>1. Init => Covered
  BY DEF Init, Fresh, NoProbe, Covered, ReadyCoversOlder
<1>2. Covered => ReadyCoversOlder
  BY DEF Covered
<1> QED
  BY <1>1, <1>2, CountingInit, CountingStep, CoveredStep, PTL DEF Spec

===============================================================================
