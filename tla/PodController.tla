---------------------------- MODULE PodController ----------------------------
(***************************************************************************)
(* The pod reconciler of src/controller.rs, one await at a time, against   *)
(* the API server, the kubelet and the application container it works on.  *)
(*                                                                         *)
(* A worker takes a snapshot of the pod from the reflector's cache and     *)
(* uses it to the end of the reconcile, across all its calls; the cache    *)
(* lags the API server; a call may fail, or be applied with its answer     *)
(* lost; the controller may crash between any two calls and come back with *)
(* another policy.                                                         *)
(*                                                                         *)
(* Abstractions.                                                           *)
(*   - Requeue delays (500 ms to 300 s) are left out: every path of the    *)
(*     reconciler requeues, so an idle worker may always start again.      *)
(*   - A PATCH is a merge patch by name: it carries neither the uid nor    *)
(*     the resourceVersion, and a list in it replaces the whole list.      *)
(*   - A pod is deleted once, with a grace period of at least one tick.    *)
(*   - Time is counted per pod from the deletion request, in ticks, up to  *)
(*     the Horizon after which every comparison in the code is settled.    *)
(*                                                                         *)
(* Variables.                                                              *)
(*   api[p]      the pod object at the API server                          *)
(*   uids[p]     incarnations of this pod name so far                      *)
(*   proc[p]     the application container of the latest incarnation      *)
(*   reused[p]   another pod has been given its IP                         *)
(*   elapsed[p]  ticks since the deletion of each incarnation was requested*)
(*   cache[p]    the reflector's copy of api[p]                            *)
(*   watch[p]    versions of the pod on their way to it, oldest first      *)
(*   rec[p]      the worker: the next call, the snapshot, the FSM state    *)
(*               and the finalizers a GET returned                         *)
(*   up, policy  the controller process and the policy it started with    *)
(*   disruptions crashes and failed calls so far                           *)
(*   held[p]     history: incarnations that ever carried our finalizer    *)
(*   verdict[p]  history: why the deletion of each incarnation was allowed *)
(***************************************************************************)
EXTENDS Naturals, Sequences, DecommissionFsm, PolicyEngine

CONSTANTS Pods,             \* pod names
          Gated,            \* pods whose spec declares the readiness gate
          OtherFinalizers,  \* finalizers that belong to someone else
          StartPolicies,    \* policies the controller may be started with
          MaxUid,           \* bound: incarnations of one pod name
          MaxDisruptions,   \* bound: crashes and failed calls
          MaxBehind,        \* bound: versions of a pod on their way to the cache
          Grace,            \* spec.terminationGracePeriodSeconds, in ticks
          DeleteGraces,     \* grace periods a deletion request may carry
          KillSlack,        \* how late the kubelet may be with SIGKILL
          IpReuse           \* may a freed IP be given to another pod?

ASSUME GraceAssumption ==
    /\ Grace \in Nat /\ KillSlack \in Nat
    /\ KillSlack < Grace
    /\ DeleteGraces \subseteq 1 .. Grace

ASSUME BoundAssumption ==
    /\ MaxUid \in Nat \ {0}
    /\ MaxDisruptions \in Nat
    /\ MaxBehind \in Nat
    /\ IpReuse \in BOOLEAN

POD_FINALIZER == "decomposition.dat6.io/finalizer"

ASSUME NamesAssumption ==
    /\ Gated \subseteq Pods
    /\ StartPolicies \subseteq Policies /\ StartPolicies # {}
    /\ POD_FINALIZER \notin OtherFinalizers

VARIABLES api, uids, proc, reused, elapsed,
          cache, watch, rec, up, policy,
          disruptions, held, verdict

cluster    == <<uids, proc, reused, elapsed>>
controller == <<cache, watch, up, policy>>
history    == <<held, verdict>>
vars == <<api, cluster, controller, rec, disruptions, history>>

Uids    == 1 .. MaxUid
Horizon == 2 * Grace

Finalizers == {POD_FINALIZER} \cup OtherFinalizers

\* What the reconciler reads of a pod; uid 0 is "no such object".
PodObjects ==
    [uid : 0 .. MaxUid, phase : {"Pending", "Running"}, terminating : BOOLEAN,
     delGrace : 0 .. Grace, finalizers : SUBSET Finalizers, gate : BOOLEAN,
     ready : BOOLEAN, annotation : AnnotationValues, ip : BOOLEAN]

NewPod(uid) ==
    [uid |-> uid, phase |-> "Pending", terminating |-> FALSE, delGrace |-> 0,
     finalizers |-> {}, gate |-> FALSE, ready |-> FALSE,
     annotation |-> "absent", ip |-> FALSE]

NoPod     == NewPod(0)
Exists(p) == api[p].uid # 0

Alive == {"serving", "draining"}

\* The calls at which a reconcile can be suspended.
Calls == {"addFinalizer", "persistDraining", "lateAddFinalizer", "markReady",
          "removeReadiness", "pollDrainez", "persistAllowed", "getPod",
          "releaseFinalizer"}

Workers == [call : Calls \cup {"none"}, obj : PodObjects,
            fsm : DecommissionStates, live : SUBSET Finalizers]

Idle == [call |-> "none", obj |-> NoPod, fsm |-> "Unknown", live |-> {}]

Init ==
    /\ api = [p \in Pods |-> NoPod]
    /\ uids = [p \in Pods |-> 0]
    /\ proc = [p \in Pods |-> "off"]
    /\ reused = [p \in Pods |-> FALSE]
    /\ elapsed = [p \in Pods |-> [u \in Uids |-> 0]]
    /\ cache = [p \in Pods |-> NoPod]
    /\ watch = [p \in Pods |-> <<>>]
    /\ rec = [p \in Pods |-> Idle]
    /\ up = TRUE
    /\ policy \in StartPolicies
    /\ disruptions = 0
    /\ held = [p \in Pods |-> {}]
    /\ verdict = [p \in Pods |-> [u \in Uids |-> "none"]]

-----------------------------------------------------------------------------
(***************************************************************************)
(* The API server, as far as the controller's calls depend on it.          *)
(***************************************************************************)

\* A terminating object goes when its grace period is over and nothing holds it.
Settle(o) ==
    IF o.terminating /\ o.delGrace = 0 /\ o.finalizers = {} THEN NoPod ELSE o

\* A terminating object takes no finalizer that it does not already have.
Admits(o, finalizers) == o.terminating => finalizers \subseteq o.finalizers

Write(p, o) == api' = [api EXCEPT ![p] = Settle(o)]

MayDisrupt == disruptions < MaxDisruptions

Disrupt == MayDisrupt /\ disruptions' = disruptions + 1

-----------------------------------------------------------------------------
(***************************************************************************)
(* The reconciler.  A reconcile is a chain of calls; each action is one    *)
(* call together with the code up to the next one.                         *)
(***************************************************************************)

\* Mutant: a missing finalizer list is taken for one that has ours.
NeedsFinalizerListed(o) ==
    /\ policy.drain_verification
    /\ ~o.terminating
    /\ o.phase = "Running"
    /\ o.finalizers # {}
    /\ POD_FINALIZER \notin o.finalizers

NeedsFinalizer(o) ==
    /\ policy.drain_verification
    /\ ~o.terminating
    /\ o.phase = "Running"
    /\ POD_FINALIZER \notin o.finalizers

FirstTermination(o) == o.terminating /\ ReadState(o.annotation) = "Unknown"

\* Mutant: what needs no action is taken for AllowDeletion.
DecideAllowsByDefault(p, o) ==
    LET hasGate == p \in Gated
        decision == Evaluate(policy, o.terminating, hasGate, o.gate)
    IN CASE hasGate /\ ~o.terminating /\ ~o.gate   -> "markReady"
         [] decision = "EnsureReadinessRemoved"    -> "removeReadiness"
         [] decision = "WaitForDrainVerification"  -> "pollDrainez"
         [] OTHER                                  -> "getPod"

\* Mutant: the gate is turned on whether or not it is on already.
DecideAlwaysMarks(p, o) ==
    LET hasGate == p \in Gated
        decision == Evaluate(policy, o.terminating, hasGate, o.gate)
    IN CASE hasGate /\ ~o.terminating             -> "markReady"
         [] decision = "EnsureReadinessRemoved"    -> "removeReadiness"
         [] decision = "WaitForDrainVerification"  -> "pollDrainez"
         [] OTHER                                  -> "none"

\* The call that follows policy evaluation.
Decide(p, o) ==
    LET hasGate == p \in Gated
        decision == Evaluate(policy, o.terminating, hasGate, o.gate)
    IN CASE hasGate /\ ~o.terminating /\ ~o.gate   -> "markReady"
         [] decision = "EnsureReadinessRemoved"    -> "removeReadiness"
         [] decision = "WaitForDrainVerification"  -> "pollDrainez"
         [] OTHER                                  -> "none"

\* Go on to `call` with the same snapshot, or end the reconcile.
Continue(w, call) == IF call = "none" THEN Idle ELSE [w EXCEPT !.call = call]

\* Where an error leads: a failed late add is logged and the reconcile goes
\* on; every other error ends it, to be started again after a requeue.
OnError(p) ==
    IF rec[p].call = "lateAddFinalizer"
    THEN Continue(rec[p], Decide(p, rec[p].obj))
    ELSE Idle

\* The answer of an applied call: received, or lost on the way.
Acknowledge(p, w) ==
    \/ rec' = [rec EXCEPT ![p] = w] /\ UNCHANGED disruptions
    \/ rec' = [rec EXCEPT ![p] = OnError(p)] /\ Disrupt

Calling(p, call) == up /\ rec[p].call = call

\* Mutant: a worker also starts on an object that has left the cache.
StartReconcileUnchecked(p) ==
    /\ up
    /\ rec[p].call = "none"
    /\ LET o == cache[p]
           call == CASE NeedsFinalizer(o)   -> "addFinalizer"
                     [] FirstTermination(o) -> "persistDraining"
                     [] OTHER               -> Decide(p, o)
       IN /\ call # "none"
          /\ rec' = [rec EXCEPT ![p] =
                        [call |-> call, obj |-> o, live |-> {},
                         fsm |-> ReadState(o.annotation)]]
    /\ UNCHANGED <<api, cluster, controller, disruptions, history>>

\* A worker starts on the cached object, if there is one and it needs a call.
StartReconcile(p) ==
    /\ up
    /\ rec[p].call = "none"
    /\ cache[p].uid # 0
    /\ LET o == cache[p]
           state == ReadState(o.annotation)
           call == CASE NeedsFinalizer(o)   -> "addFinalizer"
                     [] FirstTermination(o) -> "persistDraining"
                     [] OTHER               -> Decide(p, o)
       IN /\ call # "none"
          /\ rec' = [rec EXCEPT ![p] =
                        [call |-> call, obj |-> o, live |-> {},
                         fsm |-> IF call = "persistDraining"
                                 THEN Transition(state, "PodTerminating")
                                 ELSE state]]
    /\ UNCHANGED <<api, cluster, controller, disruptions, history>>

\* The finalizers that the pending call would write, the snapshot's or those
\* the GET returned; the other calls write none.
ListWritten(p) ==
    CASE rec[p].call \in {"addFinalizer", "lateAddFinalizer"}
             -> rec[p].obj.finalizers \cup {POD_FINALIZER}
      [] rec[p].call = "releaseFinalizer" -> rec[p].live
      [] OTHER -> {}

\* A call the API server does not apply: the pod is gone, a new finalizer is
\* refused, or the request fails.
CallFails(p) ==
    /\ up
    /\ rec[p].call \in Calls \ {"pollDrainez"}
    /\ \/ ~Exists(p) /\ UNCHANGED disruptions
       \/ ~Admits(api[p], ListWritten(p)) /\ UNCHANGED disruptions
       \/ Disrupt
    /\ rec' = [rec EXCEPT ![p] = OnError(p)]
    /\ UNCHANGED <<api, cluster, controller, history>>

\* The whole list is replaced, by one that may be older than the server's.
PatchFinalizers(p, w) ==
    /\ Exists(p)
    /\ Admits(api[p], ListWritten(p))
    /\ Write(p, [api[p] EXCEPT !.finalizers = ListWritten(p)])
    /\ Acknowledge(p, w)
    /\ UNCHANGED <<cluster, controller, verdict>>

NowHeld(p) == held' = [held EXCEPT ![p] = @ \cup {api[p].uid}]

AddFinalizer(p) ==
    /\ Calling(p, "addFinalizer")
    /\ PatchFinalizers(p, Idle)
    /\ NowHeld(p)

LateAddFinalizer(p) ==
    /\ Calling(p, "lateAddFinalizer")
    /\ PatchFinalizers(p, Continue(rec[p], Decide(p, rec[p].obj)))
    /\ NowHeld(p)

PersistState(p, w) ==
    /\ Exists(p)
    /\ Write(p, [api[p] EXCEPT !.annotation = ToAnnotation(rec[p].fsm)])
    /\ Acknowledge(p, w)
    /\ UNCHANGED <<cluster, controller, history>>

PersistDraining(p) ==
    LET o == rec[p].obj
        call == IF policy.drain_verification /\ POD_FINALIZER \notin o.finalizers
                THEN "lateAddFinalizer"
                ELSE Decide(p, o)
    IN Calling(p, "persistDraining") /\ PersistState(p, Continue(rec[p], call))

\* All conditions are written: ours as given, the others from the snapshot.
PatchGate(p, status) ==
    /\ Exists(p)
    /\ Write(p, [api[p] EXCEPT !.gate = status, !.ready = rec[p].obj.ready])
    /\ Acknowledge(p, Idle)
    /\ UNCHANGED <<cluster, controller, history>>

MarkReady(p) == Calling(p, "markReady") /\ PatchGate(p, TRUE)

RemoveReadiness(p) == Calling(p, "removeReadiness") /\ PatchGate(p, FALSE)

\* Mutant: deletionTimestamp is taken for the time of the deletion request.
TerminatingForFromRequest(p, o) == elapsed[p][o.uid]

\* Mutant: a deletionTimestamp in the future wraps around to a long time ago.
TerminatingForWrapped(p, o) ==
    IF elapsed[p][o.uid] >= o.delGrace THEN elapsed[p][o.uid] - o.delGrace ELSE Horizon

\* Mutant: the timestamp is never there, and the default 0 is used.
TerminatingForDefault(p, o) == 0

\* deletionTimestamp is the deletion request plus its grace period.
TerminatingFor(p, o) ==
    IF elapsed[p][o.uid] > o.delGrace THEN elapsed[p][o.uid] - o.delGrace ELSE 0

\* Mutant: /drainez is ready for any idle process, told to stop or not.
PollOutcomesIdle(p, o) ==
    IF o.ip /\ o.uid = uids[p] /\ proc[p] \in Alive
    THEN {"Unreachable", "NotYet", "ReadyToDelete"}
    ELSE {"Unreachable"}

\* What a poll of the snapshot's IP can return.  Without an IP nothing is
\* asked.  Whoever has the IP may answer; any request may go unanswered.
PollOutcomes(p, o) ==
    LET ours == o.ip /\ o.uid = uids[p] /\ proc[p] \in Alive
        another == o.ip /\ IpReuse /\ (reused[p] \/ o.uid # uids[p])
    IN {"Unreachable"}
         \cup (IF ours \/ another THEN {"NotYet"} ELSE {})
         \cup (IF (ours /\ proc[p] = "draining") \/ another
               THEN {"ReadyToDelete"} ELSE {})

\* Deletion is allowed on a ready answer, or on none past the grace period.
Polled(p, outcome) ==
    LET w == rec[p]
        u == w.obj.uid
        release == [w EXCEPT !.call = "persistAllowed",
                             !.fsm = Transition(w.fsm, "DrainVerified")]
        Allow(why) ==
            /\ rec' = [rec EXCEPT ![p] = release]
            /\ verdict' = [verdict EXCEPT ![p][u] = IF @ = "none" THEN why ELSE @]
        Wait == rec' = [rec EXCEPT ![p] = Idle] /\ UNCHANGED verdict
    IN /\ Calling(p, "pollDrainez")
       /\ CASE outcome = "ReadyToDelete" -> Allow("verified")
            [] outcome = "Unreachable" /\ TerminatingFor(p, w.obj) >= Grace
                                         -> Allow("forced")
            [] OTHER                     -> Wait
       /\ UNCHANGED <<api, cluster, controller, disruptions, held>>

PollDrainez(p) == \E outcome \in PollOutcomes(p, rec[p].obj) : Polled(p, outcome)

PersistAllowed(p) ==
    Calling(p, "persistAllowed") /\ PersistState(p, Continue(rec[p], "getPod"))

\* Mutant: the list is cleared, whoever its members belong to.
GetPodCleared(p) ==
    /\ Calling(p, "getPod")
    /\ Exists(p)
    /\ rec' = [rec EXCEPT ![p].call = "releaseFinalizer", ![p].live = {}]
    /\ UNCHANGED <<api, cluster, controller, disruptions, history>>

GetPod(p) ==
    /\ Calling(p, "getPod")
    /\ Exists(p)
    /\ rec' = [rec EXCEPT ![p].call = "releaseFinalizer",
                          ![p].live = api[p].finalizers \ {POD_FINALIZER}]
    /\ UNCHANGED <<api, cluster, controller, disruptions, history>>

ReleaseFinalizer(p) ==
    /\ Calling(p, "releaseFinalizer")
    /\ PatchFinalizers(p, Idle)
    /\ UNCHANGED held

\* Everything a worker does on its own.
Worker(p) ==
    \/ StartReconcile(p)
    \/ AddFinalizer(p)
    \/ PersistDraining(p)
    \/ LateAddFinalizer(p)
    \/ MarkReady(p)
    \/ RemoveReadiness(p)
    \/ PollDrainez(p)
    \/ PersistAllowed(p)
    \/ GetPod(p)
    \/ ReleaseFinalizer(p)
    \/ CallFails(p)

-----------------------------------------------------------------------------
(***************************************************************************)
(* The kubelet and the container.                                          *)
(***************************************************************************)

StartContainer(p) ==
    /\ Exists(p)
    /\ ~api[p].terminating
    /\ proc[p] = "off"
    /\ proc' = [proc EXCEPT ![p] = "serving"]
    /\ UNCHANGED <<api, uids, reused, elapsed, controller, rec, disruptions,
                   history>>

\* /readyz answers whenever the process does, so Ready is the gate's to give.
KubeletStatus(p) ==
    LET alive == proc[p] \in Alive
        o == [api[p] EXCEPT !.phase = IF alive THEN "Running" ELSE @,
                            !.ip = alive \/ @,
                            !.ready = alive /\ (p \in Gated => api[p].gate)]
    IN /\ Exists(p)
       /\ ~(api[p].terminating /\ api[p].delGrace = 0)
       /\ o # api[p]
       /\ Write(p, o)
       /\ UNCHANGED <<cluster, controller, rec, disruptions, history>>

\* The process drains if it handles SIGTERM and dies if it does not.  One that
\* ignores the signal is one for which this action never happens.
Sigterm(p) ==
    /\ Exists(p)
    /\ api[p].terminating
    /\ proc[p] = "serving"
    /\ \E next \in {"draining", "off"} :
          proc' = [proc EXCEPT ![p] = next]
    /\ UNCHANGED <<api, uids, reused, elapsed, controller, rec, disruptions,
                   history>>

\* A crash, or the end of a drain.
Exit(p) ==
    /\ proc[p] \in Alive
    /\ proc' = [proc EXCEPT ![p] = "off"]
    /\ UNCHANGED <<api, uids, reused, elapsed, controller, rec, disruptions,
                   history>>

Kill(p) ==
    /\ Exists(p)
    /\ api[p].terminating
    /\ elapsed[p][api[p].uid] >= api[p].delGrace
    /\ Exit(p)

\* The containers are gone: the kubelet deletes the pod with a zero grace
\* period, which also moves deletionTimestamp back to the request.
Confirm(p) ==
    /\ Exists(p)
    /\ api[p].terminating
    /\ api[p].delGrace > 0
    /\ proc[p] = "off"
    /\ Write(p, [api[p] EXCEPT !.delGrace = 0])
    /\ UNCHANGED <<cluster, controller, rec, disruptions, history>>

-----------------------------------------------------------------------------
(***************************************************************************)
(* Users, other controllers, the network and the clock.                    *)
(***************************************************************************)

Create(p) ==
    /\ ~Exists(p)
    /\ uids[p] < MaxUid
    /\ uids' = [uids EXCEPT ![p] = @ + 1]
    /\ api' = [api EXCEPT ![p] = NewPod(uids[p] + 1)]
    /\ reused' = [reused EXCEPT ![p] = FALSE]
    /\ UNCHANGED <<proc, elapsed, controller, rec, disruptions, history>>

Delete(p, grace) ==
    /\ Exists(p)
    /\ ~api[p].terminating
    /\ Write(p, [api[p] EXCEPT !.terminating = TRUE, !.delGrace = grace])
    /\ UNCHANGED <<cluster, controller, rec, disruptions, history>>

\* The owner of another finalizer adds it or takes it away.
OtherOwner(p, f) ==
    /\ Exists(p)
    /\ \/ /\ ~api[p].terminating
          /\ f \notin api[p].finalizers
          /\ Write(p, [api[p] EXCEPT !.finalizers = @ \cup {f}])
       \/ /\ f \in api[p].finalizers
          /\ Write(p, [api[p] EXCEPT !.finalizers = @ \ {f}])
    /\ UNCHANGED <<cluster, controller, rec, disruptions, history>>

\* The IP of a pod whose sandbox is gone may be given to another pod.
ReuseIp(p) ==
    /\ IpReuse
    /\ uids[p] > 0
    /\ Exists(p) => api[p].terminating /\ api[p].delGrace = 0
    /\ ~reused[p]
    /\ reused' = [reused EXCEPT ![p] = TRUE]
    /\ UNCHANGED <<api, uids, proc, elapsed, controller, rec, disruptions,
                   history>>

\* Incarnations whose deletion has been requested.
Requested(p) ==
    {u \in 1 .. uids[p] : u = api[p].uid => api[p].terminating}

\* The kubelet is never more than KillSlack behind with SIGKILL.
Overdue(p) ==
    /\ Exists(p)
    /\ api[p].terminating
    /\ proc[p] \in Alive
    /\ elapsed[p][api[p].uid] >= api[p].delGrace + KillSlack

Tick ==
    /\ \A p \in Pods : ~Overdue(p)
    /\ \E p \in Pods : \E u \in Requested(p) : elapsed[p][u] < Horizon
    /\ elapsed' = [p \in Pods |-> [u \in Uids |->
                      IF u \in Requested(p) /\ elapsed[p][u] < Horizon
                      THEN elapsed[p][u] + 1
                      ELSE elapsed[p][u]]]
    /\ UNCHANGED <<api, uids, proc, reused, controller, rec, disruptions,
                   history>>

\* The version that the cache holds or will hold when all have arrived.
Newest(p) == IF watch[p] = <<>> THEN cache[p] ELSE watch[p][Len(watch[p])]

\* The API server sends a version off; it may have passed over some.
Publish(p) ==
    /\ up
    /\ Len(watch[p]) < MaxBehind
    /\ Newest(p) # api[p]
    /\ watch' = [watch EXCEPT ![p] = Append(@, api[p])]
    /\ UNCHANGED <<api, cluster, cache, rec, up, policy, disruptions, history>>

\* The cache takes the next version, however old it is by now, or the object
\* as it is when none is on its way.
Sync(p) ==
    /\ up
    /\ \/ /\ watch[p] # <<>>
          /\ cache' = [cache EXCEPT ![p] = Head(watch[p])]
          /\ watch' = [watch EXCEPT ![p] = Tail(@)]
       \/ /\ watch[p] = <<>>
          /\ cache[p] # api[p]
          /\ cache' = [cache EXCEPT ![p] = api[p]]
          /\ UNCHANGED watch
    /\ UNCHANGED <<api, cluster, rec, up, policy, disruptions, history>>

\* The process takes its cache and its workers with it.
Crash ==
    /\ up
    /\ Disrupt
    /\ up' = FALSE
    /\ cache' = [p \in Pods |-> NoPod]
    /\ watch' = [p \in Pods |-> <<>>]
    /\ rec' = [p \in Pods |-> Idle]
    /\ UNCHANGED <<api, cluster, policy, history>>

Restart ==
    /\ ~up
    /\ up' = TRUE
    /\ policy' \in StartPolicies
    /\ UNCHANGED <<api, cluster, cache, watch, rec, disruptions, history>>

-----------------------------------------------------------------------------

Kubelet(p) ==
    \/ StartContainer(p)
    \/ KubeletStatus(p)
    \/ Sigterm(p)
    \/ Exit(p)
    \/ Kill(p)
    \/ Confirm(p)

Others(p) ==
    \/ Create(p)
    \/ \E grace \in DeleteGraces : Delete(p, grace)
    \/ \E f \in OtherFinalizers : OtherOwner(p, f)
    \/ ReuseIp(p)

Next ==
    \/ \E p \in Pods : Worker(p) \/ Kubelet(p) \/ Others(p) \/ Publish(p) \/ Sync(p)
    \/ Tick
    \/ Crash
    \/ Restart

Spec == Init /\ [][Next]_vars

\* The runtime polls every worker and the watch; the kubelet starts, reports,
\* kills and confirms; the clock runs; a Deployment restarts the controller.
\* Nothing obliges users, other owners or the application to do anything.
Fairness ==
    /\ \A p \in Pods :
          /\ WF_vars(Worker(p))
          /\ WF_vars(Sync(p))
          /\ WF_vars(StartContainer(p))
          /\ WF_vars(KubeletStatus(p))
          /\ WF_vars(Kill(p))
          /\ WF_vars(Confirm(p))
    /\ WF_vars(Tick)
    /\ WF_vars(Restart)

FairSpec == Spec /\ Fairness

-----------------------------------------------------------------------------
(***************************************************************************)
(* Properties.                                                             *)
(***************************************************************************)

\* Every variable keeps to its domain; in particular a snapshot that a
\* reconcile is working on is always one of an existing pod.
TypeOK ==
    /\ api \in [Pods -> PodObjects]
    /\ uids \in [Pods -> 0 .. MaxUid]
    /\ proc \in [Pods -> Alive \cup {"off"}]
    /\ reused \in [Pods -> BOOLEAN]
    /\ elapsed \in [Pods -> [Uids -> 0 .. Horizon]]
    /\ cache \in [Pods -> PodObjects]
    /\ watch \in [Pods -> Seq(PodObjects)]
    /\ \A p \in Pods : Len(watch[p]) <= MaxBehind
    /\ rec \in [Pods -> Workers]
    /\ \A p \in Pods : rec[p].call # "none" => rec[p].obj.uid # 0
    /\ up \in BOOLEAN
    /\ policy \in StartPolicies
    /\ disruptions \in 0 .. MaxDisruptions
    /\ held \in [Pods -> SUBSET Uids]
    /\ verdict \in [Pods -> [Uids -> {"none", "verified", "forced"}]]

HasOurFinalizer(p, u) == api[p].uid = u /\ POD_FINALIZER \in api[p].finalizers

\* The promise of S2: once a pod carries our finalizer, it keeps it, and the
\* API object with it, until this controller has allowed that pod's deletion
\* on a ready /drainez or on none past the grace period.  It holds across
\* stale snapshots, failed and half-failed calls, crashes and changes of
\* policy (remove_pod_finalizer and its callers in reconcile_pod).
GatedUntilReleased ==
    \A p \in Pods : \A u \in held[p] :
        ~HasOurFinalizer(p, u) => verdict[p][u] # "none"

\* The fallback never lets go of a pod whose container still runs: silence
\* past the grace period counts from deletionTimestamp, which is already the
\* end of the grace period (terminating_for against grace in reconcile_pod).
ForcedOnlyAfterKill ==
    \A p \in Pods :
        Exists(p) /\ verdict[p][api[p].uid] = "forced" => proc[p] = "off"

\* A ready answer is worth something: no pod has its deletion verified while
\* its process has not been told to stop (drainez, poll_pod_drainez).
VerifiedOnlyAfterSigterm ==
    \A p \in Pods :
        Exists(p) /\ verdict[p][api[p].uid] = "verified" => proc[p] # "serving"

\* The annotation never claims more than was established: deletion_allowed is
\* read only on a pod whose deletion was allowed (persist_fsm_state).
AllowedAnnotationEarned ==
    \A p \in Pods :
        Exists(p) /\ api[p].annotation = "deletion_allowed"
            => verdict[p][api[p].uid] # "none"

\* The controller lets go of a pod only when the pod is being deleted: no step
\* takes our finalizer off a pod that nobody asked to delete.
NeverReleasesActivePod ==
    [][\A p \in Pods :
          ( /\ Exists(p) /\ POD_FINALIZER \in api[p].finalizers
            /\ POD_FINALIZER \notin api'[p].finalizers )
          => api[p].terminating]_vars

\* README.md, S2 step 3: a pod that has been terminating for longer than its
\* terminationGracePeriodSeconds and is unreachable is released, so no poll of
\* a dead pod that our finalizer holds may then end in more waiting.
DeadPodReleasedAtGrace ==
    [][\A p \in Pods :
          ( /\ rec[p].call = "pollDrainez" /\ rec'[p].call = "none" /\ up'
            /\ HasOurFinalizer(p, rec[p].obj.uid)
            /\ proc[p] = "off" /\ ~reused[p] )
          => elapsed[p][api[p].uid] <= Grace]_vars

\* The release takes off our finalizer and nothing else.  It reads the pod and
\* then writes the whole list back without a precondition, so this rests on a
\* terminating pod taking no new finalizers: a list that is older than what
\* another owner has written since is refused (remove_pod_finalizer).
ReleaseKeepsOthers ==
    [][\A p \in Pods :
          rec[p].call = "releaseFinalizer" /\ rec'[p] # rec[p]
              => \/ api'[p] = api[p]
                 \/ api'[p].finalizers = api[p].finalizers \ {POD_FINALIZER}]_vars

\* As long as names are not used again, all of this, with stale snapshots,
\* failed calls, crashes and changes of policy, is a deletion gate: see there.
Gate == INSTANCE DeletionGate WITH
    stage     <- [p \in Pods |-> CASE Exists(p) /\ api[p].terminating  -> "deleting"
                                   [] Exists(p) /\ ~api[p].terminating -> "active"
                                   [] ~Exists(p) /\ uids[p] = 0        -> "absent"
                                   [] OTHER                            -> "gone"],
    protected <- [p \in Pods |-> POD_FINALIZER \in api[p].finalizers],
    allowed   <- [p \in Pods |-> verdict[p][1]],
    container <- proc

\* The promise of S2 as a whole: what the cluster sees of the controller is a
\* gate that no pod passes before its deletion was allowed, for a reason that
\* was true of its container (reconcile_pod, remove_pod_finalizer).
ImplementsGate == Gate!Spec

\* A pod held by our finalizer does not stay so for ever once it is deleted:
\* a ready answer comes, or the silence of a dead container does.
HeldPodReleased ==
    \A p \in Pods :
        (Exists(p) /\ api[p].terminating /\ POD_FINALIZER \in api[p].finalizers)
            ~> ~(Exists(p) /\ api[p].terminating /\ POD_FINALIZER \in api[p].finalizers)

\* S1: the gate of a terminating pod is turned off for good, even when a
\* reconcile that began before the deletion turns it on afterwards.
GateDropped ==
    \A p \in Pods :
        (Exists(p) /\ api[p].terminating)
            ~> [](Exists(p) /\ api[p].terminating => ~api[p].gate)

\* S2 protects every pod that lives long enough: a running pod comes to carry
\* the finalizer unless it is deleted first.
RunningPodProtected ==
    \A p \in Pods :
        (Exists(p) /\ api[p].phase = "Running" /\ ~api[p].terminating)
            ~> (api[p].terminating \/ POD_FINALIZER \in api[p].finalizers \/ ~Exists(p))

\* A gated pod that goes on running is Ready for good in the end: a status
\* patch writes every condition of its snapshot back, over what the kubelet has
\* written since, but the patches stop (patch_pod_readiness_gate_status).
ReadySettles ==
    \A p \in Gated :
        <>[](Exists(p) /\ ~api[p].terminating /\ proc[p] \in Alive)
            => <>[](Exists(p) /\ api[p].gate /\ api[p].ready)

=============================================================================
