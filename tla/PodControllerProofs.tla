------------------------- MODULE PodControllerProofs -------------------------
(***************************************************************************)
(* Type correctness of PodController, for every set of pods, policies and  *)
(* bounds that its assumptions allow, one lemma per action: the reconcile  *)
(* actions need that a worker that is not idle works on an existing pod.   *)
(* Then that a held pod stays held until a verdict.                        *)
(***************************************************************************)
EXTENDS PodController, DecommissionFsmTheorems

-----------------------------------------------------------------------------
(***************************************************************************)
(* Types.                                                                  *)
(***************************************************************************)

\* The absent object is an object.
LEMMA NoPodType == NoPod \in PodObjects
BY BoundAssumption, GraceAssumption
   DEF NoPod, NewPod, PodObjects, AnnotationValues

\* A worker that does nothing is a worker.
LEMMA IdleType == Idle \in Workers
BY NoPodType DEF Idle, Workers, DecommissionStates

\* Settling an object leaves it as it is or removes it.
LEMMA SettleType ==
    ASSUME NEW o \in PodObjects
    PROVE  Settle(o) \in PodObjects
BY NoPodType DEF Settle

\* An API write keeps the objects well-formed.
LEMMA WriteType ==
    ASSUME api \in [Pods -> PodObjects], NEW p \in Pods,
           NEW o \in PodObjects, Write(p, o)
    PROVE  api' \in [Pods -> PodObjects]
BY SettleType DEF Write

\* The decision after policy evaluation is a call or the end.
LEMMA DecideType ==
    ASSUME NEW p, NEW o
    PROVE  Decide(p, o) \in Calls \cup {"none"}
BY DEF Decide, Calls

\* A reconcile that goes on keeps its snapshot; one that ends has none.
LEMMA ContinueType ==
    ASSUME NEW w \in Workers, w.obj.uid # 0, NEW call \in Calls \cup {"none"}
    PROVE  /\ Continue(w, call) \in Workers
           /\ Continue(w, call).call # "none" => Continue(w, call).obj.uid # 0
BY IdleType DEF Continue, Workers, Idle

\* Where an error leads is a worker with an existing pod, or an idle one.
LEMMA OnErrorType ==
    ASSUME NEW p \in Pods, rec[p] \in Workers, rec[p].obj.uid # 0
    PROVE  /\ OnError(p) \in Workers
           /\ OnError(p).call # "none" => OnError(p).obj.uid # 0
BY IdleType, DecideType, ContinueType DEF OnError, Idle

\* What TypeOK says of the workers.
WorkersOK ==
    /\ rec \in [Pods -> Workers]
    /\ \A p \in Pods : rec[p].call # "none" => rec[p].obj.uid # 0

\* The types of the versions on their way to the cache.
WatchOK ==
    /\ watch \in [Pods -> Seq(PodObjects)]
    /\ \A p \in Pods : Len(watch[p]) <= MaxBehind

\* The types of all else.
RestOK ==
    /\ api \in [Pods -> PodObjects]
    /\ uids \in [Pods -> 0 .. MaxUid]
    /\ proc \in [Pods -> Alive \cup {"off"}]
    /\ reused \in [Pods -> BOOLEAN]
    /\ elapsed \in [Pods -> [Uids -> 0 .. Horizon]]
    /\ cache \in [Pods -> PodObjects]
    /\ WorkersOK
    /\ up \in BOOLEAN
    /\ policy \in StartPolicies
    /\ disruptions \in 0 .. MaxDisruptions
    /\ held \in [Pods -> SUBSET Uids]
    /\ verdict \in [Pods -> [Uids -> {"none", "verified", "forced"}]]

\* The type invariant in two parts, for steps that touch one of them.
LEMMA TypeParts == TypeOK <=> WatchOK /\ RestOK
BY ZenonT(30) DEF TypeOK, WatchOK, RestOK, WorkersOK

\* The same of the next state.
LEMMA TypePartsNext == TypeOK' <=> WatchOK' /\ RestOK'
BY ZenonT(30) DEF TypeOK, WatchOK, RestOK, WorkersOK

\* A worker's next state is well-formed if what it is set to is.
LEMMA WorkerUpdate ==
    ASSUME WorkersOK, NEW p \in Pods, NEW w \in Workers,
           w.call # "none" => w.obj.uid # 0,
           rec' = [rec EXCEPT ![p] = w]
    PROVE  WorkersOK'
BY DEF WorkersOK

\* A crash or failed call stays within the bound on them.
LEMMA DisruptType ==
    ASSUME disruptions \in 0 .. MaxDisruptions, Disrupt
    PROVE  disruptions' \in 0 .. MaxDisruptions
BY BoundAssumption DEF Disrupt, MayDisrupt

\* An answer that arrives or is lost leaves the workers well-formed.
LEMMA AcknowledgeType ==
    ASSUME WorkersOK, disruptions \in 0 .. MaxDisruptions,
           NEW p \in Pods, rec[p].call # "none",
           NEW w \in Workers, w.call # "none" => w.obj.uid # 0,
           Acknowledge(p, w)
    PROVE  WorkersOK' /\ disruptions' \in 0 .. MaxDisruptions
<1>1. CASE rec' = [rec EXCEPT ![p] = w] /\ UNCHANGED disruptions
  BY <1>1, WorkerUpdate
<1>2. CASE rec' = [rec EXCEPT ![p] = OnError(p)] /\ Disrupt
  <2>1. rec[p] \in Workers /\ rec[p].obj.uid # 0
    BY DEF WorkersOK
  <2> QED
    BY <1>2, <2>1, OnErrorType, WorkerUpdate, DisruptType
<1> QED
  BY <1>1, <1>2 DEF Acknowledge

\* The finalizers that a call writes are finalizers.
LEMMA ListWrittenType ==
    ASSUME NEW p \in Pods, rec[p] \in Workers
    PROVE  ListWritten(p) \in SUBSET Finalizers
BY DEF ListWritten, Workers, PodObjects, Finalizers

-----------------------------------------------------------------------------
(***************************************************************************)
(* Type correctness, one lemma per kind of action.                         *)
(***************************************************************************)

\* A worker takes up the object of its cache.
LEMMA StartReconcileType ==
    ASSUME TypeOK, NEW p \in Pods, StartReconcile(p)
    PROVE  TypeOK'
<1> DEFINE o == cache[p]
           state == ReadState(o.annotation)
           call == CASE NeedsFinalizer(o)   -> "addFinalizer"
                     [] FirstTermination(o) -> "persistDraining"
                     [] OTHER               -> Decide(p, o)
           fsm == IF call = "persistDraining"
                  THEN Transition(state, "PodTerminating") ELSE state
           w == [call |-> call, obj |-> o, live |-> {}, fsm |-> fsm]
<1>1. WorkersOK /\ o \in PodObjects /\ o.uid # 0
  BY DEF TypeOK, WorkersOK, StartReconcile
<1>2. state \in DecommissionStates
  BY ReadStateType
<1>3. fsm \in DecommissionStates
  BY <1>2, TransitionType
<1>4. call \in Calls \cup {"none"}
  BY DecideType DEF Calls
<1>5. w \in Workers /\ w.obj.uid # 0
  BY <1>1, <1>3, <1>4 DEF Workers
<1>6. rec' = [rec EXCEPT ![p] = w]
  BY DEF StartReconcile
<1>7. WorkersOK'
  BY <1>1, <1>5, <1>6, WorkerUpdate
<1> QED
  BY <1>7 DEF TypeOK, WorkersOK, StartReconcile, cluster, controller, history

\* A call that is not applied keeps the types.
LEMMA CallFailsType ==
    ASSUME TypeOK, NEW p \in Pods, CallFails(p)
    PROVE  TypeOK'
<1>1. WorkersOK /\ rec[p] \in Workers /\ rec[p].obj.uid # 0
  BY DEF TypeOK, WorkersOK, CallFails, Calls
<1>2. WorkersOK'
  BY <1>1, OnErrorType, WorkerUpdate DEF CallFails
<1>3. disruptions' \in 0 .. MaxDisruptions
  BY DisruptType DEF CallFails, TypeOK
<1> QED
  BY <1>2, <1>3 DEF TypeOK, WorkersOK, CallFails, cluster, controller, history

\* The three calls that patch the finalizers, but for the history.
LEMMA PatchFinalizersType ==
    ASSUME TypeOK, NEW p \in Pods, rec[p].call # "none",
           NEW w \in Workers, w.call # "none" => w.obj.uid # 0,
           PatchFinalizers(p, w)
    PROVE  /\ WorkersOK' /\ disruptions' \in 0 .. MaxDisruptions
           /\ api' \in [Pods -> PodObjects]
<1>1. WorkersOK /\ rec[p] \in Workers /\ api[p] \in PodObjects
  BY DEF TypeOK, WorkersOK
<1>2. [api[p] EXCEPT !.finalizers = ListWritten(p)] \in PodObjects
  BY <1>1, ListWrittenType DEF PodObjects
<1>3. api' \in [Pods -> PodObjects]
  BY <1>2, WriteType DEF PatchFinalizers, TypeOK
<1> QED
  BY <1>1, <1>3, AcknowledgeType DEF PatchFinalizers, TypeOK

\* The incarnation recorded as held is one that exists.
LEMMA NowHeldType ==
    ASSUME TypeOK, NEW p \in Pods, Exists(p), NowHeld(p)
    PROVE  held' \in [Pods -> SUBSET Uids]
<1>1. api[p].uid \in Uids
  BY BoundAssumption DEF TypeOK, Exists, PodObjects, Uids
<1> QED
  BY <1>1 DEF TypeOK, NowHeld

\* The early finalizer keeps the types.
LEMMA AddFinalizerType ==
    ASSUME TypeOK, NEW p \in Pods, AddFinalizer(p)
    PROVE  TypeOK'
<1>1. /\ WorkersOK' /\ disruptions' \in 0 .. MaxDisruptions
      /\ api' \in [Pods -> PodObjects]
  BY IdleType, PatchFinalizersType DEF AddFinalizer, Calling, Idle
<1>2. held' \in [Pods -> SUBSET Uids]
  BY NowHeldType DEF AddFinalizer, PatchFinalizers
<1> QED
  BY <1>1, <1>2
     DEF TypeOK, WorkersOK, AddFinalizer, PatchFinalizers, cluster, controller

\* The late finalizer, and what follows it, keep the types.
LEMMA LateAddFinalizerType ==
    ASSUME TypeOK, NEW p \in Pods, LateAddFinalizer(p)
    PROVE  TypeOK'
<1> DEFINE w == Continue(rec[p], Decide(p, rec[p].obj))
<1>1. rec[p] \in Workers /\ rec[p].call # "none" /\ rec[p].obj.uid # 0
  BY DEF TypeOK, LateAddFinalizer, Calling
<1>2. w \in Workers /\ (w.call # "none" => w.obj.uid # 0)
  BY <1>1, DecideType, ContinueType
<1>3. PatchFinalizers(p, w)
  BY DEF LateAddFinalizer
<1> HIDE DEF w
<1>4. /\ WorkersOK' /\ disruptions' \in 0 .. MaxDisruptions
      /\ api' \in [Pods -> PodObjects]
  BY <1>1, <1>2, <1>3, PatchFinalizersType
<1>5. held' \in [Pods -> SUBSET Uids]
  BY NowHeldType DEF LateAddFinalizer, PatchFinalizers
<1> QED
  BY <1>3, <1>4, <1>5
     DEF TypeOK, WorkersOK, PatchFinalizers, cluster, controller

\* The release keeps the types.
LEMMA ReleaseFinalizerType ==
    ASSUME TypeOK, NEW p \in Pods, ReleaseFinalizer(p)
    PROVE  TypeOK'
<1>1. /\ WorkersOK' /\ disruptions' \in 0 .. MaxDisruptions
      /\ api' \in [Pods -> PodObjects]
  BY IdleType, PatchFinalizersType DEF ReleaseFinalizer, Calling, Idle
<1> QED
  BY <1>1
     DEF TypeOK, WorkersOK, ReleaseFinalizer, PatchFinalizers, cluster, controller

\* The two calls that write the annotation.
LEMMA PersistStateType ==
    ASSUME TypeOK, NEW p \in Pods, rec[p].call # "none",
           NEW w \in Workers, w.call # "none" => w.obj.uid # 0,
           PersistState(p, w)
    PROVE  TypeOK'
<1>1. WorkersOK /\ rec[p].fsm \in DecommissionStates /\ api[p] \in PodObjects
  BY DEF TypeOK, WorkersOK, Workers
<1>2. [api[p] EXCEPT !.annotation = ToAnnotation(rec[p].fsm)] \in PodObjects
  BY <1>1, AnnotationType DEF PodObjects
<1>3. api' \in [Pods -> PodObjects]
  BY <1>2, WriteType DEF PersistState, TypeOK
<1>4. WorkersOK' /\ disruptions' \in 0 .. MaxDisruptions
  BY <1>1, AcknowledgeType DEF PersistState, TypeOK
<1> QED
  BY <1>3, <1>4
     DEF TypeOK, WorkersOK, PersistState, cluster, controller, history

\* Storing draining, and what follows it, keep the types.
LEMMA PersistDrainingType ==
    ASSUME TypeOK, NEW p \in Pods, PersistDraining(p)
    PROVE  TypeOK'
<1> DEFINE o == rec[p].obj
           call == IF policy.drain_verification /\ POD_FINALIZER \notin o.finalizers
                   THEN "lateAddFinalizer"
                   ELSE Decide(p, o)
           w == Continue(rec[p], call)
<1>1. rec[p] \in Workers /\ rec[p].call # "none" /\ rec[p].obj.uid # 0
  BY DEF TypeOK, PersistDraining, Calling
<1>2. call \in Calls \cup {"none"}
  BY DecideType DEF Calls
<1>3. PersistState(p, w)
  BY DEF PersistDraining
<1> HIDE DEF call
<1>4. w \in Workers /\ (w.call # "none" => w.obj.uid # 0)
  BY <1>1, <1>2, ContinueType
<1> HIDE DEF w
<1> QED
  BY <1>1, <1>3, <1>4, PersistStateType

\* Storing deletion_allowed, and the GET that follows, keep the types.
LEMMA PersistAllowedType ==
    ASSUME TypeOK, NEW p \in Pods, PersistAllowed(p)
    PROVE  TypeOK'
<1>1. rec[p] \in Workers /\ rec[p].call # "none" /\ rec[p].obj.uid # 0
  BY DEF TypeOK, PersistAllowed, Calling
<1>2. /\ Continue(rec[p], "getPod") \in Workers
      /\ Continue(rec[p], "getPod").call # "none"
            => Continue(rec[p], "getPod").obj.uid # 0
  BY <1>1, ContinueType DEF Calls
<1> QED
  BY <1>1, <1>2, PersistStateType DEF PersistAllowed

\* The two calls that write the conditions.
LEMMA PatchGateType ==
    ASSUME TypeOK, NEW p \in Pods, rec[p].call # "none",
           NEW status \in BOOLEAN, PatchGate(p, status)
    PROVE  TypeOK'
<1>1. /\ WorkersOK /\ rec[p].obj.ready \in BOOLEAN /\ api[p] \in PodObjects
  BY DEF TypeOK, WorkersOK, Workers, PodObjects
<1>2. [api[p] EXCEPT !.gate = status, !.ready = rec[p].obj.ready] \in PodObjects
  BY <1>1 DEF PodObjects
<1>3. api' \in [Pods -> PodObjects]
  BY <1>2, WriteType DEF PatchGate, TypeOK
<1>4. WorkersOK' /\ disruptions' \in 0 .. MaxDisruptions
  BY <1>1, IdleType, AcknowledgeType DEF PatchGate, TypeOK, Idle
<1> QED
  BY <1>3, <1>4 DEF TypeOK, WorkersOK, PatchGate, cluster, controller, history

\* A poll keeps the types, whatever is answered.
LEMMA PollDrainezType ==
    ASSUME TypeOK, NEW p \in Pods, PollDrainez(p)
    PROVE  TypeOK'
<1> DEFINE w == rec[p]
           u == w.obj.uid
           release == [w EXCEPT !.call = "persistAllowed",
                                !.fsm = Transition(w.fsm, "DrainVerified")]
<1>1. WorkersOK /\ w \in Workers /\ u # 0
  BY DEF TypeOK, WorkersOK, PollDrainez, Polled, Calling
<1>2. u \in Uids
  BY <1>1, BoundAssumption DEF Workers, PodObjects, Uids
<1>3. release \in Workers /\ release.obj.uid # 0
  BY <1>1, TransitionType DEF Workers, Calls
<1>4. CASE rec' = [rec EXCEPT ![p] = Idle] /\ UNCHANGED verdict
  <2>1. WorkersOK'
    BY <1>1, <1>4, IdleType, WorkerUpdate DEF Idle
  <2> QED
    BY <1>4, <2>1 DEF TypeOK, WorkersOK, PollDrainez, Polled, cluster, controller
<1>5. ASSUME NEW why \in {"verified", "forced"},
             rec' = [rec EXCEPT ![p] = release],
             verdict' = [verdict EXCEPT ![p][u] = IF @ = "none" THEN why ELSE @]
      PROVE  TypeOK'
  <2>1. WorkersOK'
    BY <1>1, <1>3, <1>5, WorkerUpdate
  <2>2. verdict' \in [Pods -> [Uids -> {"none", "verified", "forced"}]]
    BY <1>2, <1>5 DEF TypeOK
  <2> QED
    BY <2>1, <2>2 DEF TypeOK, WorkersOK, PollDrainez, Polled, cluster, controller
<1> QED
  BY <1>4, <1>5 DEF PollDrainez, Polled

\* The GET keeps the types: the list it returns is one of finalizers.
LEMMA GetPodType ==
    ASSUME TypeOK, NEW p \in Pods, GetPod(p)
    PROVE  TypeOK'
<1> DEFINE w == [rec[p] EXCEPT !.call = "releaseFinalizer",
                               !.live = api[p].finalizers \ {POD_FINALIZER}]
<1>1. WorkersOK /\ rec[p] \in Workers /\ rec[p].obj.uid # 0 /\ api[p] \in PodObjects
  BY DEF TypeOK, WorkersOK, GetPod, Calling
<1>2. w \in Workers /\ w.obj.uid # 0
  BY <1>1 DEF Workers, Calls, PodObjects
<1>3. rec' = [rec EXCEPT ![p] = w]
  BY <1>1 DEF GetPod, TypeOK
<1>4. WorkersOK'
  BY <1>1, <1>2, <1>3, WorkerUpdate
<1> QED
  BY <1>4 DEF TypeOK, WorkersOK, GetPod, cluster, controller, history

\* Everything a worker does.
LEMMA WorkerType ==
    ASSUME TypeOK, NEW p \in Pods, Worker(p)
    PROVE  TypeOK'
<1>1. CASE MarkReady(p) \/ RemoveReadiness(p)
  BY <1>1, PatchGateType DEF MarkReady, RemoveReadiness, Calling
<1> QED
  BY <1>1, StartReconcileType, CallFailsType, AddFinalizerType,
     LateAddFinalizerType, PersistDrainingType, PollDrainezType,
     PersistAllowedType, GetPodType, ReleaseFinalizerType
     DEF Worker

\* The kubelet and the container.
LEMMA KubeletType ==
    ASSUME TypeOK, NEW p \in Pods, Kubelet(p)
    PROVE  TypeOK'
<1>1. api[p] \in PodObjects
  BY DEF TypeOK
<1>2. CASE StartContainer(p) \/ Sigterm(p) \/ Exit(p) \/ Kill(p)
  <2>1. proc' \in [Pods -> Alive \cup {"off"}]
    BY <1>2 DEF TypeOK, StartContainer, Sigterm, Exit, Kill, Alive
  <2> QED
    BY <1>2, <2>1
       DEF TypeOK, StartContainer, Sigterm, Exit, Kill, controller, history
<1>3. CASE KubeletStatus(p)
  <2> DEFINE alive == proc[p] \in Alive
             o == [api[p] EXCEPT !.phase = IF alive THEN "Running" ELSE @,
                                 !.ip = alive \/ @,
                                 !.ready = alive /\ (p \in Gated => api[p].gate)]
  <2>1. o \in PodObjects
    <3>1. (alive \/ api[p].ip) \in BOOLEAN
      OBVIOUS
    <3>2. (alive /\ (p \in Gated => api[p].gate)) \in BOOLEAN
      OBVIOUS
    <3>3. (IF alive THEN "Running" ELSE api[p].phase) \in {"Pending", "Running"}
      BY <1>1 DEF PodObjects
    <3> QED
      BY <1>1, <3>1, <3>2, <3>3 DEF PodObjects
  <2>2. Write(p, o)
    BY <1>3 DEF KubeletStatus
  <2>3. api' \in [Pods -> PodObjects]
    BY <2>1, <2>2, WriteType DEF TypeOK
  <2> QED
    BY <1>3, <2>3 DEF TypeOK, KubeletStatus, cluster, controller, history
<1>4. CASE Confirm(p)
  <2>1. [api[p] EXCEPT !.delGrace = 0] \in PodObjects
    BY <1>1, GraceAssumption DEF PodObjects
  <2>2. api' \in [Pods -> PodObjects]
    BY <1>4, <2>1, WriteType DEF TypeOK, Confirm
  <2> QED
    BY <1>4, <2>2 DEF TypeOK, Confirm, cluster, controller, history
<1> QED
  BY <1>2, <1>3, <1>4 DEF Kubelet

\* Users, the owners of other finalizers and the network.
LEMMA OthersType ==
    ASSUME TypeOK, NEW p \in Pods, Others(p)
    PROVE  TypeOK'
<1>1. api[p] \in PodObjects
  BY DEF TypeOK
<1>2. CASE Create(p)
  <2>1. uids[p] + 1 \in 0 .. MaxUid
    BY <1>2, BoundAssumption DEF Create, TypeOK
  <2>2. NewPod(uids[p] + 1) \in PodObjects
    BY <2>1, GraceAssumption DEF NewPod, PodObjects, AnnotationValues
  <2> QED
    BY <1>2, <2>1, <2>2 DEF TypeOK, Create, controller, history
<1>3. ASSUME NEW grace \in DeleteGraces, Delete(p, grace)
      PROVE  TypeOK'
  <2>1. grace \in 0 .. Grace
    BY GraceAssumption
  <2>2. [api[p] EXCEPT !.terminating = TRUE, !.delGrace = grace] \in PodObjects
    BY <1>1, <2>1 DEF PodObjects
  <2>3. api' \in [Pods -> PodObjects]
    BY <1>3, <2>2, WriteType DEF TypeOK, Delete
  <2> QED
    BY <1>3, <2>3 DEF TypeOK, Delete, cluster, controller, history
<1>4. ASSUME NEW f \in OtherFinalizers, OtherOwner(p, f)
      PROVE  TypeOK'
  <2>1. /\ [api[p] EXCEPT !.finalizers = @ \cup {f}] \in PodObjects
        /\ [api[p] EXCEPT !.finalizers = @ \ {f}] \in PodObjects
    BY <1>1 DEF PodObjects, Finalizers
  <2>2. api' \in [Pods -> PodObjects]
    BY <1>4, <2>1, WriteType DEF TypeOK, OtherOwner
  <2> QED
    BY <1>4, <2>2 DEF TypeOK, OtherOwner, cluster, controller, history
<1>5. CASE ReuseIp(p)
  BY <1>5 DEF TypeOK, ReuseIp, controller, history
<1> QED
  BY <1>2, <1>3, <1>4, <1>5 DEF Others

\* Time stays within the horizon.
LEMMA TickType ==
    ASSUME TypeOK, Tick
    PROVE  TypeOK'
<1>1. elapsed' \in [Pods -> [Uids -> 0 .. Horizon]]
  <2> SUFFICES ASSUME NEW p \in Pods, NEW u \in Uids
               PROVE  (IF u \in Requested(p) /\ elapsed[p][u] < Horizon
                       THEN elapsed[p][u] + 1 ELSE elapsed[p][u]) \in 0 .. Horizon
    BY DEF Tick
  <2>1. elapsed[p][u] \in 0 .. Horizon
    BY DEF TypeOK
  <2> QED
    BY <2>1, GraceAssumption DEF Horizon
<1> QED
  BY <1>1 DEF TypeOK, Tick, controller, history

\* A crash leaves an empty cache and idle workers.
LEMMA CrashType ==
    ASSUME TypeOK, Crash
    PROVE  TypeOK'
<1>1. disruptions' \in 0 .. MaxDisruptions
  BY DisruptType, TypeParts DEF Crash, RestOK
<1>2. WorkersOK'
  BY IdleType DEF Crash, Idle, WorkersOK
<1>3. cache' \in [Pods -> PodObjects]
  BY NoPodType DEF Crash
<1>4. WatchOK'
  BY BoundAssumption DEF Crash, WatchOK
<1>5. RestOK'
  BY <1>1, <1>2, <1>3, TypeParts DEF RestOK, Crash, cluster, history
<1> QED
  BY <1>4, <1>5, TypePartsNext

\* At the start every variable is in its domain.
LEMMA TypeInit == Init => TypeOK
<1> SUFFICES ASSUME Init PROVE TypeOK
  OBVIOUS
<1>1. 0 \in 0 .. Horizon /\ 0 \in 0 .. MaxUid /\ 0 \in 0 .. MaxDisruptions
  BY GraceAssumption, BoundAssumption DEF Horizon
<1>2. WatchOK
  BY BoundAssumption DEF Init, WatchOK
<1>3. RestOK
  BY <1>1, NoPodType, IdleType DEF Init, RestOK, WorkersOK, Idle, Alive
<1> QED
  BY <1>2, <1>3, TypeParts

\* A version sent off is one more on its way, if there is room for it.
LEMMA PublishType ==
    ASSUME TypeOK, NEW p \in Pods, Publish(p)
    PROVE  TypeOK'
<1>1. api[p] \in PodObjects /\ watch[p] \in Seq(PodObjects)
        /\ Len(watch[p]) < MaxBehind /\ MaxBehind \in Nat
  BY BoundAssumption DEF TypeOK, Publish
<1>2. Append(watch[p], api[p]) \in Seq(PodObjects)
        /\ Len(Append(watch[p], api[p])) <= MaxBehind
  BY <1>1
<1>3. /\ watch' \in [Pods -> Seq(PodObjects)]
      /\ \A q \in Pods : Len(watch'[q]) <= MaxBehind
  BY <1>2 DEF TypeOK, Publish
<1> QED
  BY <1>3 DEF TypeOK, Publish, cluster, history

\* The cache takes a version off the way, or the object itself.
LEMMA SyncType ==
    ASSUME TypeOK, NEW p \in Pods, Sync(p)
    PROVE  TypeOK'
<1>1. WatchOK /\ RestOK
  BY TypeParts
<1>2. api \in [Pods -> PodObjects] /\ cache \in [Pods -> PodObjects]
  BY <1>1 DEF RestOK
<1>3. /\ watch[p] \in Seq(PodObjects) /\ Len(watch[p]) <= MaxBehind
      /\ MaxBehind \in Nat
  BY <1>1, BoundAssumption DEF WatchOK
<1>4. cache' \in [Pods -> PodObjects] /\ WatchOK'
  <2>1. CASE watch[p] # <<>> /\ cache' = [cache EXCEPT ![p] = Head(watch[p])]
                             /\ watch' = [watch EXCEPT ![p] = Tail(@)]
    <3>1. Head(watch[p]) \in PodObjects
      BY <1>3, <2>1
    <3>2. Tail(watch[p]) \in Seq(PodObjects) /\ Len(Tail(watch[p])) <= MaxBehind
      BY <1>3, <2>1
    <3>3. cache' \in [Pods -> PodObjects]
      BY <1>2, <2>1, <3>1
    <3>4. WatchOK'
      BY <1>1, <2>1, <3>2 DEF WatchOK
    <3> QED
      BY <3>3, <3>4
  <2>2. CASE cache' = [cache EXCEPT ![p] = api[p]] /\ UNCHANGED watch
    BY <1>1, <1>2, <2>2 DEF WatchOK
  <2> QED
    BY <2>1, <2>2 DEF Sync
<1>5. RestOK'
  BY <1>1, <1>4 DEF RestOK, WorkersOK, Sync, cluster, history
<1> QED
  BY <1>4, <1>5, TypePartsNext

\* Every step leaves every variable in its domain.
LEMMA TypeStep ==
    ASSUME TypeOK, [Next]_vars
    PROVE  TypeOK'
<1>1. ASSUME NEW p \in Pods, Publish(p) \/ Sync(p) PROVE TypeOK'
  BY <1>1, PublishType, SyncType
<1>2. CASE Restart
  BY <1>2 DEF TypeOK, Restart, cluster, history
<1>3. CASE UNCHANGED vars
  BY <1>3 DEF TypeOK, vars, cluster, controller, history
<1> QED
  BY <1>1, <1>2, <1>3, WorkerType, KubeletType, OthersType, TickType, CrashType
     DEF Next

\* Every variable keeps to its domain, and no reconcile works on nothing.
THEOREM TypeCorrect == Spec => []TypeOK
<1>1. TypeOK /\ [Next]_vars => TypeOK'
  BY TypeStep
<1> QED
  BY <1>1, TypeInit, PTL DEF Spec

-----------------------------------------------------------------------------
(***************************************************************************)
(* The promise of S2, proved for pods whose name is used once (MaxUid = 1, *)
(* as with the generated names of a Deployment) and for every set of pods, *)
(* policies and other finalizers, any bound on disruptions and any grace   *)
(* period.  Where a name is used again it fails: calls go by name.         *)
(***************************************************************************)

Releasing == {"persistAllowed", "getPod", "releaseFinalizer"}

\* A reconcile on its way to the release has a verdict on the pod it works on.
ReleaseEarned ==
    \A p \in Pods :
        rec[p].call \in Releasing => verdict[p][rec[p].obj.uid] # "none"

-----------------------------------------------------------------------------
(***************************************************************************)
(* A reconcile does not come to the release without a verdict.             *)
(***************************************************************************)

\* Neither evaluation nor a failed call leads to the release.
LEMMA DecideNotReleasing ==
    ASSUME NEW p, NEW o
    PROVE  Decide(p, o) \in {"markReady", "removeReadiness", "pollDrainez", "none"}
BY DEF Decide

\* A failed call does not lead to the release.
LEMMA OnErrorNotReleasing ==
    ASSUME NEW p \in Pods, rec[p] \in Workers
    PROVE  OnError(p).call \notin Releasing
<1>1. CASE rec[p].call = "lateAddFinalizer"
  BY <1>1, DecideNotReleasing DEF OnError, Continue, Idle, Workers, Releasing
<1>2. CASE rec[p].call # "lateAddFinalizer"
  BY <1>2 DEF OnError, Idle, Releasing
<1> QED
  BY <1>1, <1>2

\* An answered call leaves the worker as told, a lost answer off the release.
LEMMA AcknowledgeNotReleasing ==
    ASSUME NEW p \in Pods, rec \in [Pods -> Workers], NEW w, Acknowledge(p, w)
    PROVE  \/ rec' = [rec EXCEPT ![p] = w]
           \/ /\ \A q \in Pods \ {p} : rec'[q] = rec[q]
              /\ rec'[p].call \notin Releasing
BY OnErrorNotReleasing DEF Acknowledge

\* Only the worker of a pod takes it to the release, and only after a verdict.
LEMMA ReleaseEarnedStep ==
    ASSUME TypeOK, ReleaseEarned, [Next]_vars
    PROVE  ReleaseEarned'
<1>0. rec \in [Pods -> Workers]
  BY DEF TypeOK
<1>1. CASE UNCHANGED <<rec, verdict>>
  BY <1>1 DEF ReleaseEarned
<1>2. CASE Crash
  BY <1>2 DEF ReleaseEarned, Crash, Idle, Releasing
<1>3. ASSUME NEW p \in Pods, Worker(p), ~UNCHANGED <<rec, verdict>>
      PROVE  ReleaseEarned'
  <2>1. CASE PollDrainez(p)
    <3>1. rec[p].obj.uid \in Uids
      BY <1>0, <2>1, BoundAssumption
         DEF TypeOK, PollDrainez, Polled, Calling, Workers, PodObjects, Uids
    <3>2. ASSUME NEW q \in Pods, rec'[q].call \in Releasing
          PROVE  verdict'[q][rec'[q].obj.uid] # "none"
      <4>1. CASE rec' = [rec EXCEPT ![p] = Idle] /\ UNCHANGED verdict
        BY <3>2, <4>1, <1>0 DEF ReleaseEarned, Idle, Releasing
      <4>2. ASSUME NEW why \in {"verified", "forced"},
                   rec' = [rec EXCEPT ![p] =
                      [rec[p] EXCEPT !.call = "persistAllowed",
                          !.fsm = Transition(rec[p].fsm, "DrainVerified")]],
                   verdict' = [verdict EXCEPT ![p][rec[p].obj.uid] =
                      IF @ = "none" THEN why ELSE @]
            PROVE  verdict'[q][rec'[q].obj.uid] # "none"
        <5>1. rec'[q].obj = rec[q].obj
          BY <1>0, <4>2 DEF Workers
        <5>2. CASE q = p
          BY <3>1, <4>2, <5>1, <5>2 DEF TypeOK
        <5>3. CASE q # p
          BY <3>2, <4>2, <5>1, <5>3, <1>0 DEF ReleaseEarned, TypeOK
        <5> QED
          BY <5>2, <5>3
      <4> QED
        BY <2>1, <4>1, <4>2 DEF PollDrainez, Polled
    <3> QED
      BY <3>2 DEF ReleaseEarned
  <2>2. CASE PersistAllowed(p)
    BY <1>0, <2>2, AcknowledgeNotReleasing
       DEF ReleaseEarned, PersistAllowed, PersistState, Calling, Continue,
           Releasing, Workers, history
  <2>3. CASE GetPod(p)
    BY <1>0, <2>3 DEF ReleaseEarned, GetPod, Calling, Releasing, Workers, history
  <2>4. CASE ReleaseFinalizer(p)
    BY <1>0, <2>4, AcknowledgeNotReleasing
       DEF ReleaseEarned, ReleaseFinalizer, PatchFinalizers, Idle, Releasing
  <2>5. CASE AddFinalizer(p)
    BY <1>0, <2>5, AcknowledgeNotReleasing
       DEF ReleaseEarned, AddFinalizer, PatchFinalizers, Idle, Releasing
  <2>6. CASE LateAddFinalizer(p)
    BY <1>0, <2>6, AcknowledgeNotReleasing, DecideNotReleasing
       DEF ReleaseEarned, LateAddFinalizer, PatchFinalizers, Continue, Idle,
           Releasing, Workers
  <2>7. CASE PersistDraining(p)
    BY <1>0, <2>7, AcknowledgeNotReleasing, DecideNotReleasing
       DEF ReleaseEarned, PersistDraining, PersistState, Continue, Idle,
           Releasing, Workers, history
  <2>8. CASE MarkReady(p) \/ RemoveReadiness(p)
    BY <1>0, <2>8, AcknowledgeNotReleasing
       DEF ReleaseEarned, MarkReady, RemoveReadiness, PatchGate, Idle,
           Releasing, history
  <2>9. CASE StartReconcile(p)
    BY <1>0, <2>9, DecideNotReleasing
       DEF ReleaseEarned, StartReconcile, Releasing, history
  <2>10. CASE CallFails(p)
    BY <1>0, <2>10, OnErrorNotReleasing
       DEF ReleaseEarned, CallFails, history
  <2> QED
    BY <1>3, <2>1, <2>2, <2>3, <2>4, <2>5, <2>6, <2>7, <2>8, <2>9, <2>10
       DEF Worker
<1>4. CASE Tick \/ Restart
  BY <1>1, <1>4 DEF Tick, Restart, history
<1>5. ASSUME NEW p \in Pods, Kubelet(p) \/ Others(p) \/ Publish(p) \/ Sync(p)
      PROVE  ReleaseEarned'
  BY <1>1, <1>5
     DEF Kubelet, StartContainer, KubeletStatus, Sigterm, Exit, Kill, Confirm,
         Others, Create, Delete, OtherOwner, ReuseIp, Publish, Sync, history
<1> QED
  BY <1>1, <1>2, <1>3, <1>4, <1>5 DEF Next, vars, history

-----------------------------------------------------------------------------

\* A write that keeps an object's uid and our finalizer keeps it held.
LEMMA WriteKeepsHold ==
    ASSUME api \in [Pods -> PodObjects], NEW p \in Pods, NEW o \in PodObjects,
           Write(p, o), o.uid = api[p].uid,
           POD_FINALIZER \in api[p].finalizers => POD_FINALIZER \in o.finalizers
    PROVE  \A q \in Pods, u \in Uids : HasOurFinalizer(q, u) => HasOurFinalizer(q, u)'
BY DEF Write, Settle, HasOurFinalizer

\* Only the release takes our finalizer away from the object that has it.
LEMMA OnlyReleaseLetsGo ==
    ASSUME TypeOK, [Next]_vars,
           NEW p \in Pods, NEW u \in Uids,
           HasOurFinalizer(p, u), ~HasOurFinalizer(p, u)'
    PROVE  ReleaseFinalizer(p)
<1> DEFINE Kept == \A q \in Pods, v \in Uids :
                      HasOurFinalizer(q, v) => HasOurFinalizer(q, v)'
<1> SUFFICES Kept \/ ReleaseFinalizer(p)
  OBVIOUS
<1>0. api \in [Pods -> PodObjects] /\ rec \in [Pods -> Workers]
  BY DEF TypeOK
<1>1. ASSUME UNCHANGED api
      PROVE  Kept
  BY <1>1 DEF HasOurFinalizer
<1>2. ASSUME NEW q \in Pods, Worker(q)
      PROVE  Kept \/ ReleaseFinalizer(p)
  <2>0. api[q] \in PodObjects /\ rec[q] \in Workers
    BY <1>0
  <2>1. CASE AddFinalizer(q) \/ LateAddFinalizer(q)
    <3> DEFINE o == [api[q] EXCEPT !.finalizers = ListWritten(q)]
    <3>1. Write(q, o) /\ POD_FINALIZER \in ListWritten(q)
      BY <2>1 DEF AddFinalizer, LateAddFinalizer, Calling, PatchFinalizers, ListWritten
    <3>2. o \in PodObjects /\ o.uid = api[q].uid /\ POD_FINALIZER \in o.finalizers
      BY <2>0, <3>1, ListWrittenType DEF PodObjects
    <3> QED
      BY <1>0, <3>1, <3>2, WriteKeepsHold
  <2>2. CASE PersistDraining(q) \/ PersistAllowed(q)
    <3> DEFINE o == [api[q] EXCEPT !.annotation = ToAnnotation(rec[q].fsm)]
    <3>1. Write(q, o)
      BY <2>2 DEF PersistDraining, PersistAllowed, PersistState
    <3>2. o \in PodObjects /\ o.uid = api[q].uid /\ o.finalizers = api[q].finalizers
      BY <2>0, AnnotationType DEF PodObjects, Workers
    <3> QED
      BY <1>0, <3>1, <3>2, WriteKeepsHold
  <2>3. ASSUME NEW status \in BOOLEAN, PatchGate(q, status)
        PROVE  Kept
    <3> DEFINE o == [api[q] EXCEPT !.gate = status, !.ready = rec[q].obj.ready]
    <3>1. o \in PodObjects /\ o.uid = api[q].uid /\ o.finalizers = api[q].finalizers
      BY <2>0 DEF PodObjects, Workers
    <3> QED
      BY <1>0, <2>3, <3>1, WriteKeepsHold DEF PatchGate
  <2>4. CASE ReleaseFinalizer(q)
    <3>1. CASE q = p
      BY <2>4, <3>1
    <3>2. CASE q # p
      <4>1. api'[p] = api[p]
        BY <2>4, <3>2, <1>0 DEF ReleaseFinalizer, PatchFinalizers, Write
      <4> QED
        BY <4>1 DEF HasOurFinalizer
    <3> QED
      BY <3>1, <3>2
  <2>5. CASE StartReconcile(q) \/ PollDrainez(q) \/ GetPod(q) \/ CallFails(q)
    BY <1>1, <2>5 DEF StartReconcile, PollDrainez, Polled, GetPod, CallFails
  <2> QED
    BY <1>2, <2>1, <2>2, <2>3, <2>4, <2>5
       DEF Worker, MarkReady, RemoveReadiness
<1>3. ASSUME NEW q \in Pods, Kubelet(q)
      PROVE  Kept
  <2>0. api[q] \in PodObjects
    BY <1>0
  <2>1. CASE KubeletStatus(q)
    <3> DEFINE alive == proc[q] \in Alive
               o == [api[q] EXCEPT !.phase = IF alive THEN "Running" ELSE @,
                                   !.ip = alive \/ @,
                                   !.ready = alive /\ (q \in Gated => api[q].gate)]
    <3>1. (alive \/ api[q].ip) \in BOOLEAN
      OBVIOUS
    <3>2. (alive /\ (q \in Gated => api[q].gate)) \in BOOLEAN
      OBVIOUS
    <3>3. (IF alive THEN "Running" ELSE api[q].phase) \in {"Pending", "Running"}
      BY <2>0 DEF PodObjects
    <3>4. o \in PodObjects /\ o.uid = api[q].uid /\ o.finalizers = api[q].finalizers
      BY <2>0, <3>1, <3>2, <3>3 DEF PodObjects
    <3>5. Write(q, o)
      BY <2>1 DEF KubeletStatus
    <3> QED
      BY <1>0, <3>4, <3>5, WriteKeepsHold
  <2>2. CASE Confirm(q)
    <3> DEFINE o == [api[q] EXCEPT !.delGrace = 0]
    <3>1. o \in PodObjects /\ o.uid = api[q].uid /\ o.finalizers = api[q].finalizers
      BY <2>0, GraceAssumption DEF PodObjects
    <3> QED
      BY <1>0, <2>2, <3>1, WriteKeepsHold DEF Confirm
  <2> QED
    BY <1>1, <1>3, <2>1, <2>2
       DEF Kubelet, StartContainer, Sigterm, Exit, Kill
<1>4. ASSUME NEW q \in Pods, Others(q)
      PROVE  Kept
  <2>0. api[q] \in PodObjects
    BY <1>0
  <2>1. CASE Create(q)
    BY <1>0, <2>1, BoundAssumption DEF Create, Exists, HasOurFinalizer, Uids
  <2>2. ASSUME NEW grace \in DeleteGraces, Delete(q, grace)
        PROVE  Kept
    <3> DEFINE o == [api[q] EXCEPT !.terminating = TRUE, !.delGrace = grace]
    <3>0. grace \in 0 .. Grace
      BY GraceAssumption
    <3>1. o \in PodObjects /\ o.uid = api[q].uid /\ o.finalizers = api[q].finalizers
      BY <2>0, <3>0 DEF PodObjects
    <3> QED
      BY <1>0, <2>2, <3>1, WriteKeepsHold DEF Delete
  <2>3. ASSUME NEW f \in OtherFinalizers, OtherOwner(q, f)
        PROVE  Kept
    <3>0. f # POD_FINALIZER
      BY NamesAssumption
    <3>1. CASE Write(q, [api[q] EXCEPT !.finalizers = @ \cup {f}])
      <4> DEFINE o == [api[q] EXCEPT !.finalizers = @ \cup {f}]
      <4>1. o \in PodObjects /\ o.uid = api[q].uid
              /\ api[q].finalizers \subseteq o.finalizers
        BY <2>0 DEF PodObjects, Finalizers
      <4> QED
        BY <1>0, <3>1, <4>1, WriteKeepsHold
    <3>2. CASE Write(q, [api[q] EXCEPT !.finalizers = @ \ {f}])
      <4> DEFINE o == [api[q] EXCEPT !.finalizers = @ \ {f}]
      <4>1. o \in PodObjects /\ o.uid = api[q].uid
              /\ o.finalizers = api[q].finalizers \ {f}
        BY <2>0 DEF PodObjects, Finalizers
      <4> QED
        BY <1>0, <3>0, <3>2, <4>1, WriteKeepsHold
    <3> QED
      BY <2>3, <3>1, <3>2 DEF OtherOwner
  <2>4. CASE ReuseIp(q)
    BY <1>1, <2>4 DEF ReuseIp
  <2> QED
    BY <1>4, <2>1, <2>2, <2>3, <2>4 DEF Others
<1>5. CASE Tick \/ Crash \/ Restart \/ \E q \in Pods : Publish(q) \/ Sync(q)
  BY <1>1, <1>5 DEF Tick, Crash, Restart, Publish, Sync
<1> QED
  BY <1>1, <1>2, <1>3, <1>4, <1>5 DEF Next, vars

\* A verdict is never taken back.
LEMMA VerdictStays ==
    ASSUME TypeOK, [Next]_vars, NEW p \in Pods, NEW u \in Uids,
           verdict[p][u] # "none"
    PROVE  verdict'[p][u] = verdict[p][u]
<1>1. CASE UNCHANGED verdict
  BY <1>1
<1>2. ASSUME NEW q \in Pods, PollDrainez(q)
      PROVE  verdict'[p][u] = verdict[p][u]
  <2>1. ASSUME NEW why \in {"verified", "forced"},
               verdict' = [verdict EXCEPT ![q][rec[q].obj.uid] =
                              IF @ = "none" THEN why ELSE @]
        PROVE  verdict'[p][u] = verdict[p][u]
    BY <2>1 DEF TypeOK
  <2> QED
    BY <1>1, <1>2, <2>1 DEF PollDrainez, Polled
<1> QED
  BY <1>1, <1>2
     DEF Next, vars, history, Worker, StartReconcile, AddFinalizer, PersistDraining,
         LateAddFinalizer, MarkReady, RemoveReadiness, PersistAllowed, GetPod,
         ReleaseFinalizer, CallFails, PatchFinalizers, PersistState, PatchGate,
         Kubelet, StartContainer, KubeletStatus, Sigterm, Exit, Kill, Confirm,
         Others, Create, Delete, OtherOwner, ReuseIp, Publish, Sync, Tick,
         Crash, Restart

\* An incarnation is recorded as held in the step that gives it the finalizer.
LEMMA HeldWhenAdded ==
    ASSUME TypeOK, [Next]_vars, NEW p \in Pods, NEW u \in held'[p], u \notin held[p]
    PROVE  HasOurFinalizer(p, u)'
<1>1. CASE UNCHANGED held
  BY <1>1
<1>2. ASSUME NEW q \in Pods, AddFinalizer(q) \/ LateAddFinalizer(q)
      PROVE  HasOurFinalizer(p, u)'
  <2>0. held \in [Pods -> SUBSET Uids]
    BY DEF TypeOK
  <2>1. q = p /\ u = api[p].uid
    BY <1>2, <2>0 DEF AddFinalizer, LateAddFinalizer, NowHeld
  <2>2. POD_FINALIZER \in ListWritten(p)
    BY <1>2, <2>1 DEF AddFinalizer, LateAddFinalizer, Calling, ListWritten
  <2>3. Write(p, [api[p] EXCEPT !.finalizers = ListWritten(p)])
    BY <1>2, <2>1 DEF AddFinalizer, LateAddFinalizer, PatchFinalizers
  <2>4. api \in [Pods -> PodObjects]
    BY DEF TypeOK
  <2> QED
    BY <2>1, <2>2, <2>3, <2>4 DEF PodObjects, Write, Settle, HasOurFinalizer
<1> QED
  BY <1>1, <1>2
     DEF Next, vars, history, Worker, StartReconcile, PersistDraining,
         MarkReady, RemoveReadiness, PollDrainez, Polled, PersistAllowed, GetPod,
         ReleaseFinalizer, CallFails, PersistState, PatchGate,
         Kubelet, StartContainer, KubeletStatus, Sigterm, Exit, Kill, Confirm,
         Others, Create, Delete, OtherOwner, ReuseIp, Publish, Sync, Tick,
         Crash, Restart

\* A step takes the finalizer off a held pod only after a verdict on it.
LEMMA GateStep ==
    ASSUME MaxUid = 1, TypeOK, ReleaseEarned, GatedUntilReleased, [Next]_vars
    PROVE  GatedUntilReleased'
<1> SUFFICES ASSUME NEW p \in Pods, NEW u \in held'[p], ~HasOurFinalizer(p, u)'
             PROVE  verdict'[p][u] # "none"
  BY DEF GatedUntilReleased
<1>1. u \in held[p]
  BY HeldWhenAdded
<1>2. u \in Uids /\ u = 1
  BY <1>1 DEF TypeOK, Uids
<1>3. verdict[p][u] # "none"
  <2>1. CASE ~HasOurFinalizer(p, u)
    BY <1>1, <2>1 DEF GatedUntilReleased
  <2>2. CASE HasOurFinalizer(p, u)
    <3>1. ReleaseFinalizer(p)
      BY <1>2, <2>2, OnlyReleaseLetsGo
    <3>2. rec[p].call = "releaseFinalizer" /\ rec[p].obj.uid = 1
      BY <3>1 DEF ReleaseFinalizer, Calling, TypeOK, Workers, PodObjects
    <3> QED
      BY <1>2, <3>2 DEF ReleaseEarned, Releasing
  <2> QED
    BY <2>1, <2>2
<1> QED
  BY <1>2, <1>3, VerdictStays

\* A pod that carries our finalizer keeps it until its deletion is allowed,
\* whatever fails, crashes, lags or changes around the controller.
THEOREM HeldUntilReleased ==
    ASSUME MaxUid = 1
    PROVE  Spec => []GatedUntilReleased
<1> DEFINE Inv == ReleaseEarned /\ GatedUntilReleased
<1>1. Init => Inv
  BY DEF Init, Idle, Releasing, ReleaseEarned, GatedUntilReleased
<1>2. TypeOK /\ Inv /\ [Next]_vars => Inv'
  BY ReleaseEarnedStep, GateStep
<1> QED
  BY <1>1, <1>2, TypeCorrect, PTL DEF Spec

=============================================================================
