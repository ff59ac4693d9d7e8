------------------------ MODULE PodControllerVerdicts ------------------------
(***************************************************************************)
(* What a verdict says of the pod it is about, however often its name is   *)
(* used, and, for names that are used once (MaxUid = 1), what the          *)
(* controller does with it.                                                *)
(*                                                                         *)
(* The argument goes from the outside in.  The cluster alone keeps         *)
(* ContainerSound: a container that still runs is within its grace period. *)
(* Snapshots of it stay true in what matters (SnapshotsSound): a deletion  *)
(* is never undone and its grace period never grows.  A verdict is passed  *)
(* on such a snapshot, and what it says then stays true (VerdictSound).    *)
(***************************************************************************)
EXTENDS PodControllerProofs

\* Incarnation u of a pod is the one that is there.
Is(p, u) == Exists(p) /\ api[p].uid = u

\* A container that runs is within its grace period, and no other pod has its
\* IP; one whose end was confirmed is gone; time counts from the deletion.
ContainerSound(p) ==
    /\ \A u \in Uids : u > uids[p] => elapsed[p][u] = 0
    /\ ~Exists(p) => proc[p] = "off" /\ ~api[p].terminating
    /\ Exists(p) => api[p].uid = uids[p]
    /\ Exists(p) /\ ~api[p].terminating
          => elapsed[p][api[p].uid] = 0 /\ proc[p] \in {"off", "serving"}
    /\ Exists(p) /\ api[p].terminating /\ proc[p] # "off"
          => /\ api[p].delGrace \in DeleteGraces
             /\ elapsed[p][api[p].uid] <= api[p].delGrace + KillSlack
    /\ reused[p] => /\ uids[p] > 0
                    /\ proc[p] = "off"
                    /\ Exists(p) => api[p].terminating

\* A deletion is never undone and its grace period only becomes shorter: what
\* a snapshot shows of it is true of its incarnation, if that is still there.
Sound(p, o) ==
    /\ o.uid <= uids[p]
    /\ o.terminating =>
          /\ o.uid # 0
          /\ Is(p, o.uid) => api[p].terminating /\ api[p].delGrace <= o.delGrace

\* The copies of a pod between the API server and the workers.
Copies(p) == {cache[p]} \cup {watch[p][i] : i \in 1 .. Len(watch[p])}

CopiesSound(p) == \A o \in Copies(p) : Sound(p, o)

\* Snapshots are sound, and only a pod seen terminating is polled.
SnapshotsSound(p) ==
    /\ CopiesSound(p)
    /\ Sound(p, rec[p].obj)
    /\ rec[p].call \in Releasing \cup {"pollDrainez"} => rec[p].obj.terminating

\* What a verdict says of its incarnation and its container, for good.
VerdictSound(p) ==
    \A u \in Uids : verdict[p][u] # "none" =>
        /\ u <= uids[p]
        /\ Is(p, u) =>
              /\ api[p].terminating
              /\ verdict[p][u] = "forced" => proc[p] = "off"
              /\ verdict[p][u] = "verified" => proc[p] # "serving"

-----------------------------------------------------------------------------

\* The types, spelled out for one pod.
LEMMA TypesOfPod ==
    ASSUME TypeOK, NEW p \in Pods
    PROVE  /\ MaxUid \in Nat /\ api[p].uid \in 0 .. MaxUid /\ uids[p] \in 0 .. MaxUid
           /\ Exists(p) => api[p].uid \in Uids
           /\ api[p].delGrace \in 0 .. Grace /\ api[p].terminating \in BOOLEAN
           /\ elapsed[p] \in [Uids -> 0 .. Horizon]
           /\ \A u \in Uids : elapsed[p][u] \in Nat
           /\ proc[p] \in Alive \cup {"off"}
           /\ verdict[p] \in [Uids -> {"none", "verified", "forced"}]
           /\ rec[p] \in Workers /\ cache[p] \in PodObjects
<1>1. api[p] \in PodObjects /\ MaxUid \in Nat /\ Grace \in Nat
  BY BoundAssumption, GraceAssumption DEF TypeOK
<1>2. api[p].uid \in 0 .. MaxUid /\ api[p].delGrace \in 0 .. Grace
        /\ api[p].terminating \in BOOLEAN
  BY <1>1 DEF PodObjects
<1>3. elapsed[p] \in [Uids -> 0 .. Horizon]
  BY DEF TypeOK
<1>4. \A u \in Uids : elapsed[p][u] \in Nat
  BY <1>1, <1>3 DEF Horizon
<1> QED
  BY <1>1, <1>2, <1>3, <1>4 DEF TypeOK, Exists, Uids

\* The same for a name that is used once.
LEMMA UsedOnce ==
    ASSUME MaxUid = 1, TypeOK, NEW p \in Pods
    PROVE  /\ Uids = {1} /\ api[p].uid \in {0, 1} /\ uids[p] \in {0, 1}
           /\ Exists(p) => Is(p, 1)
           /\ verdict[p][1] \in {"none", "verified", "forced"}
<1>1. Uids = {1}
  BY DEF Uids
<1>2. api[p].uid \in 0 .. 1 /\ uids[p] \in 0 .. 1
        /\ verdict[p] \in [Uids -> {"none", "verified", "forced"}]
  BY TypesOfPod
<1> QED
  BY <1>1, <1>2 DEF Is, Exists

-----------------------------------------------------------------------------
(***************************************************************************)
(* The cluster.                                                            *)
(***************************************************************************)

\* The pod is as it was, as far as its deletion goes, or it has gone because
\* its last finalizer did.
Same(p) ==
    \/ /\ api'[p].uid = api[p].uid
       /\ api'[p].terminating = api[p].terminating
       /\ api'[p].delGrace = api[p].delGrace
    \/ api[p].terminating /\ api[p].delGrace = 0 /\ api'[p] = NoPod

Quiet(p) ==
    /\ Same(p)
    /\ uids'[p] = uids[p] /\ proc'[p] = proc[p]
    /\ reused'[p] = reused[p] /\ elapsed'[p] = elapsed[p]

\* A write that leaves the deletion alone is the same pod, or its end.
LEMMA WriteIsSame ==
    ASSUME api \in [Pods -> PodObjects], NEW p \in Pods, NEW o, Write(p, o),
           o.uid = api[p].uid, o.terminating = api[p].terminating,
           o.delGrace = api[p].delGrace
    PROVE  \A q \in Pods : Same(q)
BY DEF Write, Settle, Same

\* No step of the controller touches the containers or a deletion.
LEMMA WorkerIsQuiet ==
    ASSUME TypeOK, NEW p \in Pods, Worker(p)
    PROVE  \A q \in Pods : Quiet(q)
<1>0. api \in [Pods -> PodObjects] /\ api[p] \in PodObjects
  BY DEF TypeOK
<1>1. UNCHANGED cluster
  BY DEF Worker, StartReconcile, AddFinalizer, PersistDraining, LateAddFinalizer,
         MarkReady, RemoveReadiness, PollDrainez, Polled, PersistAllowed, GetPod,
         ReleaseFinalizer, CallFails, PatchFinalizers, PersistState, PatchGate
<1>2. \A q \in Pods : Same(q)
  <2>1. CASE UNCHANGED api
    BY <2>1 DEF Same
  <2>2. CASE Write(p, [api[p] EXCEPT !.finalizers = ListWritten(p)])
    BY <1>0, <2>2, WriteIsSame DEF PodObjects
  <2>3. CASE Write(p, [api[p] EXCEPT !.annotation = ToAnnotation(rec[p].fsm)])
    BY <1>0, <2>3, WriteIsSame DEF PodObjects
  <2>4. ASSUME NEW status \in BOOLEAN,
               Write(p, [api[p] EXCEPT !.gate = status, !.ready = rec[p].obj.ready])
        PROVE  \A q \in Pods : Same(q)
    BY <1>0, <2>4, WriteIsSame DEF PodObjects
  <2> QED
    BY <2>1, <2>2, <2>3, <2>4
       DEF Worker, StartReconcile, AddFinalizer, PersistDraining, LateAddFinalizer,
           MarkReady, RemoveReadiness, PollDrainez, Polled, PersistAllowed, GetPod,
           ReleaseFinalizer, CallFails, PatchFinalizers, PersistState, PatchGate
<1> QED
  BY <1>1, <1>2 DEF Quiet, cluster

\* The steps that change what ContainerSound is about.
Loud(p) ==
    \/ StartContainer(p) \/ Sigterm(p) \/ Exit(p) \/ Confirm(p)
    \/ Create(p) \/ (\E grace \in DeleteGraces : Delete(p, grace)) \/ ReuseIp(p)
    \/ Tick

\* Only these steps are not quiet for a pod.
LEMMA QuietOrLoud ==
    ASSUME TypeOK, [Next]_vars, NEW p \in Pods
    PROVE  Quiet(p) \/ Loud(p)
<1>0. api \in [Pods -> PodObjects]
  BY DEF TypeOK
<1>1. CASE UNCHANGED <<api, cluster>>
  BY <1>1 DEF Quiet, Same, cluster
<1>2. ASSUME NEW q \in Pods, Kubelet(q)
      PROVE  Quiet(p) \/ Loud(p)
  <2>1. CASE KubeletStatus(q)
    <3> DEFINE alive == proc[q] \in Alive
               o == [api[q] EXCEPT !.phase = IF alive THEN "Running" ELSE @,
                                   !.ip = alive \/ @,
                                   !.ready = alive /\ (q \in Gated => api[q].gate)]
    <3>1. Write(q, o) /\ UNCHANGED cluster
      BY <2>1 DEF KubeletStatus
    <3>2. api[q] \in PodObjects
      BY <1>0
    <3>3. o.uid = api[q].uid /\ o.terminating = api[q].terminating
            /\ o.delGrace = api[q].delGrace
      BY <3>2 DEF PodObjects
    <3>4. Same(p)
      BY <1>0, <3>1, <3>3, WriteIsSame
    <3> QED
      BY <3>1, <3>4 DEF Quiet, cluster
  <2>2. CASE Confirm(q)
    BY <1>0, <2>2 DEF Quiet, Same, Loud, Confirm, Write, cluster
  <2>3. CASE StartContainer(q) \/ Sigterm(q) \/ Exit(q) \/ Kill(q)
    <3>1. CASE q = p
      BY <2>3, <3>1 DEF Loud, Kill
    <3>2. CASE q # p
      BY <2>3, <3>2 DEF TypeOK, Quiet, Same, StartContainer, Sigterm, Exit, Kill
    <3> QED
      BY <3>1, <3>2
  <2> QED
    BY <1>2, <2>1, <2>2, <2>3 DEF Kubelet
<1>3. ASSUME NEW q \in Pods, Others(q)
      PROVE  Quiet(p) \/ Loud(p)
  <2>1. ASSUME NEW f \in OtherFinalizers, OtherOwner(q, f)
        PROVE  Quiet(p)
    <3>1. \A r \in Pods : Same(r)
      <4>1. api[q] \in PodObjects
        BY <1>0
      <4>2. CASE Write(q, [api[q] EXCEPT !.finalizers = @ \cup {f}])
        BY <1>0, <4>1, <4>2, WriteIsSame DEF PodObjects
      <4>3. CASE Write(q, [api[q] EXCEPT !.finalizers = @ \ {f}])
        BY <1>0, <4>1, <4>3, WriteIsSame DEF PodObjects
      <4> QED
        BY <2>1, <4>2, <4>3 DEF OtherOwner
    <3> QED
      BY <2>1, <3>1 DEF OtherOwner, Quiet, cluster
  <2>2. CASE Create(q)
    BY <2>2 DEF TypeOK, Quiet, Same, Loud, Create
  <2>3. ASSUME NEW grace \in DeleteGraces, Delete(q, grace)
        PROVE  Quiet(p) \/ Loud(p)
    BY <1>0, <2>3 DEF Quiet, Same, Loud, Delete, Write, cluster
  <2>4. CASE ReuseIp(q)
    BY <2>4 DEF TypeOK, Quiet, Same, Loud, ReuseIp
  <2> QED
    BY <1>3, <2>1, <2>2, <2>3, <2>4 DEF Others
<1> QED
  BY <1>1, <1>2, <1>3, WorkerIsQuiet
     DEF Next, vars, Loud, Publish, Sync, Crash, Restart

\* The cluster keeps the container within its grace period.
LEMMA ContainerStep ==
    ASSUME TypeOK, TypeOK', [Next]_vars, NEW p \in Pods, ContainerSound(p)
    PROVE  ContainerSound(p)'
<1>0. /\ MaxUid \in Nat /\ uids[p] \in Nat
      /\ api[p].uid \in Nat /\ (Exists(p) => api[p].uid \in Uids)
      /\ api[p].delGrace \in 0 .. Grace
      /\ (\A u \in Uids : elapsed[p][u] \in Nat)
      /\ proc[p] \in Alive \cup {"off"}
  BY TypesOfPod
<1>1. api[p] \in PodObjects /\ api \in [Pods -> PodObjects]
  BY DEF TypeOK
<1>2. CASE Quiet(p)
  <2>1. 0 \notin DeleteGraces
    BY GraceAssumption
  <2> QED
    BY <1>0, <1>2, <2>1 DEF ContainerSound, Quiet, Same, Exists, NoPod, NewPod
<1>3. CASE StartContainer(p) \/ Sigterm(p) \/ Exit(p)
  <2>1. UNCHANGED <<api, uids, reused, elapsed>>
    BY <1>3 DEF StartContainer, Sigterm, Exit
  <2>2. StartContainer(p) => Exists(p) /\ ~api[p].terminating /\ proc'[p] = "serving"
    BY DEF TypeOK, StartContainer
  <2>3. ~StartContainer(p) => proc[p] # "off"
    BY <1>3 DEF Sigterm, Exit, Alive
  <2>4. Sigterm(p) => Exists(p) /\ api[p].terminating
    BY DEF Sigterm, ContainerSound
  <2>5. Exit(p) => proc'[p] = "off"
    BY DEF TypeOK, Exit
  <2> QED
    BY <1>3, <2>1, <2>2, <2>3, <2>4, <2>5 DEF ContainerSound, Exists
<1>4. CASE Confirm(p)
  <2>1. proc[p] = "off" /\ proc' = proc /\ UNCHANGED <<uids, reused, elapsed>>
    BY <1>4 DEF Confirm, cluster
  <2>2. api[p].terminating /\ Exists(p)
    BY <1>4 DEF Confirm
  <2>3. api'[p] = NoPod \/ (api'[p].uid = api[p].uid /\ api'[p].terminating)
    BY <1>1, <1>4 DEF Confirm, Write, Settle, PodObjects
  <2> QED
    BY <2>1, <2>2, <2>3 DEF ContainerSound, Exists, NoPod, NewPod
<1>5. CASE Create(p)
  <2>1. ~Exists(p) /\ uids[p] < MaxUid /\ uids'[p] = uids[p] + 1
          /\ api'[p] = NewPod(uids[p] + 1)
    BY <1>5 DEF TypeOK, Create
  <2>2. ~reused'[p] /\ UNCHANGED <<proc, elapsed>>
    BY <1>5 DEF TypeOK, Create
  <2>3. uids[p] + 1 \in Uids
    BY <1>0, <2>1 DEF Uids
  <2>4. \A u \in Uids : u \in Nat
    BY DEF Uids
  <2> QED
    BY <1>0, <2>1, <2>2, <2>3, <2>4 DEF ContainerSound, Exists, NewPod
<1>6. ASSUME NEW grace \in DeleteGraces, Delete(p, grace)
      PROVE  ContainerSound(p)'
  <2>1. Exists(p) /\ ~api[p].terminating /\ UNCHANGED <<uids, proc, reused, elapsed>>
    BY <1>6 DEF Delete, cluster
  <2>2. grace \in Nat /\ grace > 0 /\ KillSlack \in Nat
    BY GraceAssumption
  <2>3. api'[p].uid = api[p].uid /\ api'[p].terminating /\ api'[p].delGrace = grace
    BY <1>1, <1>6, <2>2 DEF Delete, Write, Settle, PodObjects
  <2> QED
    BY <2>1, <2>2, <2>3 DEF ContainerSound, Exists
<1>7. CASE ReuseIp(p)
  <2>1. uids[p] > 0 /\ UNCHANGED <<api, uids, proc, elapsed>>
    BY <1>7 DEF ReuseIp
  <2>2. Exists(p) => api[p].terminating /\ api[p].delGrace = 0
    BY <1>7 DEF ReuseIp
  <2>3. proc[p] = "off"
    BY <2>2, GraceAssumption DEF ContainerSound
  <2> QED
    BY <2>1, <2>2, <2>3 DEF ContainerSound, Exists
<1>8. CASE Tick
  <2>1. UNCHANGED <<api, uids, proc, reused>> /\ ~Overdue(p)
    BY <1>8 DEF Tick
  <2>2. \A u \in Uids : elapsed'[p][u] = elapsed[p][u] \/ elapsed'[p][u] = elapsed[p][u] + 1
    BY <1>8 DEF TypeOK, Tick
  <2>3. \A u \in Uids : u \notin Requested(p) => elapsed'[p][u] = elapsed[p][u]
    BY <1>8 DEF TypeOK, Tick
  <2>4. \A u \in Uids : u > uids[p] => u \notin Requested(p)
    BY <1>0 DEF Requested, Uids
  <2>5. Exists(p) /\ ~api[p].terminating => api[p].uid \notin Requested(p)
    BY DEF Requested
  <2>6. Exists(p) /\ api[p].terminating /\ proc[p] # "off"
            => elapsed[p][api[p].uid] < api[p].delGrace + KillSlack
    BY <1>0, <2>1, GraceAssumption DEF Overdue
  <2>7. Exists(p) /\ api[p].terminating /\ proc[p] # "off"
            => elapsed'[p][api[p].uid] <= api[p].delGrace + KillSlack
    BY <1>0, <2>2, <2>6, GraceAssumption
  <2> QED
    BY <1>0, <2>1, <2>3, <2>4, <2>5, <2>7 DEF ContainerSound, Exists
<1> QED
  BY <1>2, <1>3, <1>4, <1>5, <1>6, <1>7, <1>8, QuietOrLoud DEF Loud

\* What no step does to a pod of which a snapshot or a verdict is held.
LEMMA ClusterStep ==
    ASSUME TypeOK, [Next]_vars, NEW p \in Pods, ContainerSound(p)
    PROVE  /\ uids'[p] \in Nat /\ uids[p] <= uids'[p]
           /\ \A u \in 1 .. uids[p] : Is(p, u)' => Is(p, u)
           /\ Exists(p) /\ Exists(p)' /\ api[p].terminating
                 => api'[p].terminating /\ api'[p].delGrace <= api[p].delGrace
           /\ Exists(p) /\ api[p].terminating =>
                 /\ proc[p] = "off" => proc'[p] = "off"
                 /\ proc[p] # "serving" => proc'[p] # "serving"
           /\ ~Exists(p) => proc'[p] = "off"
<1>0. /\ api[p].uid \in Nat /\ api[p].delGrace \in Nat
      /\ uids[p] \in Nat /\ proc[p] \in Alive \cup {"off"}
  BY TypesOfPod, GraceAssumption
<1>1. api[p] \in PodObjects /\ api \in [Pods -> PodObjects] /\ Grace \in Nat
  BY GraceAssumption DEF TypeOK
<1>2. CASE Quiet(p)
  BY <1>0, <1>1, <1>2 DEF ContainerSound, Quiet, Same, Is, Exists, NoPod, NewPod
<1>3. CASE StartContainer(p) \/ Sigterm(p) \/ Exit(p)
  <2>1. UNCHANGED <<api, uids>>
    BY <1>3 DEF StartContainer, Sigterm, Exit
  <2>2. StartContainer(p) => Exists(p) /\ ~api[p].terminating
    BY DEF StartContainer
  <2>3. ~StartContainer(p) => proc[p] # "off" /\ proc'[p] # "serving"
    BY <1>3 DEF TypeOK, Sigterm, Exit, Alive
  <2> QED
    BY <1>0, <1>1, <2>1, <2>2, <2>3 DEF ContainerSound, Is, Exists
<1>4. CASE Confirm(p)
  <2>1. proc' = proc /\ uids' = uids /\ Exists(p)
    BY <1>4 DEF Confirm, cluster
  <2>2. \/ api'[p] = NoPod
        \/ api'[p].uid = api[p].uid /\ api'[p].terminating /\ api'[p].delGrace = 0
    BY <1>1, <1>4 DEF Confirm, Write, Settle, PodObjects
  <2> QED
    BY <1>0, <2>1, <2>2 DEF ContainerSound, Is, Exists, NoPod, NewPod
<1>5. CASE Create(p)
  <2>1. uids'[p] = uids[p] + 1 /\ ~Exists(p) /\ proc' = proc
          /\ api'[p].uid = uids[p] + 1
    BY <1>5 DEF TypeOK, Create, NewPod
  <2> QED
    BY <1>0, <2>1 DEF ContainerSound, Is
<1>6. ASSUME NEW grace \in DeleteGraces, Delete(p, grace)
      PROVE  /\ Exists(p) /\ ~api[p].terminating /\ UNCHANGED <<uids, proc>>
             /\ api'[p].uid = api[p].uid
  <2>1. grace # 0
    BY GraceAssumption
  <2> QED
    BY <1>1, <1>6, <2>1 DEF Delete, cluster, Write, Settle, PodObjects
<1>7. CASE ReuseIp(p) \/ Tick
  BY <1>0, <1>1, <1>7 DEF ReuseIp, Tick, ContainerSound, Is, Exists
<1> QED
  BY <1>0, <1>2, <1>3, <1>4, <1>5, <1>6, <1>7, QuietOrLoud DEF Loud, Is, Exists

-----------------------------------------------------------------------------
(***************************************************************************)
(* Snapshots.                                                              *)
(***************************************************************************)

\* Only a terminating pod is polled (PolicyEngine::evaluate).
LEMMA PolledWhenTerminating ==
    ASSUME NEW p, NEW o, Decide(p, o) \in Releasing \cup {"pollDrainez"}
    PROVE  o.terminating
BY DEF Decide, Evaluate, Releasing

\* The worker ends, or goes on with its snapshot and its state, and to a poll
\* only when the snapshot shows a deletion.
Follows(p, w) ==
    \/ w = Idle
    \/ /\ w.obj = rec[p].obj
       /\ w.fsm = rec[p].fsm
       /\ w.call \in Releasing \cup {"pollDrainez"}
             => \/ rec[p].call \in Releasing \cup {"pollDrainez"}
                \/ rec[p].obj.terminating

\* Going on with a reconcile keeps its snapshot and does not allow anything.
LEMMA ContinueFollows ==
    ASSUME NEW p \in Pods, rec[p] \in Workers
    PROVE  /\ Follows(p, Continue(rec[p], Decide(p, rec[p].obj)))
           /\ Follows(p, Continue(rec[p], "lateAddFinalizer"))
           /\ rec[p].call \in Releasing => Follows(p, Continue(rec[p], "getPod"))
           /\ Follows(p, OnError(p))
BY PolledWhenTerminating
   DEF Follows, Continue, OnError, Workers, Releasing

\* An answer, or its loss, keeps the snapshot and allows nothing new.
LEMMA AcknowledgeFollows ==
    ASSUME NEW p \in Pods, rec \in [Pods -> Workers], NEW w, Follows(p, w),
           Acknowledge(p, w)
    PROVE  Follows(p, rec'[p]) /\ \A q \in Pods \ {p} : rec'[q] = rec[q]
BY ContinueFollows DEF Acknowledge

\* Apart from the start and the poll, every action of a worker is a Follows.
LEMMA WorkerFollows ==
    ASSUME TypeOK, NEW p \in Pods, Worker(p), ~StartReconcile(p), ~PollDrainez(p)
    PROVE  Follows(p, rec'[p]) /\ \A q \in Pods \ {p} : rec'[q] = rec[q]
<1>0. rec \in [Pods -> Workers] /\ rec[p] \in Workers
  BY DEF TypeOK
<1>1. Follows(p, Idle)
  BY DEF Follows
<1>2. CASE AddFinalizer(p) \/ ReleaseFinalizer(p) \/ MarkReady(p) \/ RemoveReadiness(p)
  BY <1>0, <1>1, <1>2, AcknowledgeFollows
     DEF AddFinalizer, ReleaseFinalizer, PatchFinalizers, MarkReady,
         RemoveReadiness, PatchGate
<1>3. CASE LateAddFinalizer(p) \/ PersistDraining(p)
  BY <1>0, <1>3, AcknowledgeFollows, ContinueFollows
     DEF LateAddFinalizer, PatchFinalizers, PersistDraining, PersistState
<1>4. CASE PersistAllowed(p)
  BY <1>0, <1>4, AcknowledgeFollows, ContinueFollows
     DEF PersistAllowed, PersistState, Calling, Releasing
<1>5. CASE GetPod(p)
  BY <1>0, <1>5 DEF GetPod, Calling, Follows, Workers, Releasing
<1>6. CASE CallFails(p)
  BY <1>0, <1>6, ContinueFollows DEF CallFails
<1> QED
  BY <1>2, <1>3, <1>4, <1>5, <1>6 DEF Worker

\* How any step leaves a worker.
LEMMA WorkerCases ==
    ASSUME TypeOK, [Next]_vars, NEW p \in Pods
    PROVE  \/ rec'[p] = rec[p]
           \/ Follows(p, rec'[p])
           \/ StartReconcile(p)
           \/ PollDrainez(p)
<1>1. ASSUME NEW q \in Pods, Worker(q)
      PROVE  rec'[p] = rec[p] \/ Follows(p, rec'[p]) \/ StartReconcile(p) \/ PollDrainez(p)
  <2>1. CASE q = p
    BY <1>1, <2>1, WorkerFollows
  <2>2. CASE q # p /\ (StartReconcile(q) \/ PollDrainez(q))
    BY <2>2 DEF TypeOK, StartReconcile, PollDrainez, Polled
  <2>3. CASE q # p /\ ~StartReconcile(q) /\ ~PollDrainez(q)
    BY <1>1, <2>3, WorkerFollows
  <2> QED
    BY <2>1, <2>2, <2>3
<1>2. CASE Crash
  BY <1>2 DEF Crash, Follows
<1>3. CASE UNCHANGED rec
  BY <1>3
<1> QED
  BY <1>1, <1>2, <1>3
     DEF Next, vars, Kubelet, StartContainer, KubeletStatus, Sigterm, Exit,
         Kill, Confirm, Others, Create, Delete, OtherOwner, ReuseIp, Publish, Sync,
         Tick, Restart

\* A sound object is sound after the step.
LEMMA SoundStays ==
    ASSUME TypeOK, TypeOK', [Next]_vars, NEW p \in Pods,
           ContainerSound(p)
    PROVE  \A o \in PodObjects :
              Sound(p, o) =>
                 /\ o.uid <= uids'[p]
                 /\ o.terminating =>
                       /\ o.uid # 0
                       /\ Is(p, o.uid)' => api'[p].terminating
                                             /\ api'[p].delGrace <= o.delGrace
<1>1. api[p].delGrace \in Nat /\ api'[p].delGrace \in Nat /\ uids[p] \in Nat
  BY BoundAssumption, GraceAssumption DEF TypeOK, PodObjects
<1>2. \A o \in PodObjects : o.delGrace \in Nat /\ o.uid \in Nat
  BY BoundAssumption, GraceAssumption DEF PodObjects
<1>3. \A o \in PodObjects :
         Sound(p, o) /\ o.terminating => o.uid \in 1 .. uids[p]
  BY <1>1, <1>2 DEF Sound
<1> QED
  BY <1>1, <1>2, <1>3, ClusterStep DEF Sound, Is

\* The copies are those of before, of the server's object, or none at all.
LEMMA CopiesCases ==
    ASSUME TypeOK, [Next]_vars, NEW p \in Pods
    PROVE  Copies(p)' \subseteq Copies(p) \cup {api[p], NoPod}
<1>0. watch \in [Pods -> Seq(PodObjects)] /\ cache \in [Pods -> PodObjects]
  BY DEF TypeOK
<1>1. ASSUME NEW q \in Pods, Publish(q)
      PROVE  Copies(p)' \subseteq Copies(p) \cup {api[p]}
  <2>1. cache' = cache /\ watch'[p] \in {watch[p], Append(watch[p], api[p])}
    BY <1>0, <1>1 DEF Publish
  <2>2. CASE watch'[p] = Append(watch[p], api[p])
    <3>1. watch[p] \in Seq(PodObjects) /\ Len(watch[p]) \in Nat /\ api[p] \in PodObjects
      BY <1>0 DEF TypeOK
    <3>2. /\ Len(watch'[p]) = Len(watch[p]) + 1
          /\ watch'[p][Len(watch[p]) + 1] = api[p]
          /\ \A i \in 1 .. Len(watch[p]) : watch'[p][i] = watch[p][i]
      BY <2>2, <3>1
    <3>3. \A i \in 1 .. Len(watch'[p]) : i \in 1 .. Len(watch[p]) \/ i = Len(watch[p]) + 1
      BY <3>1, <3>2
    <3> QED
      BY <2>1, <3>2, <3>3 DEF Copies
  <2>3. CASE watch'[p] = watch[p]
    BY <2>1, <2>3 DEF Copies
  <2> QED
    BY <2>1, <2>2, <2>3
<1>6. ASSUME NEW q \in Pods, Sync(q)
      PROVE  Copies(p)' \subseteq Copies(p) \cup {api[p]}
  <2>1. CASE watch[p] # <<>> /\ cache'[p] = Head(watch[p]) /\ watch'[p] = Tail(watch[p])
    <3>1. watch[p] \in Seq(PodObjects)
      BY <1>0
    <3>2. /\ cache'[p] = watch[p][1] /\ Len(watch[p]) \in Nat \ {0}
          /\ Len(watch'[p]) = Len(watch[p]) - 1
          /\ \A i \in 1 .. Len(watch[p]) - 1 : watch'[p][i] = watch[p][i + 1]
      BY <2>1, <3>1
    <3> QED
      BY <3>2 DEF Copies
  <2>2. CASE watch'[p] = watch[p] /\ cache'[p] \in {cache[p], api[p]}
    BY <2>2 DEF Copies
  <2> QED
    BY <1>0, <1>6, <2>1, <2>2 DEF Sync
<1>2. CASE Crash
  <2>1. cache'[p] = NoPod /\ watch'[p] = <<>>
    BY <1>2 DEF Crash
  <2> QED
    BY <2>1 DEF Copies
<1>3. ASSUME NEW q \in Pods, Worker(q)
      PROVE  UNCHANGED <<cache, watch>>
  BY <1>3 DEF Worker, StartReconcile, AddFinalizer, PersistDraining,
         LateAddFinalizer, MarkReady, RemoveReadiness, PollDrainez, Polled,
         PersistAllowed, GetPod, ReleaseFinalizer, CallFails,
         PatchFinalizers, PersistState, PatchGate, controller
<1>4. ASSUME NEW q \in Pods, Kubelet(q) \/ Others(q)
      PROVE  UNCHANGED <<cache, watch>>
  BY <1>4 DEF Kubelet, StartContainer, KubeletStatus, Sigterm, Exit,
         Kill, Confirm, Others, Create, Delete, OtherOwner, ReuseIp, controller
<1> QED
  BY <1>1, <1>2, <1>3, <1>4, <1>6
     DEF Copies, Next, vars, controller, Tick, Restart

\* Snapshots stay sound while the cluster moves on.
LEMMA SnapshotsStep ==
    ASSUME TypeOK, TypeOK', [Next]_vars, NEW p \in Pods,
           ContainerSound(p), SnapshotsSound(p)
    PROVE  SnapshotsSound(p)'
<1>0. /\ cache[p] \in PodObjects /\ api[p] \in PodObjects /\ rec[p] \in Workers
      /\ rec[p].obj \in PodObjects /\ NoPod \in PodObjects
  BY NoPodType DEF TypeOK, Workers
<1>1. /\ Sound(p, NoPod) /\ Sound(p, api[p]) /\ Sound(p, rec[p].obj)
      /\ CopiesSound(p)
  <2>1. Sound(p, NoPod)
    BY TypesOfPod DEF Sound, NoPod, NewPod
  <2>2. Sound(p, api[p])
    <3>1. api[p].uid \in Nat /\ uids[p] \in Nat /\ api[p].delGrace \in Nat
      BY TypesOfPod, GraceAssumption
    <3> QED
      BY <3>1 DEF Sound, ContainerSound, Exists
  <2> QED
    BY <2>1, <2>2 DEF SnapshotsSound
<1>2. CopiesSound(p)'
  <2>1. Copies(p) \cup {api[p], NoPod} \subseteq PodObjects
    BY <1>0 DEF TypeOK, Copies
  <2>2. ASSUME NEW o \in Copies(p)'
        PROVE  Sound(p, o)'
    <3>1. o \in Copies(p) \cup {api[p], NoPod}
      BY <2>2, CopiesCases
    <3> QED
      BY <1>1, <2>1, <3>1, SoundStays DEF Sound, CopiesSound
  <2> QED
    BY <2>2 DEF CopiesSound
<1>3. /\ rec'[p].obj \in {rec[p].obj, cache[p], NoPod}
      /\ rec'[p].call \in Releasing \cup {"pollDrainez"} => rec'[p].obj.terminating
  <2>1. CASE rec'[p] = rec[p] \/ Follows(p, rec'[p])
    BY <2>1 DEF SnapshotsSound, Follows, Idle, Releasing
  <2>2. CASE StartReconcile(p)
    BY <2>2, PolledWhenTerminating DEF TypeOK, StartReconcile, Releasing
  <2>3. CASE PollDrainez(p)
    <3>1. rec[p].obj.terminating
      BY <2>3 DEF PollDrainez, Polled, Calling, SnapshotsSound
    <3>2. rec'[p] = Idle \/ rec'[p].obj = rec[p].obj
      <4>1. ASSUME NEW fsm, rec' = [rec EXCEPT ![p] =
                      [rec[p] EXCEPT !.call = "persistAllowed", !.fsm = fsm]]
            PROVE  rec'[p].obj = rec[p].obj
        BY <1>0, <4>1 DEF TypeOK, Workers
      <4> QED
        BY <2>3, <4>1 DEF TypeOK, PollDrainez, Polled
    <3> QED
      BY <3>1, <3>2 DEF Idle, Releasing
  <2> QED
    BY <2>1, <2>2, <2>3, WorkerCases
<1>4. Sound(p, rec[p].obj)'
  <2>1. Sound(p, cache[p])
    BY <1>1 DEF CopiesSound, Copies
  <2> QED
    BY <1>0, <1>1, <1>3, <2>1, SoundStays DEF Sound
<1> QED
  BY <1>2, <1>3, <1>4 DEF SnapshotsSound

-----------------------------------------------------------------------------
(***************************************************************************)
(* Verdicts.                                                               *)
(***************************************************************************)

\* A poll settles a verdict only on an incarnation that is being deleted and
\* whose container is as the verdict says.
LEMMA PollIsRight ==
    ASSUME TypeOK, NEW p \in Pods, PollDrainez(p),
           ContainerSound(p), SnapshotsSound(p),
           rec'[p].call \in Releasing
    PROVE  LET u == rec[p].obj.uid
               Passed(why) ==
                   verdict' = [verdict EXCEPT ![p][u] = IF @ = "none" THEN why ELSE @]
           IN  /\ u \in Uids /\ u <= uids[p]
               /\ Is(p, u) => api[p].terminating
               /\ \/ /\ Passed("verified")
                     /\ u = uids[p] => proc[p] # "serving"
                  \/ /\ Passed("forced")
                     /\ u = uids[p] => proc[p] = "off"
<1> DEFINE o == rec[p].obj
<1>0. /\ rec[p] \in Workers /\ o \in PodObjects /\ o.delGrace \in Nat
      /\ o.uid \in 0 .. MaxUid /\ MaxUid \in Nat
      /\ api[p].delGrace \in Nat /\ uids[p] \in Nat
      /\ (\A u \in Uids : elapsed[p][u] \in Nat)
      /\ Grace \in Nat /\ KillSlack \in Nat /\ KillSlack < Grace
  <2>1. rec[p] \in Workers /\ o \in PodObjects
    BY TypesOfPod DEF Workers
  <2> QED
    BY <2>1, TypesOfPod, GraceAssumption DEF PodObjects
<1>1. o.terminating /\ Sound(p, o)
  BY DEF PollDrainez, Polled, Calling, SnapshotsSound
<1>2. o.uid \in Uids /\ o.uid <= uids[p]
  BY <1>0, <1>1 DEF Sound, Uids
<1>3. Is(p, o.uid) => api[p].terminating /\ api[p].delGrace <= o.delGrace
  BY <1>1 DEF Sound
<1>4. "ReadyToDelete" \in PollOutcomes(p, o) /\ o.uid = uids[p] => proc[p] # "serving"
  BY DEF PollOutcomes, ContainerSound
<1>5. TerminatingFor(p, o) >= Grace /\ o.uid = uids[p] => proc[p] = "off"
  <2> SUFFICES ASSUME TerminatingFor(p, o) >= Grace, o.uid = uids[p], proc[p] # "off"
               PROVE  FALSE
    OBVIOUS
  <2>1. elapsed[p][o.uid] - o.delGrace >= Grace
    BY <1>0, <1>2 DEF TerminatingFor
  <2>2. Is(p, o.uid)
    BY DEF ContainerSound, Is
  <2>3. elapsed[p][o.uid] <= api[p].delGrace + KillSlack
    BY <1>3, <2>2 DEF ContainerSound, Is
  <2> QED
    BY <1>0, <1>2, <1>3, <2>1, <2>2, <2>3
<1>6. rec'[p] # Idle
  BY DEF Idle, Releasing
<1>7. rec'[p] = Idle \/ ~(rec' = [rec EXCEPT ![p] = Idle])
  BY DEF TypeOK
<1> QED
  BY <1>2, <1>3, <1>4, <1>5, <1>6, <1>7 DEF PollDrainez, Polled

\* Only a poll passes a verdict, and only one that goes on to the release.
LEMMA VerdictCases ==
    ASSUME TypeOK, [Next]_vars, NEW p \in Pods
    PROVE  \/ verdict'[p] = verdict[p]
           \/ PollDrainez(p) /\ rec'[p].call \in Releasing
<1>1. CASE UNCHANGED verdict
  BY <1>1
<1>2. ASSUME NEW q \in Pods, PollDrainez(q)
      PROVE  verdict'[p] = verdict[p] \/ (PollDrainez(p) /\ rec'[p].call \in Releasing)
  <2>1. CASE UNCHANGED verdict
    BY <2>1
  <2>2. ASSUME NEW why \in {"verified", "forced"},
               rec' = [rec EXCEPT ![q] =
                  [rec[q] EXCEPT !.call = "persistAllowed",
                      !.fsm = Transition(rec[q].fsm, "DrainVerified")]],
               verdict' = [verdict EXCEPT ![q][rec[q].obj.uid] =
                              IF @ = "none" THEN why ELSE @]
        PROVE  verdict'[p] = verdict[p] \/ (q = p /\ rec'[p].call \in Releasing)
    BY <2>2 DEF TypeOK, Workers, Releasing
  <2>3. verdict'[p] = verdict[p] \/ (q = p /\ rec'[p].call \in Releasing)
    BY <1>2, <2>1, <2>2 DEF PollDrainez, Polled
  <2> QED
    BY <1>2, <2>3
<1> QED
  BY <1>1, <1>2
     DEF Next, vars, history, Worker, StartReconcile, AddFinalizer, PersistDraining,
         LateAddFinalizer, MarkReady, RemoveReadiness, PersistAllowed, GetPod,
         ReleaseFinalizer, CallFails, PatchFinalizers, PersistState, PatchGate,
         Kubelet, StartContainer, KubeletStatus, Sigterm, Exit, Kill, Confirm,
         Others, Create, Delete, OtherOwner, ReuseIp, Publish, Sync, Tick,
         Crash, Restart

\* A verdict is right when it is passed and stays right.
LEMMA VerdictStep ==
    ASSUME TypeOK, TypeOK', [Next]_vars, NEW p \in Pods,
           ContainerSound(p), SnapshotsSound(p), VerdictSound(p)
    PROVE  VerdictSound(p)'
<1>0. verdict[p] \in [Uids -> {"none", "verified", "forced"}] /\ uids[p] \in Nat
  BY TypesOfPod
<1>1. CASE verdict'[p] = verdict[p]
  <2> SUFFICES ASSUME NEW u \in Uids, verdict[p][u] # "none"
               PROVE  /\ u <= uids'[p]
                      /\ Is(p, u)' =>
                            /\ api'[p].terminating
                            /\ verdict[p][u] = "forced" => proc'[p] = "off"
                            /\ verdict[p][u] = "verified" => proc'[p] # "serving"
    BY <1>1 DEF VerdictSound, Is, Exists
  <2>1. u \in 1 .. uids[p]
    BY <1>0 DEF VerdictSound, Uids
  <2>2. u <= uids'[p]
    BY <1>0, <2>1, ClusterStep
  <2>3. Is(p, u)' => Is(p, u) /\ Exists(p)'
    BY <2>1, ClusterStep DEF Is
  <2> QED
    BY <2>2, <2>3, ClusterStep DEF VerdictSound, Is
<1>2. CASE PollDrainez(p) /\ rec'[p].call \in Releasing
  <2> DEFINE u == rec[p].obj.uid
  <2>1. UNCHANGED <<api, uids, proc>>
    BY <1>2 DEF PollDrainez, Polled, cluster
  <2>2. u \in Uids /\ u <= uids[p] /\ (Is(p, u) => api[p].terminating)
    BY <1>2, PollIsRight
  <2>3. /\ \A v \in Uids \ {u} : verdict'[p][v] = verdict[p][v]
        /\ \/ verdict'[p][u] = verdict[p][u] /\ verdict[p][u] # "none"
           \/ verdict'[p][u] = "verified" /\ (u = uids[p] => proc[p] # "serving")
           \/ verdict'[p][u] = "forced" /\ (u = uids[p] => proc[p] = "off")
    <3>1. \/ /\ verdict' = [verdict EXCEPT ![p][u] = IF @ = "none" THEN "verified" ELSE @]
             /\ u = uids[p] => proc[p] # "serving"
          \/ /\ verdict' = [verdict EXCEPT ![p][u] = IF @ = "none" THEN "forced" ELSE @]
             /\ u = uids[p] => proc[p] = "off"
      BY <1>2, PollIsRight
    <3>2. verdict \in [Pods -> [Uids -> {"none", "verified", "forced"}]]
      BY DEF TypeOK
    <3> HIDE DEF u
    <3> QED
      BY <1>0, <2>2, <3>1, <3>2
  <2>4. Is(p, u) => u = uids[p]
    BY DEF Is, ContainerSound
  <2> QED
    BY <2>1, <2>2, <2>3, <2>4 DEF VerdictSound, Is, Exists
<1> QED
  BY <1>1, <1>2, VerdictCases

-----------------------------------------------------------------------------

VerdictInv ==
    \A p \in Pods : ContainerSound(p) /\ SnapshotsSound(p) /\ VerdictSound(p)

\* No pods and no verdicts, at the start.
LEMMA VerdictsInit == Init => VerdictInv
<1> SUFFICES ASSUME Init, NEW p \in Pods
             PROVE  ContainerSound(p) /\ SnapshotsSound(p) /\ VerdictSound(p)
  BY DEF VerdictInv
<1>1. Copies(p) = {NoPod}
  BY DEF Init, Copies
<1>2. Sound(p, NoPod) /\ rec[p].obj = NoPod /\ rec[p].call = "none"
  <2>1. NoPod.uid = 0 /\ ~NoPod.terminating /\ uids[p] = 0
    BY DEF Init, NoPod, NewPod
  <2>2. rec[p] = Idle
    BY DEF Init
  <2> QED
    BY <2>1, <2>2 DEF Sound, Idle
<1>3. ContainerSound(p) /\ VerdictSound(p)
  BY DEF Init, ContainerSound, VerdictSound, Is, Exists, NoPod, NewPod
<1> QED
  BY <1>1, <1>2, <1>3 DEF SnapshotsSound, CopiesSound, Releasing

\* The three invariants together are inductive.
LEMMA VerdictsStep ==
    ASSUME TypeOK, TypeOK', VerdictInv, [Next]_vars
    PROVE  VerdictInv'
BY ContainerStep, SnapshotsStep, VerdictStep DEF VerdictInv

\* So they hold throughout.
LEMMA VerdictInvariant == Spec => []VerdictInv
<1>1. TypeOK /\ TypeOK' /\ VerdictInv /\ [Next]_vars => VerdictInv'
  BY VerdictsStep
<1> QED
  BY <1>1, VerdictsInit, TypeCorrect, PTL DEF Spec

\* Silence never releases a pod whose container still runs, whatever has become
\* of earlier pods of its name.
THEOREM ForcedReleaseIsSafe == Spec => []ForcedOnlyAfterKill
<1>1. TypeOK /\ VerdictInv => ForcedOnlyAfterKill
  BY TypesOfPod DEF VerdictInv, VerdictSound, ForcedOnlyAfterKill, Is
<1> QED
  BY <1>1, TypeCorrect, VerdictInvariant, PTL

\* A ready answer, from whoever has the IP, never releases a pod whose process
\* was not told to stop, whatever has become of earlier pods of its name.
THEOREM VerifiedReleaseIsSafe == Spec => []VerifiedOnlyAfterSigterm
<1>1. TypeOK /\ VerdictInv => VerifiedOnlyAfterSigterm
  BY TypesOfPod DEF VerdictInv, VerdictSound, VerifiedOnlyAfterSigterm, Is
<1> QED
  BY <1>1, TypeCorrect, VerdictInvariant, PTL

-----------------------------------------------------------------------------
(***************************************************************************)
(* Names that are used once.                                               *)
(***************************************************************************)

\* No step takes the finalizer off a pod that nobody asked to delete.
THEOREM ActivePodIsKept ==
    ASSUME MaxUid = 1
    PROVE  Spec => NeverReleasesActivePod
<1>1. TypeOK /\ VerdictInv /\ [Next]_vars =>
        \A p \in Pods :
           ( /\ Exists(p) /\ POD_FINALIZER \in api[p].finalizers
             /\ POD_FINALIZER \notin api'[p].finalizers )
           => api[p].terminating
  <2> SUFFICES ASSUME TypeOK, VerdictInv, [Next]_vars, NEW p \in Pods,
                      Exists(p), POD_FINALIZER \in api[p].finalizers,
                      POD_FINALIZER \notin api'[p].finalizers
               PROVE  api[p].terminating
    OBVIOUS
  <2>1. 1 \in Uids /\ Is(p, 1) /\ rec[p] \in Workers
    BY TypesOfPod, UsedOnce
  <2>2. ReleaseFinalizer(p)
    BY <2>1, OnlyReleaseLetsGo DEF HasOurFinalizer, Is
  <2>3. rec[p].obj.terminating /\ Sound(p, rec[p].obj)
    BY <2>2 DEF ReleaseFinalizer, Calling, VerdictInv, SnapshotsSound, Releasing
  <2>4. rec[p].obj.uid = 1
    BY <2>1, <2>3 DEF Sound, Workers, PodObjects
  <2> QED
    BY <2>1, <2>3, <2>4 DEF Sound
<1> QED
  BY <1>1, TypeCorrect, VerdictInvariant, PTL DEF Spec, NeverReleasesActivePod

-----------------------------------------------------------------------------
(***************************************************************************)
(* The annotation.                                                         *)
(***************************************************************************)

CopiesEarned(p) ==
    \A o \in Copies(p) : o.annotation = "deletion_allowed" => verdict[p][1] # "none"

\* Wherever DeletionAllowed is stored or about to be, there is a verdict.
AnnotationSound(p) ==
    /\ api[p].annotation = "deletion_allowed" => verdict[p][1] # "none"
    /\ CopiesEarned(p)
    /\ rec[p].fsm = "DeletionAllowed" => verdict[p][1] # "none"

\* What a step writes on a pod is the worker's state, or it leaves the
\* annotation alone.
LEMMA AnnotationCases ==
    ASSUME TypeOK, [Next]_vars, NEW p \in Pods
    PROVE  \/ api'[p].annotation = api[p].annotation
           \/ api'[p].annotation = "absent"
           \/ api'[p].annotation = ToAnnotation(rec[p].fsm)
<1>0. api \in [Pods -> PodObjects]
  BY DEF TypeOK
<1> DEFINE Fine == \A q \in Pods :
                      api'[q].annotation \in {api[q].annotation, "absent"}
<1>1. ASSUME NEW q \in Pods, NEW o, Write(q, o), o.annotation = api[q].annotation
      PROVE  Fine
  BY <1>0, <1>1 DEF Write, Settle, NoPod, NewPod
<1>2. CASE UNCHANGED api
  BY <1>2
<1>3. ASSUME NEW q \in Pods, Worker(q), ~PersistDraining(q), ~PersistAllowed(q)
      PROVE  Fine
  <2>0. api[q] \in PodObjects
    BY <1>0
  <2>1. CASE Write(q, [api[q] EXCEPT !.finalizers = ListWritten(q)])
    BY <1>1, <2>0, <2>1 DEF PodObjects
  <2>2. ASSUME NEW status \in BOOLEAN,
               Write(q, [api[q] EXCEPT !.gate = status, !.ready = rec[q].obj.ready])
        PROVE  Fine
    BY <1>1, <2>0, <2>2 DEF PodObjects
  <2> QED
    BY <1>2, <1>3, <2>1, <2>2
       DEF Worker, StartReconcile, AddFinalizer, LateAddFinalizer, MarkReady,
           RemoveReadiness, PollDrainez, Polled, GetPod, ReleaseFinalizer, CallFails,
           PatchFinalizers, PatchGate
<1>4. ASSUME NEW q \in Pods, PersistDraining(q) \/ PersistAllowed(q)
      PROVE  api'[p].annotation \in {api[p].annotation, "absent", ToAnnotation(rec[p].fsm)}
  <2>1. Write(q, [api[q] EXCEPT !.annotation = ToAnnotation(rec[q].fsm)])
    BY <1>4 DEF PersistDraining, PersistAllowed, PersistState
  <2> QED
    BY <1>0, <2>1 DEF Write, Settle, NoPod, NewPod, PodObjects
<1>5. ASSUME NEW q \in Pods, Kubelet(q)
      PROVE  Fine
  <2>0. api[q] \in PodObjects
    BY <1>0
  <2>1. CASE KubeletStatus(q)
    <3> DEFINE alive == proc[q] \in Alive
               o == [api[q] EXCEPT !.phase = IF alive THEN "Running" ELSE @,
                                   !.ip = alive \/ @,
                                   !.ready = alive /\ (q \in Gated => api[q].gate)]
    <3>1. Write(q, o) /\ o.annotation = api[q].annotation
      BY <2>0, <2>1 DEF KubeletStatus, PodObjects
    <3> QED
      BY <1>1, <3>1
  <2>2. CASE Confirm(q)
    BY <1>1, <2>0, <2>2 DEF Confirm, PodObjects
  <2> QED
    BY <1>2, <1>5, <2>1, <2>2
       DEF Kubelet, StartContainer, Sigterm, Exit, Kill
<1>6. ASSUME NEW q \in Pods, Others(q)
      PROVE  Fine
  <2>0. api[q] \in PodObjects
    BY <1>0
  <2>1. CASE Create(q)
    BY <1>0, <2>1 DEF Create, NewPod
  <2>2. ASSUME NEW grace \in DeleteGraces, Delete(q, grace)
        PROVE  Fine
    BY <1>1, <2>0, <2>2 DEF Delete, PodObjects
  <2>3. ASSUME NEW f \in OtherFinalizers, OtherOwner(q, f)
        PROVE  Fine
    <3>1. CASE Write(q, [api[q] EXCEPT !.finalizers = @ \cup {f}])
      BY <1>1, <2>0, <3>1 DEF PodObjects
    <3>2. CASE Write(q, [api[q] EXCEPT !.finalizers = @ \ {f}])
      BY <1>1, <2>0, <3>2 DEF PodObjects
    <3> QED
      BY <2>3, <3>1, <3>2 DEF OtherOwner
  <2>4. CASE ReuseIp(q)
    BY <1>2, <2>4 DEF ReuseIp
  <2> QED
    BY <1>6, <2>1, <2>2, <2>3, <2>4 DEF Others
<1>7. CASE Tick \/ Crash \/ Restart \/ \E q \in Pods : Publish(q) \/ Sync(q)
  BY <1>2, <1>7 DEF Tick, Crash, Restart, Publish, Sync
<1> QED
  BY <1>2, <1>3, <1>4, <1>5, <1>6, <1>7 DEF Next, vars

\* The annotation, its copies and the worker's state follow the verdict.
LEMMA AnnotationStep ==
    ASSUME MaxUid = 1, TypeOK, [Next]_vars, NEW p \in Pods,
           ContainerSound(p), SnapshotsSound(p), AnnotationSound(p)
    PROVE  AnnotationSound(p)'
<1>0. /\ rec[p] \in Workers /\ rec[p].fsm \in DecommissionStates
      /\ verdict[p][1] \in {"none", "verified", "forced"} /\ Uids = {1}
  BY TypesOfPod, UsedOnce DEF Workers
<1>1. verdict[p][1] # "none" => verdict'[p][1] # "none"
  BY <1>0, VerdictStays
<1>2. api'[p].annotation = "deletion_allowed" => verdict'[p][1] # "none"
  BY <1>0, <1>1, AnnotationCases, AllowedAnnotation DEF AnnotationSound
<1>3. CopiesEarned(p)'
  BY <1>1, CopiesCases DEF AnnotationSound, CopiesEarned, NoPod, NewPod
<1>4. rec'[p].fsm = "DeletionAllowed" => verdict'[p][1] # "none"
  <2>1. CASE rec'[p] = rec[p] \/ Follows(p, rec'[p])
    BY <1>1, <2>1 DEF AnnotationSound, Follows, Idle
  <2>2. CASE StartReconcile(p)
    <3> DEFINE o == cache[p]
               call == CASE NeedsFinalizer(o)   -> "addFinalizer"
                         [] FirstTermination(o) -> "persistDraining"
                         [] OTHER               -> Decide(p, o)
               fsm == IF call = "persistDraining"
                      THEN Transition(ReadState(o.annotation), "PodTerminating")
                      ELSE ReadState(o.annotation)
    <3>1. rec'[p].fsm = fsm
      BY <2>2 DEF TypeOK, StartReconcile
    <3>2. call = "persistDraining" => FirstTermination(o)
      BY DecideNotReleasing
    <3>3. fsm = "DeletionAllowed" => ReadState(o.annotation) = "DeletionAllowed"
      BY <3>2, PodTerminatingDrains DEF FirstTermination
    <3> HIDE DEF fsm
    <3>4. rec'[p].fsm = "DeletionAllowed" => ReadState(o.annotation) = "DeletionAllowed"
      BY <3>1, <3>3
    <3> QED
      BY <1>1, <3>4, AllowedAnnotation DEF AnnotationSound, CopiesEarned, Copies
  <2>3. CASE PollDrainez(p) /\ rec'[p].call \in Releasing
    <3> DEFINE u == rec[p].obj.uid
    <3>1. u = 1 /\ \E why \in {"verified", "forced"} :
             verdict' = [verdict EXCEPT ![p][u] = IF @ = "none" THEN why ELSE @]
      BY <1>0, <2>3, PollIsRight
    <3>2. verdict \in [Pods -> [Uids -> {"none", "verified", "forced"}]]
      BY DEF TypeOK
    <3> HIDE DEF u
    <3> QED
      BY <1>0, <3>1, <3>2
  <2>4. CASE PollDrainez(p) /\ rec'[p].call \notin Releasing
    <3>1. rec'[p] = Idle
      <4>1. ASSUME NEW fsm, rec' = [rec EXCEPT ![p] =
                      [rec[p] EXCEPT !.call = "persistAllowed", !.fsm = fsm]]
            PROVE  rec'[p].call \in Releasing
        BY <1>0, <4>1 DEF TypeOK, Workers, Releasing
      <4> QED
        BY <2>4, <4>1 DEF TypeOK, PollDrainez, Polled
    <3> QED
      BY <3>1 DEF Idle
  <2> QED
    BY <2>1, <2>2, <2>3, <2>4, WorkerCases
<1> QED
  BY <1>2, <1>3, <1>4 DEF AnnotationSound

\* deletion_allowed is written only on a pod whose deletion was allowed.
THEOREM AllowedAnnotationIsEarned ==
    ASSUME MaxUid = 1
    PROVE  Spec => []AllowedAnnotationEarned
<1> DEFINE Inv == \A p \in Pods : AnnotationSound(p)
<1>1. Init => Inv
  BY DEF Init, AnnotationSound, CopiesEarned, Copies, NoPod, NewPod, Idle
<1>2. TypeOK /\ VerdictInv /\ Inv /\ [Next]_vars => Inv'
  BY AnnotationStep DEF VerdictInv
<1>3. TypeOK /\ Inv => AllowedAnnotationEarned
  BY UsedOnce DEF Is, AllowedAnnotationEarned, AnnotationSound, Exists
<1> QED
  BY <1>1, <1>2, <1>3, TypeCorrect, VerdictInvariant, PTL DEF Spec

=============================================================================
