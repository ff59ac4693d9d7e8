--------------------------- MODULE PodControllerGate ---------------------------
(***************************************************************************)
(* PodController is a deletion gate, and its release takes nothing but its *)
(* own finalizer, proved for pods whose name is used once (MaxUid = 1).    *)
(*                                                                         *)
(* Both rest on how lists of finalizers change: a list grows only on a pod *)
(* that is not being deleted (ListGrows), so the list a reconcile read     *)
(* from a terminating pod still has all that the pod has (ListSound).  The *)
(* gate is shown pod by pod (PodStep) and then lifted to the functions of  *)
(* DeletionGate (PodStepLifted).                                           *)
(***************************************************************************)
EXTENDS PodControllerVerdicts

-----------------------------------------------------------------------------
(***************************************************************************)
(* Lists of finalizers.                                                    *)
(***************************************************************************)

\* A list grows only on an object that is there and not being deleted.
LEMMA ListGrows ==
    ASSUME TypeOK, [Next]_vars, NEW p \in Pods
    PROVE  \/ api'[p].finalizers \subseteq api[p].finalizers
           \/ Exists(p) /\ ~api[p].terminating
<1> DEFINE Fine == \A q \in Pods :
                      \/ api'[q].finalizers \subseteq api[q].finalizers
                      \/ Exists(q) /\ ~api[q].terminating
<1>0. api \in [Pods -> PodObjects]
  BY DEF TypeOK
<1>1. ASSUME NEW q \in Pods, NEW o, Write(q, o),
             \/ o.finalizers \subseteq api[q].finalizers
             \/ Exists(q) /\ ~api[q].terminating
      PROVE  Fine
  BY <1>0, <1>1 DEF Write, Settle, NoPod, NewPod
<1>2. CASE UNCHANGED api
  BY <1>2
<1>3. ASSUME NEW q \in Pods, Worker(q)
      PROVE  Fine
  <2>0. api[q] \in PodObjects
    BY <1>0
  <2>1. CASE PatchFinalizers(q, Idle) \/ LateAddFinalizer(q)
    <3>1. Exists(q) /\ Admits(api[q], ListWritten(q))
            /\ Write(q, [api[q] EXCEPT !.finalizers = ListWritten(q)])
      BY <2>1 DEF PatchFinalizers, LateAddFinalizer
    <3> QED
      BY <1>1, <2>0, <3>1 DEF Admits, PodObjects
  <2>2. CASE Write(q, [api[q] EXCEPT !.annotation = ToAnnotation(rec[q].fsm)])
    BY <1>1, <2>0, <2>2 DEF PodObjects
  <2>3. ASSUME NEW status \in BOOLEAN,
               Write(q, [api[q] EXCEPT !.gate = status, !.ready = rec[q].obj.ready])
        PROVE  Fine
    BY <1>1, <2>0, <2>3 DEF PodObjects
  <2> QED
    BY <1>2, <1>3, <2>1, <2>2, <2>3
       DEF Worker, StartReconcile, AddFinalizer, PersistDraining,
           MarkReady, RemoveReadiness, PollDrainez, Polled, PersistAllowed, GetPod,
           ReleaseFinalizer, CallFails, PersistState, PatchGate
<1>4. ASSUME NEW q \in Pods, Kubelet(q)
      PROVE  Fine
  <2>0. api[q] \in PodObjects
    BY <1>0
  <2>1. CASE KubeletStatus(q)
    <3> DEFINE alive == proc[q] \in Alive
               o == [api[q] EXCEPT !.phase = IF alive THEN "Running" ELSE @,
                                   !.ip = alive \/ @,
                                   !.ready = alive /\ (q \in Gated => api[q].gate)]
    <3>1. Write(q, o) /\ o.finalizers = api[q].finalizers
      BY <2>0, <2>1 DEF KubeletStatus, PodObjects
    <3> QED
      BY <1>1, <3>1
  <2>2. CASE Confirm(q)
    BY <1>1, <2>0, <2>2 DEF Confirm, PodObjects
  <2> QED
    BY <1>2, <1>4, <2>1, <2>2 DEF Kubelet, StartContainer, Sigterm, Exit, Kill
<1>5. ASSUME NEW q \in Pods, Others(q)
      PROVE  Fine
  <2>0. api[q] \in PodObjects
    BY <1>0
  <2>1. CASE Create(q)
    BY <1>0, <2>1 DEF Create, NewPod
  <2>2. ASSUME NEW grace \in DeleteGraces, Delete(q, grace)
        PROVE  Fine
    BY <1>1, <2>0, <2>2 DEF Delete, PodObjects
  <2>3. ASSUME NEW f \in OtherFinalizers, OtherOwner(q, f)
        PROVE  Fine
    <3>1. CASE Write(q, [api[q] EXCEPT !.finalizers = @ \cup {f}])
                 /\ ~api[q].terminating
      BY <1>1, <2>3, <3>1 DEF OtherOwner
    <3>2. CASE Write(q, [api[q] EXCEPT !.finalizers = @ \ {f}])
      BY <1>1, <2>0, <3>2 DEF PodObjects
    <3> QED
      BY <2>3, <3>1, <3>2 DEF OtherOwner
  <2>4. CASE ReuseIp(q)
    BY <1>2, <2>4 DEF ReuseIp
  <2> QED
    BY <1>5, <2>1, <2>2, <2>3, <2>4 DEF Others
<1>6. CASE Tick \/ Crash \/ Restart \/ \E q \in Pods : Publish(q) \/ Sync(q)
  BY <1>2, <1>6 DEF Tick, Crash, Restart, Publish, Sync
<1> QED
  BY <1>2, <1>3, <1>4, <1>5, <1>6 DEF Next, vars

\* An object that is not there has no finalizers.
AbsentEmpty(p) == ~Exists(p) => api[p].finalizers = {}

\* What goes leaves nothing behind.
LEMMA AbsentEmptyStep ==
    ASSUME TypeOK, [Next]_vars, NEW p \in Pods, AbsentEmpty(p)
    PROVE  AbsentEmpty(p)'
<1>1. CASE ~Exists(p)
  BY <1>1, ListGrows DEF AbsentEmpty
<1>2. CASE Exists(p) /\ ~Exists(p)'
  <2>0. api[p] \in PodObjects /\ api \in [Pods -> PodObjects]
    BY DEF TypeOK
  <2>1. CASE Quiet(p)
    BY <1>2, <2>1 DEF Quiet, Same, Exists, AbsentEmpty, NoPod, NewPod
  <2>2. CASE StartContainer(p) \/ Sigterm(p) \/ Exit(p) \/ ReuseIp(p) \/ Tick
    BY <1>2, <2>2 DEF StartContainer, Sigterm, Exit, ReuseIp, Tick, Exists
  <2>3. CASE Confirm(p) \/ \E grace \in DeleteGraces : Delete(p, grace)
    <3>1. ASSUME NEW o, Write(p, o), o.uid = api[p].uid
          PROVE  api'[p] = NoPod
      BY <1>2, <2>0, <3>1 DEF Write, Settle, Exists
    <3>2. api'[p] = NoPod
      BY <2>0, <2>3, <3>1 DEF Confirm, Delete, PodObjects
    <3> QED
      BY <3>2 DEF AbsentEmpty, NoPod, NewPod
  <2>4. CASE Create(p)
    BY <1>2, <2>4 DEF Create
  <2> QED
    BY <2>1, <2>2, <2>3, <2>4, QuietOrLoud DEF Loud
<1> QED
  BY <1>1, <1>2 DEF AbsentEmpty

-----------------------------------------------------------------------------
(***************************************************************************)
(* The release.                                                            *)
(***************************************************************************)

\* The list a reconcile is about to write has all that the pod has but ours.
ListSound(p) ==
    rec[p].call = "releaseFinalizer" /\ Exists(p) =>
        /\ POD_FINALIZER \notin rec[p].live
        /\ api[p].finalizers \ {POD_FINALIZER} \subseteq rec[p].live

\* A worker comes to the release by the GET only.
LEMMA ReleaseCases ==
    ASSUME TypeOK, [Next]_vars, NEW p \in Pods, rec'[p].call = "releaseFinalizer"
    PROVE  rec'[p] = rec[p] \/ GetPod(p)
<1>0. rec \in [Pods -> Workers] /\ rec[p] \in Workers
  BY DEF TypeOK
<1>1. ASSUME NEW q \in Pods, Worker(q), q # p
      PROVE  rec'[p] = rec[p]
  <2>1. CASE StartReconcile(q) \/ PollDrainez(q)
    BY <1>0, <1>1, <2>1 DEF StartReconcile, PollDrainez, Polled
  <2> QED
    BY <1>1, <2>1, WorkerFollows
<1>2. CASE Worker(p)
  <2>1. ASSUME NEW w, Acknowledge(p, w), w.call # "releaseFinalizer"
        PROVE  FALSE
    BY <1>0, <2>1, AcknowledgeNotReleasing DEF Releasing
  <2>2. CASE AddFinalizer(p) \/ ReleaseFinalizer(p) \/ MarkReady(p) \/ RemoveReadiness(p)
    BY <2>1, <2>2
       DEF AddFinalizer, ReleaseFinalizer, PatchFinalizers, MarkReady,
           RemoveReadiness, PatchGate, Idle
  <2>3. CASE LateAddFinalizer(p)
    BY <1>0, <2>1, <2>3, DecideNotReleasing
       DEF LateAddFinalizer, PatchFinalizers, Continue, Idle, Workers
  <2>4. CASE PersistDraining(p)
    BY <1>0, <2>1, <2>4, DecideNotReleasing
       DEF PersistDraining, PersistState, Continue, Idle, Workers
  <2>5. CASE PersistAllowed(p)
    BY <1>0, <2>1, <2>5 DEF PersistAllowed, PersistState, Continue, Workers
  <2>6. CASE StartReconcile(p)
    BY <1>0, <2>6, DecideNotReleasing DEF StartReconcile
  <2>7. CASE PollDrainez(p)
    <3>1. ASSUME NEW fsm, rec' = [rec EXCEPT ![p] =
                    [rec[p] EXCEPT !.call = "persistAllowed", !.fsm = fsm]]
          PROVE  FALSE
      BY <1>0, <3>1 DEF Workers
    <3>2. rec'[p] = Idle
      BY <1>0, <2>7, <3>1 DEF PollDrainez, Polled
    <3> QED
      BY <3>2 DEF Idle
  <2>8. CASE CallFails(p)
    BY <1>0, <2>8, OnErrorNotReleasing DEF CallFails, Releasing
  <2> QED
    BY <1>2, <2>2, <2>3, <2>4, <2>5, <2>6, <2>7, <2>8 DEF Worker
<1>3. CASE Crash
  BY <1>3 DEF Crash, Idle
<1>4. CASE UNCHANGED rec
  BY <1>4
<1> QED
  BY <1>1, <1>2, <1>3, <1>4
     DEF Next, vars, Kubelet, StartContainer, KubeletStatus, Sigterm, Exit,
         Kill, Confirm, Others, Create, Delete, OtherOwner, ReuseIp, Publish, Sync, Tick,
         Restart

\* A terminating pod takes no finalizer, so the list stays sound.
LEMMA ListSoundStep ==
    ASSUME MaxUid = 1, TypeOK, TypeOK', [Next]_vars, NEW p \in Pods,
           ContainerSound(p), SnapshotsSound(p), ListSound(p)
    PROVE  ListSound(p)'
<1> SUFFICES ASSUME rec'[p].call = "releaseFinalizer", Exists(p)'
             PROVE  /\ POD_FINALIZER \notin rec'[p].live
                    /\ api'[p].finalizers \ {POD_FINALIZER} \subseteq rec'[p].live
  BY DEF ListSound
<1>1. CASE GetPod(p)
  <2>1. rec'[p].live = api[p].finalizers \ {POD_FINALIZER} /\ api' = api
    BY <1>1 DEF TypeOK, Workers, GetPod
  <2> QED
    BY <2>1
<1>2. CASE rec'[p] = rec[p]
  <2>1. Sound(p, rec[p].obj) /\ rec[p].obj.terminating
    BY <1>2 DEF SnapshotsSound, Releasing
  <2>2. rec[p].obj.uid = 1 /\ uids[p] = 1
    <3>1. rec[p] \in Workers /\ uids[p] \in {0, 1}
      BY TypesOfPod, UsedOnce
    <3> QED
      BY <2>1, <3>1 DEF Sound, Workers, PodObjects
  <2>3. Exists(p)' => Is(p, 1)'
    BY UsedOnce DEF Is, Exists, TypeOK, PodObjects
  <2>4. Is(p, 1) /\ api[p].terminating
    BY <2>1, <2>2, <2>3, ClusterStep DEF Sound
  <2>5. api'[p].finalizers \subseteq api[p].finalizers
    BY <2>4, ListGrows
  <2> QED
    BY <1>2, <2>4, <2>5 DEF ListSound, Is
<1> QED
  BY <1>1, <1>2, ReleaseCases

\* The list that is written is the pod's own but for our finalizer.
LEMMA ReleaseWritesTheRest ==
    ASSUME MaxUid = 1, TypeOK, NEW p \in Pods, SnapshotsSound(p), ListSound(p),
           ReleaseFinalizer(p)
    PROVE  api'[p].finalizers = api[p].finalizers \ {POD_FINALIZER}
<1>1. /\ Exists(p) /\ rec[p].call = "releaseFinalizer"
      /\ Admits(api[p], rec[p].live)
      /\ Write(p, [api[p] EXCEPT !.finalizers = rec[p].live])
  BY DEF ReleaseFinalizer, PatchFinalizers, Calling, ListWritten
<1>2. api[p].terminating
  <2>1. Is(p, 1) /\ rec[p] \in Workers
    BY <1>1, TypesOfPod, UsedOnce
  <2>2. rec[p].obj.terminating /\ Sound(p, rec[p].obj)
    BY <1>1 DEF SnapshotsSound, Releasing
  <2>3. rec[p].obj.uid = 1
    BY <2>1, <2>2 DEF Sound, Workers, PodObjects
  <2> QED
    BY <2>1, <2>2, <2>3 DEF Sound
<1>3. rec[p].live = api[p].finalizers \ {POD_FINALIZER}
  BY <1>1, <1>2 DEF ListSound, Admits
<1> QED
  BY <1>1, <1>3 DEF TypeOK, PodObjects, Write, Settle, NoPod, NewPod

GateInv ==
    \A p \in Pods : AbsentEmpty(p) /\ ListSound(p)

\* Both facts about lists are inductive, given the verdicts' invariant.
LEMMA GateInvariant ==
    ASSUME MaxUid = 1
    PROVE  Spec => []GateInv
<1>1. Init => GateInv
  BY DEF Init, GateInv, AbsentEmpty, ListSound, NoPod, NewPod, Idle
<1>2. TypeOK /\ TypeOK' /\ VerdictInv /\ GateInv /\ [Next]_vars => GateInv'
  BY AbsentEmptyStep, ListSoundStep DEF VerdictInv, GateInv
<1> QED
  BY <1>1, <1>2, TypeCorrect, VerdictInvariant, PTL DEF Spec

\* A worker at the release ends it by the write, by its failure or by a crash.
LEMMA ReleaseEnds ==
    ASSUME TypeOK, [Next]_vars, NEW p \in Pods,
           rec[p].call = "releaseFinalizer", rec'[p] # rec[p]
    PROVE  ReleaseFinalizer(p) \/ UNCHANGED api
<1>1. ASSUME NEW q \in Pods, Worker(q), q # p
      PROVE  rec'[p] = rec[p]
  <2>1. CASE StartReconcile(q) \/ PollDrainez(q)
    BY <1>1, <2>1 DEF TypeOK, StartReconcile, PollDrainez, Polled
  <2> QED
    BY <1>1, <2>1, WorkerFollows
<1>2. CASE Worker(p)
  BY <1>2
     DEF Worker, StartReconcile, AddFinalizer, PersistDraining, LateAddFinalizer,
         MarkReady, RemoveReadiness, PollDrainez, Polled, PersistAllowed, GetPod,
         CallFails, Calling
<1>3. CASE Crash
  BY <1>3 DEF Crash
<1> QED
  BY <1>1, <1>2, <1>3
     DEF Next, vars, Kubelet, StartContainer, KubeletStatus, Sigterm, Exit,
         Kill, Confirm, Others, Create, Delete, OtherOwner, ReuseIp, Publish, Sync, Tick,
         Restart

\* The release takes off our finalizer and nothing of anybody else's, though
\* it writes the whole list without a precondition.
THEOREM ReleaseSparesOthers ==
    ASSUME MaxUid = 1
    PROVE  Spec => ReleaseKeepsOthers
<1>1. TypeOK /\ VerdictInv /\ GateInv /\ [Next]_vars =>
        \A p \in Pods :
           rec[p].call = "releaseFinalizer" /\ rec'[p] # rec[p]
              => \/ api'[p] = api[p]
                 \/ api'[p].finalizers = api[p].finalizers \ {POD_FINALIZER}
  BY ReleaseEnds, ReleaseWritesTheRest DEF VerdictInv, GateInv
<1> QED
  BY <1>1, TypeCorrect, VerdictInvariant, GateInvariant, PTL
     DEF Spec, ReleaseKeepsOthers

-----------------------------------------------------------------------------
(***************************************************************************)
(* The gate.                                                               *)
(***************************************************************************)

\* What the refinement mapping makes of one pod.
Stage(p) ==
    CASE Exists(p) /\ api[p].terminating  -> "deleting"
      [] Exists(p) /\ ~api[p].terminating -> "active"
      [] ~Exists(p) /\ uids[p] = 0        -> "absent"
      [] OTHER                            -> "gone"

Protected(p) == POD_FINALIZER \in api[p].finalizers

Allowed(p) == verdict[p][1]

\* One step of the gate, seen from the pod that takes it; the conjuncts name
\* what changes.
StaysExcept(p, what) ==
    /\ "stage" \in what \/ Stage(p)' = Stage(p)
    /\ "protected" \in what \/ Protected(p)' = Protected(p)
    /\ "allowed" \in what \/ Allowed(p)' = Allowed(p)
    /\ "container" \in what \/ proc'[p] = proc[p]

PodCreate(p) ==
    /\ Stage(p) = "absent" /\ Stage(p)' = "active"
    /\ StaysExcept(p, {"stage"})

PodProtect(p) ==
    /\ Stage(p) = "active" /\ Protected(p)'
    /\ StaysExcept(p, {"protected"})

PodDelete(p) ==
    /\ Stage(p) = "active" /\ Stage(p)' = "deleting"
    /\ StaysExcept(p, {"stage"})

PodAllow(p) ==
    /\ Stage(p) \in {"deleting", "gone"} /\ Allowed(p) = "none"
    /\ \/ Allowed(p)' = "verified" /\ proc[p] # "serving"
       \/ Allowed(p)' = "forced" /\ proc[p] = "off"
    /\ StaysExcept(p, {"allowed"})

PodGoes(p) == Stage(p) = "deleting" /\ proc[p] = "off" /\ Stage(p)' = "gone"

PodRelease(p) ==
    /\ Stage(p) = "deleting" /\ Protected(p) /\ Allowed(p) # "none"
    /\ ~Protected(p)'
    /\ PodGoes(p) \/ Stage(p)' = Stage(p)
    /\ StaysExcept(p, {"stage", "protected"})

PodVanish(p) ==
    /\ ~Protected(p)
    /\ PodGoes(p)
    /\ StaysExcept(p, {"stage"})

PodContainer(p) ==
    /\ \/ Stage(p) = "active" /\ proc[p] = "off" /\ proc'[p] = "serving"
       \/ Stage(p) = "deleting" /\ proc[p] = "serving" /\ proc'[p] = "draining"
       \/ proc[p] # "off" /\ proc'[p] = "off"
    /\ StaysExcept(p, {"container"})

PodStep(p) ==
    \/ StaysExcept(p, {})
    \/ PodCreate(p) \/ PodProtect(p) \/ PodDelete(p) \/ PodAllow(p)
    \/ PodRelease(p) \/ PodVanish(p) \/ PodContainer(p)

\* The facts about one pod that its steps need.
PodFacts(p) ==
    /\ ContainerSound(p) /\ SnapshotsSound(p) /\ VerdictSound(p)
    /\ AbsentEmpty(p)
    /\ rec[p].call \in Releasing => verdict[p][rec[p].obj.uid] # "none"

\* The finalizer goes only in a release, of a pod that is being deleted and
\* whose deletion was allowed.
LEMMA LosesProtection ==
    ASSUME MaxUid = 1, TypeOK, [Next]_vars, NEW p \in Pods, PodFacts(p),
           Protected(p), ~Protected(p)'
    PROVE  Exists(p) /\ api[p].terminating /\ verdict[p][1] # "none"
<1>1. Exists(p)
  BY DEF PodFacts, AbsentEmpty, Protected
<1>2. 1 \in Uids /\ Is(p, 1) /\ rec[p] \in Workers
  BY <1>1, TypesOfPod, UsedOnce
<1>3. ReleaseFinalizer(p)
  BY <1>2, OnlyReleaseLetsGo DEF HasOurFinalizer, Protected, Is
<1>4. rec[p].obj.terminating /\ Sound(p, rec[p].obj)
        /\ verdict[p][rec[p].obj.uid] # "none"
  BY <1>3 DEF ReleaseFinalizer, Calling, PodFacts, SnapshotsSound, Releasing
<1>5. rec[p].obj.uid = 1
  BY <1>2, <1>4 DEF Sound, Workers, PodObjects
<1> QED
  BY <1>1, <1>2, <1>4, <1>5 DEF Sound

\* The finalizer comes only to a pod that is there and not being deleted.
LEMMA GainsProtection ==
    ASSUME TypeOK, [Next]_vars, NEW p \in Pods, ~Protected(p), Protected(p)'
    PROVE  Exists(p) /\ ~api[p].terminating
BY ListGrows DEF Protected

\* A quiet step of the cluster is a protection, a release or the end of a pod.
LEMMA QuietPodStep ==
    ASSUME MaxUid = 1, TypeOK, [Next]_vars, NEW p \in Pods, PodFacts(p),
           Quiet(p), verdict'[p] = verdict[p]
    PROVE  PodStep(p)
<1>1. proc'[p] = proc[p] /\ Allowed(p)' = Allowed(p) /\ uids'[p] = uids[p]
  BY DEF Quiet, Allowed
<1>2. CASE Stage(p)' = Stage(p)
  <2>1. CASE Protected(p)' = Protected(p)
    BY <1>1, <1>2, <2>1 DEF PodStep, StaysExcept
  <2>2. CASE Protected(p) /\ ~Protected(p)'
    <3>1. Stage(p) = "deleting" /\ Allowed(p) # "none"
      BY <2>2, LosesProtection DEF Stage, Allowed
    <3>2. PodRelease(p)
      BY <1>1, <1>2, <2>2, <3>1 DEF PodRelease, StaysExcept
    <3> QED
      BY <3>2 DEF PodStep
  <2>3. CASE ~Protected(p) /\ Protected(p)'
    <3>1. Stage(p) = "active"
      BY <2>3, GainsProtection DEF Stage
    <3>2. PodProtect(p)
      BY <1>1, <1>2, <2>3, <3>1 DEF PodProtect, StaysExcept
    <3> QED
      BY <3>2 DEF PodStep
  <2> QED
    BY <2>1, <2>2, <2>3 DEF Protected
<1>3. CASE Stage(p)' # Stage(p)
  <2>1. api[p].terminating /\ api[p].delGrace = 0 /\ api'[p] = NoPod
    BY <1>1, <1>3 DEF Quiet, Same, Stage, Exists
  <2>2. Exists(p) /\ uids[p] # 0 /\ proc[p] = "off"
    BY <2>1, TypesOfPod, GraceAssumption DEF PodFacts, ContainerSound, Exists
  <2>3. Stage(p) = "deleting" /\ Stage(p)' = "gone" /\ ~Protected(p)'
    BY <1>1, <2>1, <2>2 DEF Stage, Exists, Protected, NoPod, NewPod
  <2>4. PodGoes(p)
    BY <2>2, <2>3 DEF PodGoes
  <2>5. CASE Protected(p)
    <3>1. Allowed(p) # "none"
      BY <2>3, <2>5, LosesProtection DEF Allowed
    <3>2. PodRelease(p)
      BY <1>1, <2>3, <2>4, <2>5, <3>1 DEF PodRelease, StaysExcept
    <3> QED
      BY <3>2 DEF PodStep
  <2>6. CASE ~Protected(p)
    <3>1. PodVanish(p)
      BY <1>1, <2>3, <2>4, <2>6 DEF PodVanish, StaysExcept, Protected
    <3> QED
      BY <3>1 DEF PodStep
  <2> QED
    BY <2>5, <2>6
<1> QED
  BY <1>2, <1>3

\* A step that changes the containers or a deletion is one of the gate's.
LEMMA LoudPodStep ==
    ASSUME MaxUid = 1, TypeOK, NEW p \in Pods, PodFacts(p),
           Loud(p), verdict'[p] = verdict[p]
    PROVE  PodStep(p)
<1>0. /\ api[p] \in PodObjects /\ api \in [Pods -> PodObjects]
      /\ uids[p] \in {0, 1} /\ proc[p] \in Alive \cup {"off"}
      /\ Allowed(p)' = Allowed(p)
  BY UsedOnce DEF TypeOK, Allowed
<1>1. CASE StartContainer(p) \/ Sigterm(p) \/ Exit(p)
  <2>1. UNCHANGED <<api, uids>>
    BY <1>1 DEF StartContainer, Sigterm, Exit
  <2>2. Stage(p)' = Stage(p) /\ Protected(p)' = Protected(p)
    BY <2>1 DEF Stage, Exists, Protected
  <2>3. CASE StartContainer(p)
    <3>1. Stage(p) = "active" /\ proc[p] = "off" /\ proc'[p] = "serving"
      BY <2>3 DEF TypeOK, StartContainer, Stage
    <3> QED
      BY <1>0, <2>2, <3>1 DEF PodStep, PodContainer, StaysExcept
  <2>4. CASE Sigterm(p)
    <3>1. Stage(p) = "deleting" /\ proc[p] = "serving"
            /\ proc'[p] \in {"draining", "off"}
      BY <2>4 DEF TypeOK, Sigterm, Stage
    <3> QED
      BY <1>0, <2>2, <3>1 DEF PodStep, PodContainer, StaysExcept
  <2>5. CASE Exit(p)
    <3>1. proc[p] # "off" /\ proc'[p] = "off"
      BY <2>5 DEF TypeOK, Exit, Alive
    <3> QED
      BY <1>0, <2>2, <3>1 DEF PodStep, PodContainer, StaysExcept
  <2> QED
    BY <1>1, <2>3, <2>4, <2>5
<1>2. CASE Confirm(p)
  <2>1. /\ Exists(p) /\ api[p].terminating /\ proc[p] = "off"
        /\ UNCHANGED <<uids, proc>>
        /\ Write(p, [api[p] EXCEPT !.delGrace = 0])
    BY <1>2 DEF Confirm, cluster
  <2>2. \/ api'[p] = NoPod /\ api[p].finalizers = {}
        \/ /\ api'[p].uid = api[p].uid /\ api'[p].terminating
           /\ api'[p].finalizers = api[p].finalizers
    BY <1>0, <2>1 DEF Write, Settle, PodObjects
  <2>3. CASE api'[p] = NoPod /\ api[p].finalizers = {}
    <3>1. uids[p] # 0 /\ Stage(p) = "deleting" /\ Stage(p)' = "gone"
      BY <2>1, <2>3 DEF PodFacts, ContainerSound, Stage, Exists, NoPod, NewPod
    <3>2. ~Protected(p) /\ ~Protected(p)'
      BY <2>3 DEF Protected, NoPod, NewPod
    <3> QED
      BY <1>0, <2>1, <3>1, <3>2 DEF PodStep, PodVanish, PodGoes, StaysExcept, Protected
  <2>4. CASE /\ api'[p].uid = api[p].uid /\ api'[p].terminating
             /\ api'[p].finalizers = api[p].finalizers
    <3>1. Stage(p)' = Stage(p) /\ Protected(p)' = Protected(p)
      BY <2>1, <2>4 DEF Stage, Exists, Protected
    <3> QED
      BY <1>0, <2>1, <3>1 DEF PodStep, StaysExcept
  <2> QED
    BY <2>2, <2>3, <2>4
<1>3. CASE Create(p)
  <2>1. uids[p] = 0 /\ ~Exists(p) /\ api'[p] = NewPod(1) /\ proc' = proc
    BY <1>0, <1>3 DEF TypeOK, Create
  <2>2. Stage(p) = "absent" /\ Stage(p)' = "active"
    BY <2>1 DEF Stage, Exists, NewPod
  <2>3. ~Protected(p) /\ ~Protected(p)'
    BY <2>1 DEF PodFacts, AbsentEmpty, Protected, NewPod
  <2> QED
    BY <1>0, <2>1, <2>2, <2>3 DEF PodStep, PodCreate, StaysExcept, Protected
<1>4. ASSUME NEW grace \in DeleteGraces, Delete(p, grace)
      PROVE  PodStep(p)
  <2>1. grace \in Nat /\ grace > 0
    BY GraceAssumption
  <2>2. Exists(p) /\ ~api[p].terminating /\ proc' = proc
    BY <1>4 DEF Delete, cluster
  <2>3. /\ api'[p].uid = api[p].uid /\ api'[p].terminating
        /\ api'[p].finalizers = api[p].finalizers
    BY <1>0, <1>4, <2>1 DEF Delete, Write, Settle, PodObjects
  <2>4. Stage(p) = "active" /\ Stage(p)' = "deleting"
    BY <2>2, <2>3 DEF Stage, Exists
  <2> QED
    BY <1>0, <2>2, <2>3, <2>4 DEF PodStep, PodDelete, StaysExcept, Protected
<1>5. CASE ReuseIp(p) \/ Tick
  <2>1. UNCHANGED <<api, uids, proc>>
    BY <1>5 DEF ReuseIp, Tick
  <2> QED
    BY <1>0, <2>1 DEF PodStep, StaysExcept, Stage, Exists, Protected
<1> QED
  BY <1>1, <1>2, <1>3, <1>4, <1>5 DEF Loud

\* Every step is, seen from any pod, a step of the gate or nothing.
LEMMA EveryPodStep ==
    ASSUME MaxUid = 1, TypeOK, [Next]_vars, NEW p \in Pods, PodFacts(p)
    PROVE  PodStep(p)
<1>1. CASE verdict'[p] = verdict[p]
  BY <1>1, QuietOrLoud, QuietPodStep, LoudPodStep
<1>2. CASE PollDrainez(p) /\ rec'[p].call \in Releasing
  <2>1. UNCHANGED <<api, uids, proc>>
    BY <1>2 DEF PollDrainez, Polled, cluster
  <2>2. Stage(p)' = Stage(p) /\ Protected(p)' = Protected(p) /\ proc'[p] = proc[p]
    BY <2>1 DEF Stage, Exists, Protected
  <2>3. /\ rec[p].obj.uid = 1 /\ uids[p] = 1
        /\ Is(p, 1) => api[p].terminating
        /\ \/ /\ verdict' = [verdict EXCEPT ![p][1] = IF @ = "none" THEN "verified" ELSE @]
              /\ proc[p] # "serving"
           \/ /\ verdict' = [verdict EXCEPT ![p][1] = IF @ = "none" THEN "forced" ELSE @]
              /\ proc[p] = "off"
    <3>1. rec[p].obj.uid = 1 /\ uids[p] = 1
      BY <1>2, PollIsRight, UsedOnce DEF PodFacts
    <3> QED
      BY <1>2, <3>1, PollIsRight DEF PodFacts
  <2>4. \/ Allowed(p)' = Allowed(p)
        \/ Allowed(p) = "none" /\ Allowed(p)' = "verified" /\ proc[p] # "serving"
        \/ Allowed(p) = "none" /\ Allowed(p)' = "forced" /\ proc[p] = "off"
    <3>1. verdict \in [Pods -> [{1} -> {"none", "verified", "forced"}]]
      BY DEF TypeOK, Uids
    <3> QED
      BY <2>3, <3>1 DEF Allowed
  <2>5. Stage(p) \in {"deleting", "gone"}
    BY <2>3, UsedOnce DEF Stage
  <2> QED
    BY <2>2, <2>4, <2>5 DEF PodStep, PodAllow, StaysExcept
<1> QED
  BY <1>1, <1>2, VerdictCases

\* What the gate sees of two pods never changes in the same step.
LEMMA OneAtATime ==
    ASSUME TypeOK, [Next]_vars
    PROVE  \/ UNCHANGED <<api, uids, proc, verdict>>
           \/ \E p \in Pods : \A q \in Pods \ {p} :
                 /\ api'[q] = api[q] /\ uids'[q] = uids[q]
                 /\ proc'[q] = proc[q] /\ verdict'[q] = verdict[q]
<1> DEFINE Alone(p) == \A q \in Pods \ {p} :
                          /\ api'[q] = api[q] /\ uids'[q] = uids[q]
                          /\ proc'[q] = proc[q] /\ verdict'[q] = verdict[q]
<1>0. /\ api \in [Pods -> PodObjects] /\ uids \in [Pods -> 0 .. MaxUid]
      /\ proc \in [Pods -> Alive \cup {"off"}]
      /\ verdict \in [Pods -> [Uids -> {"none", "verified", "forced"}]]
  BY DEF TypeOK
<1>1. CASE Tick \/ Crash \/ Restart \/ (\E p \in Pods : Publish(p) \/ Sync(p)) \/ UNCHANGED vars
  BY <1>1 DEF Tick, Crash, Restart, Publish, Sync, cluster, history, vars
<1>2. ASSUME NEW p \in Pods, Worker(p)
      PROVE  Alone(p)
  <2>1. UNCHANGED <<uids, proc>>
    BY <1>2 DEF Worker, StartReconcile, AddFinalizer, PersistDraining,
           LateAddFinalizer, MarkReady, RemoveReadiness, PollDrainez, Polled,
           PersistAllowed, GetPod, ReleaseFinalizer, CallFails, PatchFinalizers,
           PersistState, PatchGate, cluster
  <2>2. \A q \in Pods \ {p} : api'[q] = api[q]
    <3>1. UNCHANGED api \/ \E o : Write(p, o)
      BY <1>0, <1>2
         DEF Worker, StartReconcile, AddFinalizer, PersistDraining,
             LateAddFinalizer, MarkReady, RemoveReadiness, PollDrainez, Polled,
             PersistAllowed, GetPod, ReleaseFinalizer, CallFails, PatchFinalizers,
             PersistState, PatchGate, Write
    <3> QED
      BY <1>0, <3>1 DEF Write
  <2>3. \A q \in Pods \ {p} : verdict'[q] = verdict[q]
    <3>1. CASE PollDrainez(p)
      BY <1>0, <3>1 DEF PollDrainez, Polled
    <3>2. CASE ~PollDrainez(p)
      BY <1>2, <3>2
         DEF Worker, StartReconcile, AddFinalizer, PersistDraining,
             LateAddFinalizer, MarkReady, RemoveReadiness, PersistAllowed, GetPod,
             ReleaseFinalizer, CallFails, PatchFinalizers, PersistState,
             PatchGate, history
    <3> QED
      BY <3>1, <3>2
  <2> QED
    BY <2>1, <2>2, <2>3
<1>3. ASSUME NEW p \in Pods, Kubelet(p) \/ Others(p)
      PROVE  Alone(p)
  BY <1>0, <1>3
     DEF Kubelet, StartContainer, KubeletStatus, Sigterm, Exit, Kill, Confirm,
         Others, Create, Delete, OtherOwner, ReuseIp, Write, cluster, history
<1> QED
  BY <1>1, <1>2, <1>3 DEF Next

\* One pod's step is a step of the gate when the other pods stand still.
LEMMA PodStepLifted ==
    ASSUME TypeOK, TypeOK', NEW p \in Pods, PodStep(p),
           \A q \in Pods \ {p} : StaysExcept(q, {})
    PROVE  [Gate!Next]_(Gate!vars)
<1> DEFINE stage     == [q \in Pods |-> Stage(q)]
           protected == [q \in Pods |-> Protected(q)]
           allowed   == [q \in Pods |-> Allowed(q)]
<1>1. proc \in [Pods -> Alive \cup {"off"}] /\ proc' \in [Pods -> Alive \cup {"off"}]
  BY DEF TypeOK
<1>2. /\ stage' = [stage EXCEPT ![p] = Stage(p)']
      /\ protected' = [protected EXCEPT ![p] = Protected(p)']
      /\ allowed' = [allowed EXCEPT ![p] = Allowed(p)']
      /\ proc' = [proc EXCEPT ![p] = proc'[p]]
  BY <1>1 DEF StaysExcept
<1>3. /\ Stage(p)' = Stage(p) => stage' = stage
      /\ Protected(p)' = Protected(p) => protected' = protected
      /\ Allowed(p)' = Allowed(p) => allowed' = allowed
      /\ proc'[p] = proc[p] => proc' = proc
  BY <1>1, <1>2
<1>4. /\ stage[p] = Stage(p) /\ protected[p] = Protected(p)
      /\ allowed[p] = Allowed(p)
  OBVIOUS
<1>5. CASE StaysExcept(p, {})
  <2>1. stage' = stage /\ protected' = protected /\ allowed' = allowed /\ proc' = proc
    BY <1>3, <1>5 DEF StaysExcept
  <2> QED
    BY <2>1 DEF Gate!vars, Stage, Protected, Allowed
<1>6. CASE PodCreate(p)
  <2>1. /\ stage[p] = "absent" /\ stage' = [stage EXCEPT ![p] = "active"]
        /\ protected' = protected /\ allowed' = allowed /\ proc' = proc
    BY <1>2, <1>3, <1>4, <1>6 DEF PodCreate, StaysExcept
  <2>2. Gate!Create(p)
    BY <2>1 DEF Gate!Create, Stage, Protected, Allowed
  <2> QED
    BY <2>2 DEF Gate!Next
<1>7. CASE PodProtect(p)
  <2>1. /\ stage[p] = "active" /\ protected' = [protected EXCEPT ![p] = TRUE]
        /\ stage' = stage /\ allowed' = allowed /\ proc' = proc
    <3>1. Protected(p)' = TRUE
      BY <1>7 DEF PodProtect, Protected
    <3> QED
      BY <1>2, <1>3, <1>4, <1>7, <3>1 DEF PodProtect, StaysExcept
  <2>2. Gate!Protect(p)
    BY <2>1 DEF Gate!Protect, Stage, Protected, Allowed
  <2> QED
    BY <2>2 DEF Gate!Next
<1>8. CASE PodDelete(p)
  <2>1. /\ stage[p] = "active" /\ stage' = [stage EXCEPT ![p] = "deleting"]
        /\ protected' = protected /\ allowed' = allowed /\ proc' = proc
    BY <1>2, <1>3, <1>4, <1>8 DEF PodDelete, StaysExcept
  <2>2. Gate!Delete(p)
    BY <2>1 DEF Gate!Delete, Stage, Protected, Allowed
  <2> QED
    BY <2>2 DEF Gate!Next
<1>9. CASE PodAllow(p)
  <2>1. /\ stage[p] \in {"deleting", "gone"} /\ allowed[p] = "none"
        /\ \/ allowed' = [allowed EXCEPT ![p] = "verified"] /\ proc[p] # "serving"
           \/ allowed' = [allowed EXCEPT ![p] = "forced"] /\ proc[p] = "off"
        /\ stage' = stage /\ protected' = protected /\ proc' = proc
    BY <1>2, <1>3, <1>4, <1>9 DEF PodAllow, StaysExcept
  <2>2. Gate!Allow(p, "verified") \/ Gate!Allow(p, "forced")
    BY <2>1 DEF Gate!Allow, Gate!Justified, Stage, Protected, Allowed
  <2> QED
    BY <2>2 DEF Gate!Next
<1>10. CASE PodRelease(p)
  <2>1. /\ stage[p] = "deleting" /\ protected[p] /\ allowed[p] # "none"
        /\ protected' = [protected EXCEPT ![p] = FALSE]
        /\ \/ proc[p] = "off" /\ stage' = [stage EXCEPT ![p] = "gone"]
           \/ stage' = stage
        /\ allowed' = allowed /\ proc' = proc
    <3>1. Protected(p)' = FALSE
      BY <1>10 DEF PodRelease, Protected
    <3> QED
      BY <1>2, <1>3, <1>4, <1>10, <3>1 DEF PodRelease, PodGoes, StaysExcept
  <2>2. Gate!Release(p)
    BY <2>1 DEF Gate!Release, Gate!Goes, Stage, Protected, Allowed
  <2> QED
    BY <2>2 DEF Gate!Next
<1>11. CASE PodVanish(p)
  <2>1. /\ stage[p] = "deleting" /\ ~protected[p] /\ proc[p] = "off"
        /\ stage' = [stage EXCEPT ![p] = "gone"]
        /\ protected' = protected /\ allowed' = allowed /\ proc' = proc
    BY <1>2, <1>3, <1>4, <1>11 DEF PodVanish, PodGoes, StaysExcept
  <2>2. Gate!Vanish(p)
    BY <2>1 DEF Gate!Vanish, Gate!Goes, Stage, Protected, Allowed
  <2> QED
    BY <2>2 DEF Gate!Next
<1>12. CASE PodContainer(p)
  <2>1. /\ \/ stage[p] = "active" /\ proc[p] = "off"
                 /\ proc' = [proc EXCEPT ![p] = "serving"]
           \/ stage[p] = "deleting" /\ proc[p] = "serving"
                 /\ proc' = [proc EXCEPT ![p] = "draining"]
           \/ proc[p] # "off" /\ proc' = [proc EXCEPT ![p] = "off"]
        /\ stage' = stage /\ protected' = protected /\ allowed' = allowed
    BY <1>2, <1>3, <1>4, <1>12 DEF PodContainer, StaysExcept
  <2>2. Gate!Container(p)
    BY <2>1 DEF Gate!Container, Stage, Protected, Allowed
  <2> QED
    BY <2>2 DEF Gate!Next
<1> QED
  BY <1>5, <1>6, <1>7, <1>8, <1>9, <1>10, <1>11, <1>12 DEF PodStep

\* A step of the pod controller is a step of the gate, or none.
LEMMA GateSimulates ==
    ASSUME MaxUid = 1, TypeOK, TypeOK', [Next]_vars, \A p \in Pods : PodFacts(p)
    PROVE  [Gate!Next]_(Gate!vars)
<1>1. CASE UNCHANGED <<api, uids, proc, verdict>>
  BY <1>1 DEF Gate!vars, Exists
<1>2. ASSUME NEW p \in Pods,
             \A q \in Pods \ {p} :
                /\ api'[q] = api[q] /\ uids'[q] = uids[q]
                /\ proc'[q] = proc[q] /\ verdict'[q] = verdict[q]
      PROVE  [Gate!Next]_(Gate!vars)
  <2>1. \A q \in Pods \ {p} : StaysExcept(q, {})
    BY <1>2 DEF StaysExcept, Stage, Exists, Protected, Allowed
  <2> QED
    BY <2>1, EveryPodStep, PodStepLifted
<1> QED
  BY <1>1, <1>2, OneAtATime

\* No reconcile comes to the release without a verdict.
LEMMA ReleasesAreEarned == Spec => []ReleaseEarned
<1>1. Init => ReleaseEarned
  BY DEF Init, Idle, Releasing, ReleaseEarned
<1>2. TypeOK /\ ReleaseEarned /\ [Next]_vars => ReleaseEarned'
  BY ReleaseEarnedStep
<1> QED
  BY <1>1, <1>2, TypeCorrect, PTL DEF Spec

\* The controller, with its lagging cache, its calls that fail or half fail,
\* its crashes and its changes of policy, is a deletion gate.
THEOREM ControllerIsAGate ==
    ASSUME MaxUid = 1
    PROVE  Spec => ImplementsGate
<1>1. Init => Gate!Init
  <2> SUFFICES ASSUME Init PROVE Gate!Init
    OBVIOUS
  <2>1. ASSUME NEW p \in Pods
        PROVE  /\ ~Exists(p) /\ uids[p] = 0
               /\ (POD_FINALIZER \in api[p].finalizers) = FALSE
               /\ verdict[p][1] = "none"
    BY DEF Init, Exists, NoPod, NewPod, Uids
  <2> QED
    BY <2>1 DEF Init, Gate!Init
<1>2. TypeOK /\ TypeOK' /\ VerdictInv /\ GateInv /\ ReleaseEarned /\ [Next]_vars
        => [Gate!Next]_(Gate!vars)
  <2>1. VerdictInv /\ GateInv /\ ReleaseEarned => \A p \in Pods : PodFacts(p)
    BY DEF VerdictInv, GateInv, ReleaseEarned, PodFacts
  <2> QED
    BY <2>1, GateSimulates
<1> QED
  BY <1>1, <1>2, TypeCorrect, VerdictInvariant, GateInvariant, ReleasesAreEarned, PTL
     DEF Spec, Gate!Spec, ImplementsGate

===============================================================================
