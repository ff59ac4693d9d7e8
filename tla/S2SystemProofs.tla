---------------------------- MODULE S2SystemProofs ----------------------------
(***************************************************************************)
(* S2 as deployed is a pod controller, so that what is proved of           *)
(* PodController holds of it, and a deletion that it allows as verified    *)
(* costs no request that was in flight when the deletion was requested.    *)
(*                                                                         *)
(* A step of the whole is one of PodController because the service answers *)
(* only polls of its own controller (PollServed), on a snapshot of the pod *)
(* that is there (TypeOK and VerdictInv of PodController).  Those are kept *)
(* because the step is one of PodController: the invariant and the         *)
(* refinement are shown together, step by step.  S2KeepsItsPromises and    *)
(* S2IsADeletionGate are inherited.                                        *)
(*                                                                         *)
(* VerifiedCostsNoRequest needs both components.  Only a terminating pod   *)
(* is polled, so what is owed was in flight before the poll arrived, and   *)
(* is among the older requests of the probe; DrainableServiceProofs shows  *)
(* that none of those is left when the counter is loaded as zero.          *)
(***************************************************************************)
EXTENDS S2System, Integers, FiniteSetTheorems, TLAPS

\* The controller of this system again, with what is proved of it.
Pod == INSTANCE PodControllerGate WITH
    Pods <- {pod}, Gated <- {pod}, OtherFinalizers <- {},
    StartPolicies <- {DrainVerification}, MaxUid <- 1, IpReuse <- FALSE,
    proc <- [p \in {pod} |-> ContainerState]

\* And the service, with what is proved of that.
Svc == INSTANCE DrainableServiceProofs WITH
    proc <- app_proc, Settle <- SettleTime, Grace <- Grace + KillSlack

-----------------------------------------------------------------------------
(***************************************************************************)
(* The two instances of each component.                                     *)
(***************************************************************************)

\* Its assumptions hold of the constants it has here.
LEMMA PodAssumptions ==
    /\ Grace \in Nat /\ KillSlack \in Nat
    /\ KillSlack < Grace
    /\ DeleteGraces \subseteq 1 .. Grace
    /\ 1 \in Nat \ {0}
    /\ MaxDisruptions \in Nat
    /\ MaxBehind \in Nat
    /\ FALSE \in BOOLEAN
    /\ {pod} \subseteq {pod}
    /\ {DrainVerification} \subseteq Pod!Policies /\ {DrainVerification} # {}
    /\ Pod!POD_FINALIZER \notin {}
BY ConstantsAssumption DEF DrainVerification, Pod!Policies

\* Both instances are the same system, definition by definition.
LEMMA SameController ==
    /\ Ctl!Init => Pod!Init
    /\ [Ctl!Next]_(Ctl!vars) => [Pod!Next]_(Pod!vars)
<1>1. Ctl!Init => Pod!Init
  BY Zenon DEF Ctl!Init, Pod!Init, Ctl!NoPod, Pod!NoPod, Ctl!NewPod, Pod!NewPod,
       Ctl!Idle, Pod!Idle, Ctl!Uids, Pod!Uids
<1>2. Ctl!vars = Pod!vars /\ Ctl!vars' = Pod!vars'
  BY DEF Ctl!vars, Pod!vars, Ctl!cluster, Pod!cluster, Ctl!controller,
         Pod!controller, Ctl!history, Pod!history
<1>3. Ctl!Next => Pod!Next
  BY Zenon
     DEF Ctl!POD_FINALIZER, Pod!POD_FINALIZER, Ctl!cluster, Pod!cluster,
       Ctl!controller, Pod!controller, Ctl!history, Pod!history, Ctl!vars,
       Pod!vars, Ctl!Uids, Pod!Uids, Ctl!Horizon, Pod!Horizon, Ctl!NewPod,
       Pod!NewPod, Ctl!NoPod, Pod!NoPod, Ctl!Exists, Pod!Exists, Ctl!Alive,
       Pod!Alive, Ctl!Calls, Pod!Calls, Ctl!Idle, Pod!Idle, Ctl!Init,
       Pod!Init, Ctl!Settle, Pod!Settle, Ctl!Admits, Pod!Admits, Ctl!Write,
       Pod!Write, Ctl!MayDisrupt, Pod!MayDisrupt, Ctl!Disrupt, Pod!Disrupt,
       Ctl!NeedsFinalizer, Pod!NeedsFinalizer, Ctl!FirstTermination,
       Pod!FirstTermination, Ctl!S1OrS2, Pod!S1OrS2, Ctl!Evaluate,
       Pod!Evaluate, Ctl!DecommissionStates, Pod!DecommissionStates,
       Ctl!Edges, Pod!Edges, Ctl!Transition, Pod!Transition, Ctl!Annotation,
       Pod!Annotation, Ctl!ToAnnotation, Pod!ToAnnotation, Ctl!ReadState,
       Pod!ReadState, Ctl!Decide, Pod!Decide, Ctl!Continue, Pod!Continue,
       Ctl!OnError, Pod!OnError, Ctl!Acknowledge, Pod!Acknowledge,
       Ctl!Calling, Pod!Calling, Ctl!StartReconcile, Pod!StartReconcile,
       Ctl!ListWritten, Pod!ListWritten, Ctl!CallFails, Pod!CallFails,
       Ctl!PatchFinalizers, Pod!PatchFinalizers, Ctl!NowHeld, Pod!NowHeld,
       Ctl!AddFinalizer, Pod!AddFinalizer, Ctl!LateAddFinalizer,
       Pod!LateAddFinalizer, Ctl!PersistState, Pod!PersistState,
       Ctl!PersistDraining, Pod!PersistDraining, Ctl!PatchGate, Pod!PatchGate,
       Ctl!MarkReady, Pod!MarkReady, Ctl!RemoveReadiness, Pod!RemoveReadiness,
       Ctl!TerminatingFor, Pod!TerminatingFor, Ctl!PollOutcomes,
       Pod!PollOutcomes, Ctl!Polled, Pod!Polled, Ctl!PollDrainez,
       Pod!PollDrainez, Ctl!PersistAllowed, Pod!PersistAllowed, Ctl!GetPod,
       Pod!GetPod, Ctl!ReleaseFinalizer, Pod!ReleaseFinalizer, Ctl!Worker,
       Pod!Worker, Ctl!StartContainer, Pod!StartContainer, Ctl!KubeletStatus,
       Pod!KubeletStatus, Ctl!Sigterm, Pod!Sigterm, Ctl!Exit, Pod!Exit,
       Ctl!Kill, Pod!Kill, Ctl!Confirm, Pod!Confirm, Ctl!Create, Pod!Create,
       Ctl!Delete, Pod!Delete, Ctl!OtherOwner, Pod!OtherOwner, Ctl!ReuseIp,
       Pod!ReuseIp, Ctl!Requested, Pod!Requested, Ctl!Overdue, Pod!Overdue,
       Ctl!Tick, Pod!Tick, Ctl!Newest, Pod!Newest, Ctl!Publish, Pod!Publish,
       Ctl!Sync, Pod!Sync, Ctl!Crash, Pod!Crash, Ctl!Restart, Pod!Restart, Ctl!Kubelet, Pod!Kubelet, Ctl!Others,
       Pod!Others, Ctl!Next, Pod!Next
<1> QED
  BY <1>1, <1>2, <1>3

\* The service's assumptions hold of the constants it has here.
LEMMA ServiceAssumptions ==
    /\ Svc!IsFiniteSet(Requests)
    /\ DrainSettings \subseteq BOOLEAN
    /\ DrainMax \in Nat /\ SettleTime \in Nat /\ Grace + KillSlack \in Nat
    /\ DrainMax < Grace + KillSlack
<1>1. Svc!IsFiniteSet(Requests)
  BY ConstantsAssumption, Zenon DEF IsFiniteSet, Svc!IsFiniteSet
<1> QED
  BY <1>1, ConstantsAssumption

\* Both instances of it are the same service.
LEMMA SameService ==
    /\ App!Fresh => Svc!Fresh
    /\ App!Handling = Svc!Handling /\ App!Handling' = Svc!Handling'
    /\ [App!Next]_(App!vars) => [Svc!Next]_(Svc!vars)
<1>1. App!Fresh => Svc!Fresh
  BY Zenon DEF App!Fresh, Svc!Fresh, App!NoProbe, Svc!NoProbe
<1>2. App!Handling = Svc!Handling /\ App!Handling' = Svc!Handling'
  BY DEF App!Handling, Svc!Handling
<1>3. App!vars = Svc!vars /\ App!vars' = Svc!vars'
  BY DEF App!vars, Svc!vars, App!shutdown, Svc!shutdown
<1>4. App!Next => Svc!Next
  BY Zenon
     DEF App!shutdown, Svc!shutdown, App!NoProbe, Svc!NoProbe, App!Accepting,
         Svc!Accepting, App!Handling, Svc!Handling, App!Observe, Svc!Observe,
         App!Send, Svc!Send, App!Start, Svc!Start, App!DropGuard, Svc!DropGuard,
         App!Finish, Svc!Finish, App!Disconnect, Svc!Disconnect, App!Respond,
         Svc!Respond, App!Refuse, Svc!Refuse, App!Probe, Svc!Probe,
         App!LoadCount, Svc!LoadCount, App!Answer, Svc!Answer, App!LoadFlag,
         Svc!LoadFlag, App!Cut, Svc!Cut, App!Sigterm, Svc!Sigterm, App!Check,
         Svc!Check, App!Settled, Svc!Settled, App!Exit, Svc!Exit, App!Killed,
         Svc!Killed, App!Kill, Svc!Kill, App!Waiting, Svc!Waiting, App!Tick,
         Svc!Tick, App!Request, Svc!Request, App!Drainez, Svc!Drainez,
         App!Next, Svc!Next
<1> QED
  BY <1>1, <1>2, <1>3, <1>4

-----------------------------------------------------------------------------
(***************************************************************************)
(* The invariant.                                                          *)
(***************************************************************************)

\* A poll inside the service; the bounds of the count are of no use here.
ServiceProbes ==
    [at : {"idle", "loadCount", "loadFlag"}, count : Int,
     answer : {"none", "ready", "notYet"}, wasIdle : BOOLEAN,
     older : SUBSET Requests]

\* The types that PodController does not know of.
ServiceTypes ==
    /\ app_proc \in {"up", "exited", "killed"}
    /\ IS_DRAINING \in BOOLEAN
    /\ graceful_drain \in DrainSettings
    /\ req \in [Requests -> App!RequestStates]
    /\ probe \in ServiceProbes

\* A service that drains was told to stop.
DrainsWhenTold == task = "listening" => ~IS_DRAINING

\* The service works on a poll only while the controller waits for it.
PollServed ==
    probe.at # "idle" =>
        up /\ rec[pod].call = "pollDrainez" /\ rec[pod].obj.ip

\* A container that runs has lost no request; what is owed is being handled,
\* and was when the poll that is under way arrived.
OwedKept ==
    /\ app_proc = "up" =>
          /\ \A r \in Requests : req[r] # "cut"
          /\ owed \subseteq App!Handling
          /\ probe.at # "idle" => owed \subseteq probe.older
    /\ VerifiedCoversDeletion

S2Inv ==
    /\ Pod!TypeOK /\ Pod!VerdictInv
    /\ Svc!Counting /\ Svc!Covered
    /\ DrainsWhenTold /\ PollServed /\ OwedKept

\* What is needed of the service's types.
LEMMA TypesOfService ==
    ASSUME Svc!Counting
    PROVE  ServiceTypes
<1>1. Svc!TypeOK
  BY DEF Svc!Counting
<1>2. probe \in ServiceProbes
  <2>1. 0 .. Svc!Cardinality(Requests) \subseteq Int
    OBVIOUS
  <2>2. probe \in Svc!Probes
    BY <1>1 DEF Svc!TypeOK
  <2> QED
    BY <2>1, <2>2 DEF Svc!Probes, ServiceProbes
<1> QED
  BY <1>1, <1>2 DEF Svc!TypeOK, ServiceTypes, Svc!RequestStates, App!RequestStates

\* What PodController sees of the container, before and after a step.
LEMMA StateOfContainer ==
    /\ app_proc # "up" => ContainerState = "off"
    /\ app_proc = "up" /\ IS_DRAINING = TRUE => ContainerState = "draining"
    /\ app_proc = "up" /\ IS_DRAINING = FALSE => ContainerState = "serving"
    /\ app_proc' # "up" => ContainerState' = "off"
    /\ app_proc' = "up" /\ IS_DRAINING' = TRUE => ContainerState' = "draining"
    /\ app_proc' = "up" /\ IS_DRAINING' = FALSE => ContainerState' = "serving"
BY DEF ContainerState

\* The controller polls the pod that is there, and there is no other.
LEMMA PolledPodIsThis ==
    ASSUME Pod!TypeOK, Pod!VerdictInv, rec[pod].call # "none"
    PROVE  rec[pod].obj.uid = uids[pod]
<1>1. /\ rec[pod] \in Pod!Workers /\ rec[pod].obj.uid # 0
      /\ uids[pod] \in 0 .. 1
  BY DEF Pod!TypeOK
<1>2. rec[pod].obj.uid \in 0 .. 1
  BY <1>1 DEF Pod!Workers, Pod!PodObjects
<1>3. rec[pod].obj.uid <= uids[pod]
  BY DEF Pod!VerdictInv, Pod!SnapshotsSound, Pod!Sound
<1> QED
  BY <1>1, <1>2, <1>3

\* PodController provides for what the service may answer.
LEMMA AnswerProvidedFor ==
    ASSUME S2Inv, app_proc = "up", probe.at # "idle"
    PROVE  /\ "NotYet" \in Ctl!PollOutcomes(pod, rec[pod].obj)
           /\ IS_DRAINING => "ReadyToDelete" \in Ctl!PollOutcomes(pod, rec[pod].obj)
<1>1. rec[pod].obj.ip /\ rec[pod].obj.uid = uids[pod]
  BY PolledPodIsThis DEF S2Inv, PollServed
<1>2. /\ ContainerState \in {"serving", "draining"}
      /\ IS_DRAINING => ContainerState = "draining"
  BY StateOfContainer, TypesOfService DEF S2Inv, ServiceTypes
<1> QED
  BY <1>1, <1>2 DEF Ctl!PollOutcomes, Ctl!Alive

-----------------------------------------------------------------------------
(***************************************************************************)
(* Steps.                                                                  *)
(***************************************************************************)

\* What PodController does not see is a stutter of it.
LEMMA Unseen ==
    ASSUME UNCHANGED <<ctlVars, app_proc, IS_DRAINING>>
    PROVE  UNCHANGED Ctl!vars
BY DEF ctlVars, ContainerState, Ctl!vars, Ctl!cluster, Ctl!controller, Ctl!history

\* The requests, the shutdown task and the poll inside the service.
LEMMA ServiceStep ==
    ASSUME S2Inv, Service \/ PollArrives \/ PollLoadsCount
    PROVE  [Ctl!Next]_(Ctl!vars)
<1>1. CASE PollArrives \/ PollLoadsCount
  <2>1. UNCHANGED <<ctlVars, app_proc, IS_DRAINING>>
    BY <1>1 DEF PollArrives, PollLoadsCount, App!Probe, App!LoadCount, App!shutdown
  <2> QED
    BY <2>1, Unseen
<1>2. CASE Service /\ ~App!Exit
  <2>1. UNCHANGED <<ctlVars, app_proc, IS_DRAINING>>
    BY <1>2
       DEF Service, App!Request, App!Send, App!Start, App!Finish, App!Disconnect,
           App!DropGuard, App!Respond, App!Refuse, App!Check, App!Settled,
           App!shutdown
  <2> QED
    BY <2>1, Unseen
<1>3. CASE Service /\ App!Exit
  <2>1. app_proc = "up" /\ app_proc' = "exited" /\ IS_DRAINING' = IS_DRAINING
          /\ UNCHANGED ctlVars
    BY <1>3 DEF Service, App!Exit, App!shutdown
  <2>2. ContainerState \in {"serving", "draining"} /\ ContainerState' = "off"
    BY <2>1, StateOfContainer, TypesOfService DEF S2Inv, ServiceTypes
  <2>3. Ctl!Exit(pod)
    BY <2>1, <2>2
       DEF Ctl!Exit, Ctl!Alive, Ctl!controller, Ctl!history, ctlVars
  <2> QED
    BY <2>3 DEF Ctl!Next, Ctl!Kubelet
<1> QED
  BY <1>1, <1>2, <1>3

\* The end of a poll is one that PodController provides for.
LEMMA PollStep ==
    ASSUME S2Inv, PollAnswered \/ PollUnanswered
    PROVE  [Ctl!Next]_(Ctl!vars)
<1>1. ASSUME NEW outcome \in Ctl!PollOutcomes(pod, rec[pod].obj),
             Ctl!Polled(pod, outcome)
      PROVE  Ctl!Next
  BY <1>1 DEF Ctl!Next, Ctl!Worker, Ctl!PollDrainez
<1>2. CASE PollAnswered
  <2>1. app_proc = "up" /\ probe.at # "idle"
    BY <1>2 DEF PollAnswered
  <2>2. App!Answer = "ready" => IS_DRAINING
    BY DEF App!Answer
  <2> QED
    BY <1>1, <1>2, <2>1, <2>2, AnswerProvidedFor DEF PollAnswered
<1>3. CASE PollUnanswered
  <2>1. "Unreachable" \in Ctl!PollOutcomes(pod, rec[pod].obj)
    BY DEF Ctl!PollOutcomes
  <2> QED
    BY <1>1, <1>3, <2>1, AnswerProvidedFor DEF PollUnanswered
<1> QED
  BY <1>2, <1>3

\* The kubelet and the container.
LEMMA ContainerStep ==
    ASSUME S2Inv, StartContainer \/ Sigterm \/ ContainerDies
    PROVE  [Ctl!Next]_(Ctl!vars)
<1>0. ServiceTypes /\ DrainsWhenTold
  BY TypesOfService DEF S2Inv
<1>1. CASE StartContainer
  <2>1. ContainerState = "off" /\ ContainerState' = "serving"
    BY <1>1, StateOfContainer DEF StartContainer
  <2>2. Ctl!StartContainer(pod)
    BY <1>1, <2>1
       DEF StartContainer, Terminating, Ctl!StartContainer, Ctl!controller,
           Ctl!history, ctlVars
  <2> QED
    BY <2>2 DEF Ctl!Next, Ctl!Kubelet
<1>2. CASE Sigterm
  <2>1. ContainerState = "serving" /\ ContainerState' \in {"draining", "off"}
    BY <1>0, <1>2, StateOfContainer
       DEF Sigterm, App!Sigterm, DrainsWhenTold, ServiceTypes
  <2>2. Ctl!Sigterm(pod)
    BY <1>2, <2>1
       DEF Sigterm, Terminating, Ctl!Sigterm, Ctl!controller, Ctl!history, ctlVars
  <2> QED
    BY <2>2 DEF Ctl!Next, Ctl!Kubelet
<1>3. CASE ContainerDies
  <2>1. ContainerState \in {"serving", "draining"} /\ ContainerState' = "off"
    BY <1>0, <1>3, StateOfContainer DEF ContainerDies, App!Killed, ServiceTypes
  <2>2. Ctl!Exit(pod)
    BY <1>3, <2>1
       DEF ContainerDies, Ctl!Exit, Ctl!Alive, Ctl!controller, Ctl!history, ctlVars
  <2> QED
    BY <2>2 DEF Ctl!Next, Ctl!Kubelet
<1> QED
  BY <1>1, <1>2, <1>3

\* Every step is one of PodController, or none.
LEMMA StepIsControllers ==
    ASSUME S2Inv, [Next]_vars
    PROVE  [Ctl!Next]_(Ctl!vars)
<1>1. CASE ControlPlane \/ ControllerCrash \/ Tick
  BY <1>1
     DEF ControlPlane, ControllerCrash, Tick, Ctl!Next, Ctl!Kubelet, Ctl!Others
<1>2. CASE UNCHANGED vars
  BY <1>2, Unseen DEF vars, appVars
<1> QED
  BY <1>1, <1>2, ServiceStep, PollStep, ContainerStep DEF Next, Steps

\* The same, with what is proved of the controller.
LEMMA ControllerStep ==
    ASSUME S2Inv, [Next]_vars
    PROVE  [Pod!Next]_(Pod!vars) /\ Pod!TypeOK' /\ Pod!VerdictInv'
<1>1. [Pod!Next]_(Pod!vars)
  BY StepIsControllers, SameController
<1>2. Pod!TypeOK'
  BY <1>1, PodAssumptions, Pod!TypeStep DEF S2Inv
<1>3. Pod!VerdictInv'
  BY <1>1, <1>2, PodAssumptions, Pod!VerdictsStep DEF S2Inv
<1> QED
  BY <1>1, <1>2, <1>3

\* The steps that the service does not take by itself.
LEMMA ServiceOnItsOwn ==
    ASSUME [Next]_vars
    PROVE  [App!Next]_(App!vars) \/ PollEnds \/ StartContainer \/ ContainerDies
<1>1. CASE UNCHANGED appVars
  BY <1>1 DEF appVars, App!vars, App!shutdown
<1>2. CASE Service \/ PollArrives \/ PollLoadsCount \/ Sigterm
  BY <1>2 DEF Service, PollArrives, PollLoadsCount, Sigterm, App!Next, App!Drainez
<1>3. CASE Tick
  BY <1>1, <1>3 DEF Tick, App!Next
<1> QED
  BY <1>1, <1>2, <1>3
     DEF Next, Steps, vars, ControlPlane, PollAnswered, PollUnanswered, ControllerCrash

\* What is proved of the service alone holds of it here: its counter is exact
\* and its probes are worth what they say.
LEMMA ServiceSound ==
    ASSUME S2Inv, [Next]_vars
    PROVE  Svc!Counting' /\ Svc!Covered'
<1>0. /\ Svc!TypeOK /\ Svc!CounterExact /\ Svc!Counting /\ Svc!Covered
      /\ 0 \in 0 .. Svc!Cardinality(Requests)
  <2>1. Svc!Cardinality(Requests) \in Nat
    BY ServiceAssumptions, Svc!HandlingFinite
  <2> QED
    BY <2>1 DEF S2Inv, Svc!Counting
<1>1. CASE [App!Next]_(App!vars)
  <2>1. [Svc!Next]_(Svc!vars)
    BY <1>1, SameService
  <2> QED
    BY <1>0, <2>1, ServiceAssumptions, Svc!CountingStep, Svc!CoveredStep
<1>2. CASE PollEnds
  <2>1. probe' = Svc!NoProbe /\ Svc!NoProbe \in Svc!Probes
    BY <1>0, <1>2 DEF PollEnds, App!NoProbe, Svc!NoProbe, Svc!Probes
  <2>2. Svc!TypeOK'
    BY <1>0, <1>2, <2>1 DEF PollEnds, Svc!TypeOK
  <2>3. Svc!CounterExact'
    BY <1>0, <1>2 DEF PollEnds, Svc!CounterExact, Svc!Handling
  <2>4. Svc!Covered'
    BY <2>1 DEF Svc!NoProbe, Svc!Covered, Svc!ReadyCoversOlder
  <2> QED
    BY <2>2, <2>3, <2>4 DEF Svc!Counting
<1>3. CASE StartContainer
  <2>1. probe' = Svc!NoProbe /\ Svc!NoProbe \in Svc!Probes
    BY <1>0, <1>3 DEF StartContainer, App!NoProbe, Svc!NoProbe, Svc!Probes
  <2>2. Svc!TypeOK'
    <3>1. req' \in [Requests -> Svc!RequestStates]
      BY <1>3 DEF StartContainer, Svc!RequestStates
    <3>2. 0 \in 0 .. Grace + KillSlack /\ 0 \in 0 .. SettleTime
      BY ConstantsAssumption
    <3> QED
      BY <1>0, <1>3, <2>1, <3>1, <3>2 DEF StartContainer, Svc!TypeOK, Svc!Tasks
  <2>3. Svc!CounterExact'
    <3>1. Svc!Handling' = {}
      BY <1>3 DEF StartContainer, Svc!Handling
    <3> QED
      BY <1>3, <3>1, ServiceAssumptions, Svc!FS_EmptySet DEF StartContainer, Svc!CounterExact
  <2>4. Svc!Covered'
    BY <2>1 DEF Svc!NoProbe, Svc!Covered, Svc!ReadyCoversOlder
  <2> QED
    BY <2>2, <2>3, <2>4 DEF Svc!Counting
<1>4. CASE ContainerDies
  <2>1. /\ app_proc' = "killed" /\ req' = App!Cut
        /\ UNCHANGED <<IN_FLIGHT_COUNT, IS_DRAINING, graceful_drain, task, clock,
                       settling, probe>>
    BY <1>4 DEF ContainerDies, App!Killed, App!shutdown
  <2>2. req' \in [Requests -> Svc!RequestStates]
    BY <1>0, <2>1 DEF App!Cut, Svc!TypeOK, Svc!RequestStates
  <2>3. Svc!TypeOK' /\ Svc!CounterExact'
    BY <1>0, <2>1, <2>2 DEF Svc!TypeOK, Svc!CounterExact
  <2>4. Svc!Covered'
    BY <1>0, <2>1 DEF Svc!Covered, Svc!ReadyCoversOlder
  <2> QED
    BY <2>3, <2>4 DEF Svc!Counting
<1> QED
  BY <1>1, <1>2, <1>3, <1>4, ServiceOnItsOwn

\* What a step of one request leaves alone: the process, its tasks, and of a
\* probe everything but the older request that has just ended.
LEMMA RequestStep ==
    ASSUME ServiceTypes, NEW r \in Requests, App!Request(r)
    PROVE  /\ probe'.at = probe.at
           /\ app_proc = "up"
           /\ UNCHANGED <<app_proc, IS_DRAINING, task>>
           /\ req'[r] # "cut"
           /\ \A q \in Requests \ {r} : req'[q] = req[q]
           /\ \/ probe'.older = probe.older
              \/ probe'.older = probe.older \ {r} /\ req'[r] # "handling"
<1>1. CASE App!Finish(r) \/ App!Disconnect(r)
  <2>1. PICK next \in {"responding", "idle"} : App!DropGuard(r, next)
    BY <1>1 DEF App!Finish, App!Disconnect
  <2>2. probe' = [probe EXCEPT
                     !.wasIdle = @ \/ (probe.at # "idle" /\ IS_DRAINING
                                          /\ IN_FLIGHT_COUNT - 1 = 0),
                     !.older = @ \ {r}]
    BY <2>1 DEF App!DropGuard, App!Observe
  <2>3. probe'.at = probe.at /\ probe'.older = probe.older \ {r}
    BY <2>2 DEF ServiceProbes, ServiceTypes
  <2>4. /\ app_proc = "up" /\ req' = [req EXCEPT ![r] = next]
        /\ UNCHANGED <<app_proc, IS_DRAINING, task>>
    BY <2>1 DEF App!DropGuard, App!shutdown
  <2> QED
    BY <2>3, <2>4 DEF ServiceTypes
<1>2. CASE App!Send(r) \/ App!Start(r) \/ App!Respond(r) \/ App!Refuse(r)
  <2>1. PICK next \in {"queued", "handling", "idle", "refused"} :
           req' = [req EXCEPT ![r] = next]
    BY <1>2 DEF App!Send, App!Start, App!Respond, App!Refuse
  <2>2. app_proc = "up" /\ UNCHANGED <<app_proc, IS_DRAINING, task, probe>>
    BY <1>2 DEF App!Send, App!Start, App!Respond, App!Refuse, App!shutdown,
                App!Accepting
  <2>3. req'[r] = next /\ \A q \in Requests \ {r} : req'[q] = req[q]
    BY <2>1 DEF ServiceTypes
  <2> QED
    BY <2>2, <2>3
<1> QED
  BY <1>1, <1>2 DEF App!Request

\* Nothing is asked of the service.
LEMMA NoProbeType == App!NoProbe \in ServiceProbes /\ App!NoProbe.at = "idle"
BY DEF App!NoProbe, ServiceProbes

\* A container is started with its flag down, and only SIGTERM raises it.
LEMMA DrainsWhenToldStep ==
    ASSUME S2Inv, [Next]_vars
    PROVE  DrainsWhenTold'
<1>0. DrainsWhenTold /\ ServiceTypes
  BY TypesOfService DEF S2Inv
<1>1. CASE UNCHANGED <<IS_DRAINING, task>>
  BY <1>0, <1>1 DEF DrainsWhenTold
<1>2. CASE Service
  BY <1>0, <1>1, <1>2, RequestStep
     DEF Service, App!Check, App!Settled, App!Exit, App!shutdown, DrainsWhenTold
<1>3. CASE StartContainer
  BY <1>3 DEF StartContainer, DrainsWhenTold
<1>4. CASE Sigterm
  <2>1. task' # "listening" \/ UNCHANGED <<IS_DRAINING, task>>
    BY <1>4 DEF Sigterm, App!Sigterm
  <2> QED
    BY <1>1, <2>1 DEF DrainsWhenTold
<1> QED
  BY <1>1, <1>2, <1>3, <1>4
     DEF Next, Steps, ControlPlane, PollArrives, App!Probe, PollLoadsCount,
         App!LoadCount, App!shutdown, PollAnswered, PollUnanswered, ContainerDies,
         App!Killed, ControllerCrash, PollEnds, Tick, App!Tick, appVars, vars

\* No other call of the controller, and no restart, comes before the poll ends.
LEMMA PollServedStep ==
    ASSUME S2Inv, [Next]_vars
    PROVE  PollServed'
<1>0. PollServed /\ ServiceTypes
  BY TypesOfService DEF S2Inv
<1>1. CASE UNCHANGED ctlVars /\ probe'.at = probe.at
  BY <1>0, <1>1 DEF PollServed, ctlVars
<1>2. CASE ControlPlane
  <2>1. CASE probe.at = "idle"
    BY <1>2, <2>1 DEF ControlPlane, appVars, PollServed
  <2>2. CASE probe.at # "idle"
    <3>1. up /\ rec[pod].call = "pollDrainez"
      BY <1>0, <2>2 DEF PollServed
    <3>2. UNCHANGED <<rec, up, probe>>
      BY <1>2, <3>1
         DEF ControlPlane, appVars, Ctl!Publish, Ctl!Sync, Ctl!KubeletStatus, Ctl!Confirm,
             Ctl!Create, Ctl!Delete, Ctl!Restart, Ctl!controller
    <3> QED
      BY <1>0, <3>2 DEF PollServed
  <2> QED
    BY <2>1, <2>2
<1>3. CASE PollArrives
  BY <1>3 DEF PollArrives, Polling, PollServed, ctlVars
<1>4. CASE PollLoadsCount
  BY <1>0, <1>4 DEF PollLoadsCount, App!LoadCount, PollServed, ctlVars
<1>5. CASE PollAnswered \/ PollUnanswered \/ ControllerCrash
  BY <1>5
     DEF PollAnswered, PollUnanswered, ControllerCrash, PollEnds, App!NoProbe,
         PollServed
<1>6. CASE Service
  BY <1>0, <1>1, <1>6, RequestStep
     DEF Service, App!Check, App!Settled, App!Exit, App!shutdown
<1>7. CASE Sigterm \/ ContainerDies
  <2>1. probe'.at = probe.at
    BY <1>0, <1>7
       DEF Sigterm, App!Sigterm, App!Observe, ContainerDies, App!Killed,
           ServiceProbes, ServiceTypes
  <2> QED
    BY <1>1, <1>7, <2>1 DEF Sigterm, ContainerDies
<1>10. CASE StartContainer
  BY <1>10, NoProbeType DEF StartContainer, PollServed
<1>8. CASE Tick
  BY <1>0, <1>8
     DEF Tick, App!Tick, appVars, Ctl!Tick, Ctl!controller, PollServed
<1>9. CASE UNCHANGED vars
  BY <1>1, <1>9 DEF vars, appVars
<1> QED
  BY <1>2, <1>3, <1>4, <1>5, <1>6, <1>7, <1>8, <1>9, <1>10 DEF Next, Steps

-----------------------------------------------------------------------------
(***************************************************************************)
(* What is owed.                                                           *)
(***************************************************************************)

\* A container that runs after a step was running before it, or has just been
\* started; it has lost no request.
LEMMA NoneCut ==
    ASSUME S2Inv, [Next]_vars, app_proc' = "up"
    PROVE  /\ \A r \in Requests : req'[r] # "cut"
           /\ app_proc = "up" \/ StartContainer
<1>0. ServiceTypes /\ (app_proc = "up" => \A r \in Requests : req[r] # "cut")
  BY TypesOfService DEF S2Inv, OwedKept
<1>1. CASE UNCHANGED <<app_proc, req>>
  BY <1>0, <1>1
<1>2. CASE Service
  BY <1>0, <1>1, <1>2, RequestStep DEF Service, App!Check, App!Settled, App!Exit
<1>3. CASE StartContainer
  BY <1>3 DEF StartContainer
<1>4. CASE Sigterm
  BY <1>1, <1>4 DEF Sigterm, App!Sigterm
<1>5. CASE ContainerDies
  BY <1>5 DEF ContainerDies, App!Killed
<1> QED
  BY <1>1, <1>2, <1>3, <1>4, <1>5
     DEF Next, Steps, ControlPlane, PollArrives, App!Probe, PollLoadsCount,
         App!LoadCount, PollAnswered, PollUnanswered, ControllerCrash, PollEnds,
         Tick, App!Tick, appVars, vars

\* So what is owed then is being handled.
LEMMA OwedIsHandled ==
    ASSUME S2Inv, [Next]_vars, app_proc' = "up"
    PROVE  owed' \subseteq App!Handling'
<1>1. CASE UNCHANGED vars
  BY <1>1 DEF vars, appVars, S2Inv, OwedKept, App!Handling
<1>2. CASE Next
  <2>1. Unfinished' \subseteq App!Handling'
    BY NoneCut DEF Unfinished, App!Handling
  <2> QED
    BY <1>2, <2>1 DEF Next
<1> QED
  BY <1>1, <1>2

\* The deletion of a pod that is polled, or that there is a verdict on, has
\* been requested before: nothing more comes to be owed.
LEMMA NothingNewOwed ==
    ASSUME S2Inv, [Next]_vars,
           \/ probe.at # "idle" /\ app_proc = "up"
           \/ verdict[pod][1] # "none"
    PROVE  owed' \subseteq owed
<1> DEFINE u == api'[pod].uid
<1>1. /\ Pod!ContainerSound(pod) /\ Pod!SnapshotsSound(pod) /\ Pod!VerdictSound(pod)
      /\ Pod!TypeOK /\ Pod!TypeOK'
  BY ControllerStep DEF S2Inv, Pod!VerdictInv
<1>2. Pod!Uids = {1} /\ uids[pod] \in {0, 1}
        /\ api[pod].uid \in {0, 1} /\ api'[pod].uid \in {0, 1}
  <2>1. /\ api[pod] \in Pod!PodObjects /\ api'[pod] \in Pod!PodObjects
        /\ uids[pod] \in 0 .. 1
    BY <1>1 DEF Pod!TypeOK, Pod!PodObjects, Pod!Finalizers
  <2>2. Pod!Uids = {1}
    BY DEF Pod!Uids
  <2> QED
    BY <2>1, <2>2 DEF Pod!PodObjects
<1>3. /\ \A v \in 1 .. uids[pod] : Pod!Is(pod, v)' => Pod!Is(pod, v)
      /\ uids[pod] <= uids'[pod]
  BY <1>1, ControllerStep, PodAssumptions, Pod!ClusterStep
<1>4. uids[pod] = 1 /\ (api[pod].uid = 1 => api[pod].terminating)
  <2>1. CASE verdict[pod][1] # "none"
    BY <1>1, <1>2, <2>1 DEF Pod!VerdictSound, Pod!Is, Pod!Exists
  <2>2. CASE probe.at # "idle" /\ app_proc = "up"
    <3>1. rec[pod].call = "pollDrainez" /\ ContainerState # "off"
      BY <2>2, StateOfContainer, TypesOfService DEF S2Inv, PollServed, ServiceTypes
    <3>2. rec[pod].obj.terminating /\ Pod!Sound(pod, rec[pod].obj)
      BY <1>1, <3>1 DEF Pod!SnapshotsSound
    <3>3. rec[pod].obj.uid = uids[pod]
      BY <3>1, PolledPodIsThis DEF S2Inv
    <3>4. Pod!Exists(pod) /\ api[pod].uid = uids[pod]
      BY <1>1, <3>1 DEF Pod!ContainerSound
    <3> QED
      BY <1>2, <3>2, <3>3, <3>4 DEF Pod!Sound, Pod!Is, Pod!Exists
  <2> QED
    BY <2>1, <2>2
<1>5. ~DeletionRequested
  <2> SUFFICES ASSUME Terminating' PROVE Terminating
    BY DEF DeletionRequested
  <2>1. api'[pod].uid = 1
    BY <1>2 DEF Terminating, Ctl!Exists
  <2>2. Pod!Is(pod, 1)'
    BY <2>1 DEF Pod!Is, Pod!Exists
  <2>3. api[pod].uid = 1
    BY <1>3, <1>4, <2>2 DEF Pod!Is
  <2> QED
    BY <1>4, <2>3 DEF Terminating, Ctl!Exists
<1> QED
  BY <1>5 DEF Next, vars

\* What was older when the poll arrived stays so until its handler ends.
LEMMA OlderUntilFinished ==
    ASSUME S2Inv, [Next]_vars, probe'.at # "idle", app_proc' = "up", ~PollArrives
    PROVE  /\ probe.at # "idle" /\ app_proc = "up"
           /\ \A r \in probe.older : r \in probe'.older \/ req'[r] # "handling"
<1>0. ServiceTypes
  BY TypesOfService DEF S2Inv
<1>1. CASE UNCHANGED <<app_proc, probe>>
  BY <1>1
<1>2. CASE Service
  BY <1>0, <1>1, <1>2, RequestStep DEF Service, App!Check, App!Settled, App!Exit
<1>3. CASE PollLoadsCount
  BY <1>0, <1>3
     DEF PollLoadsCount, App!LoadCount, ServiceTypes, ServiceProbes
<1>4. CASE Sigterm
  BY <1>0, <1>4
     DEF Sigterm, App!Sigterm, App!Observe, ServiceTypes, ServiceProbes
<1>5. CASE PollEnds \/ StartContainer
  BY <1>5, NoProbeType DEF PollEnds, StartContainer
<1>6. CASE ContainerDies
  BY <1>6 DEF ContainerDies, App!Killed
<1> QED
  BY <1>1, <1>2, <1>3, <1>4, <1>5, <1>6
     DEF Next, Steps, ControlPlane, PollAnswered, PollUnanswered, ControllerCrash,
         Tick, App!Tick, appVars, vars

\* A new verdict of "verified" comes with a ready answer, and that with a
\* counter that was loaded as zero.
LEMMA VerifiedByAnswer ==
    ASSUME S2Inv, [Next]_vars,
           verdict'[pod][1] # verdict[pod][1], verdict'[pod][1] = "verified"
    PROVE  app_proc = "up" /\ probe.at = "loadFlag" /\ probe.count = 0
<1>1. PollAnswered \/ PollUnanswered
  <2>1. Pod!PollDrainez(pod)
    <3>1. [Pod!Next]_(Pod!vars) /\ Pod!TypeOK
      BY ControllerStep DEF S2Inv
    <3> QED
      BY <3>1, PodAssumptions, Pod!VerdictCases
  <2>2. rec[pod].call = "pollDrainez"
    BY <2>1 DEF Pod!PollDrainez, Pod!Polled, Pod!Calling
  <2>3. verdict' # verdict
    OBVIOUS
  <2> QED
    BY <2>2, <2>3
       DEF Next, Steps, vars, ControlPlane, Ctl!Publish, Ctl!Sync,
           Ctl!KubeletStatus, Ctl!Confirm, Ctl!Create, Ctl!Delete, Ctl!Restart,
           Ctl!history, Service, PollArrives, PollLoadsCount, ControllerCrash,
           Ctl!Crash, StartContainer, Sigterm, ContainerDies, Tick, Ctl!Tick,
           ctlVars
<1>2. ASSUME NEW outcome, outcome # "ReadyToDelete", Ctl!Polled(pod, outcome)
      PROVE  verdict'[pod][1] # "verified" \/ verdict'[pod][1] = verdict[pod][1]
  <2>1. verdict \in [{pod} -> [{1} -> {"none", "verified", "forced"}]]
    BY DEF S2Inv, Pod!TypeOK, Pod!Uids
  <2>2. \/ UNCHANGED verdict
        \/ verdict' = [verdict EXCEPT ![pod][rec[pod].obj.uid] =
                          IF @ = "none" THEN "forced" ELSE @]
    BY <1>2 DEF Ctl!Polled
  <2> QED
    BY <2>1, <2>2
<1>3. PollAnswered /\ App!Answer = "ready"
  BY <1>1, <1>2 DEF PollAnswered, PollUnanswered
<1> QED
  BY <1>3 DEF PollAnswered, App!Answer

\* Every part of what is owed is kept.
LEMMA OwedKeptStep ==
    ASSUME S2Inv, [Next]_vars
    PROVE  OwedKept'
<1>1. ASSUME app_proc' = "up", probe'.at # "idle"
      PROVE  owed' \subseteq probe'.older
  <2>1. CASE PollArrives
    <3>1. probe'.older = App!Handling /\ App!Handling' = App!Handling
      BY <2>1 DEF PollArrives, App!Probe, App!NoProbe, App!Handling
    <3> QED
      BY <1>1, <3>1, OwedIsHandled
  <2>2. CASE ~PollArrives
    <3>1. /\ probe.at # "idle" /\ app_proc = "up"
          /\ \A r \in probe.older : r \in probe'.older \/ req'[r] # "handling"
      BY <1>1, <2>2, OlderUntilFinished
    <3>2. owed \subseteq probe.older
      BY <3>1 DEF S2Inv, OwedKept
    <3>3. owed' \subseteq owed
      BY <3>1, NothingNewOwed
    <3>4. \A r \in owed' : req'[r] = "handling"
      BY <1>1, OwedIsHandled DEF App!Handling
    <3> QED
      BY <3>1, <3>2, <3>3, <3>4
  <2> QED
    BY <2>1, <2>2
<1>2. VerifiedCoversDeletion'
  <2> SUFFICES ASSUME verdict'[pod][1] = "verified" PROVE owed' = {}
    BY DEF VerifiedCoversDeletion
  <2>1. CASE verdict[pod][1] = "verified"
    BY <2>1, NothingNewOwed DEF S2Inv, OwedKept, VerifiedCoversDeletion
  <2>2. CASE verdict[pod][1] # "verified"
    <3>1. app_proc = "up" /\ probe.at = "loadFlag" /\ probe.count = 0
      BY <2>2, VerifiedByAnswer
    <3>2. probe.older = {}
      BY <3>1 DEF S2Inv, Svc!Covered
    <3>3. owed \subseteq probe.older
      BY <3>1 DEF S2Inv, OwedKept
    <3> QED
      BY <3>1, <3>2, <3>3, NothingNewOwed
  <2> QED
    BY <2>1, <2>2
<1> QED
  BY <1>1, <1>2, NoneCut, OwedIsHandled DEF OwedKept

-----------------------------------------------------------------------------
\* A fresh service, and a controller that has seen nothing.
LEMMA S2Init == Init => S2Inv
<1> SUFFICES ASSUME Init PROVE S2Inv
  OBVIOUS
<1>1. Pod!Init
  BY SameController DEF Init
<1>2. Pod!TypeOK /\ Pod!VerdictInv
  BY <1>1, PodAssumptions, Pod!TypeInit, Pod!VerdictsInit
<1>3. Svc!Fresh /\ app_proc = "exited"
  BY SameService DEF Init
<1>4. Svc!Counting
  BY <1>3, ServiceAssumptions, Svc!FreshCounts
<1>5. probe.at = "idle" /\ Svc!Covered
  BY <1>3 DEF Svc!Fresh, Svc!NoProbe, Svc!Covered, Svc!ReadyCoversOlder
<1>6. DrainsWhenTold
  BY <1>3 DEF Svc!Fresh, DrainsWhenTold
<1>7. PollServed /\ OwedKept
  BY <1>3, <1>5 DEF Init, PollServed, OwedKept, VerifiedCoversDeletion
<1> QED
  BY <1>2, <1>4, <1>5, <1>6, <1>7 DEF S2Inv

\* The inductive invariant of the whole.
LEMMA S2Invariant == Spec => []S2Inv
<1>1. S2Inv /\ [Next]_vars => S2Inv'
  BY ControllerStep, ServiceSound, DrainsWhenToldStep, PollServedStep, OwedKeptStep
     DEF S2Inv
<1> QED
  BY <1>1, S2Init, PTL DEF Spec

-----------------------------------------------------------------------------
(***************************************************************************)
(* What follows.                                                           *)
(***************************************************************************)

\* With the real service answering its polls, load by load, the controller
\* meets nothing that PodController does not provide for: S2 as deployed
\* implements it (poll_pod_drainez against drainez and shutdown_signal).
THEOREM S2IsAPodController == Spec => ImplementsPodController
<1>1. Init => Ctl!Init
  BY DEF Init
<1>2. S2Inv /\ [Next]_vars => [Ctl!Next]_(Ctl!vars)
  BY StepIsControllers
<1> QED
  BY <1>1, <1>2, S2Invariant, PTL DEF Spec, ImplementsPodController, Ctl!Spec

\* The same, with what is proved of PodController.
LEMMA S2IsThePodController == Spec => Pod!Spec
<1>1. Init => Pod!Init
  BY SameController DEF Init
<1>2. S2Inv /\ [Next]_vars => [Pod!Next]_(Pod!vars)
  BY ControllerStep
<1> QED
  BY <1>1, <1>2, S2Invariant, PTL DEF Spec, Pod!Spec

\* So S2 as deployed keeps the promises of S2: a pod with our finalizer keeps
\* it until its deletion was allowed, no running container is let go of by
\* force, and no ready answer comes from one that was not told to stop.
THEOREM S2KeepsItsPromises ==
    Spec => [](/\ Pod!GatedUntilReleased
               /\ Pod!ForcedOnlyAfterKill
               /\ Pod!VerifiedOnlyAfterSigterm
               /\ Pod!AllowedAnnotationEarned)
<1>1. Pod!Spec => []Pod!GatedUntilReleased
  BY PodAssumptions, Pod!HeldUntilReleased
<1>2. Pod!Spec => []Pod!ForcedOnlyAfterKill
  BY PodAssumptions, Pod!ForcedReleaseIsSafe
<1>3. Pod!Spec => []Pod!VerifiedOnlyAfterSigterm
  BY PodAssumptions, Pod!VerifiedReleaseIsSafe
<1>4. Pod!Spec => []Pod!AllowedAnnotationEarned
  BY PodAssumptions, Pod!AllowedAnnotationIsEarned
<1> QED
  BY <1>1, <1>2, <1>3, <1>4, S2IsThePodController, PTL

\* And as a whole: what the cluster sees of S2 as deployed is a gate that no
\* pod passes before its deletion was allowed (DeletionGate).
THEOREM S2IsADeletionGate == Spec => Pod!ImplementsGate
<1>1. Pod!Spec => Pod!ImplementsGate
  BY PodAssumptions, Pod!ControllerIsAGate
<1> QED
  BY <1>1, S2IsThePodController, PTL

\* A deletion that the controller allows as verified has cost no request: the
\* ones that were being handled when it was requested were finished by their
\* handlers, through crashes and restarts of the controller and the container
\* (poll_pod_drainez, drainez, InFlightGuard).
THEOREM VerifiedCostsNoRequest == Spec => []VerifiedCoversDeletion
<1>1. S2Inv => VerifiedCoversDeletion
  BY DEF S2Inv, OwedKept
<1> QED
  BY <1>1, S2Invariant, PTL

=============================================================================
