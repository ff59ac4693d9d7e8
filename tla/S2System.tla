------------------------------- MODULE S2System -------------------------------
(***************************************************************************)
(* Strategy S2 as it is deployed: one pod that runs the service of         *)
(* app/src/main.rs under the controller of src/controller.rs.  A poll of   *)
(* /drainez is answered by the service itself, load by load, while its     *)
(* requests, its shutdown task, the kubelet's signals and the controller's *)
(* calls go on around it.                                                  *)
(*                                                                         *)
(* The controller, the API server, the kubelet's reports and the users are *)
(* the actions of PodController, the service those of DrainableService;    *)
(* this module has the steps in which they meet.  In PodController a poll  *)
(* may return whatever PollOutcomes allows: here that is a claim, checked  *)
(* by ImplementsPodController.                                             *)
(*                                                                         *)
(* Abstractions.                                                           *)
(*   - One pod, used once.  The IP is not given to another pod.            *)
(*   - Clients reach the service as long as it accepts: nothing is assumed *)
(*     of how fast endpoints follow the readiness gate.                    *)
(*   - A handler of /drainez whose caller has gone away has no effect, so  *)
(*     it ends with the poll.                                              *)
(*   - A container that fails its livenessProbe dies at once: the SIGTERM  *)
(*     and the drain that come before are left out while the pod is active.*)
(*                                                                         *)
(* Variables: those of the two components, where app_proc is the proc of   *)
(* DrainableService, and                                                   *)
(*   owed        history: the requests that were being handled when the    *)
(*               pod's deletion was requested and whose handler has not    *)
(*               ended since                                               *)
(***************************************************************************)
EXTENDS Naturals, FiniteSets, PolicyEngine

CONSTANTS pod, Requests, DrainSettings, DrainMax, SettleTime,
          Grace, DeleteGraces, KillSlack, MaxDisruptions, MaxBehind

\* What the two components assume of their constants.
ASSUME ConstantsAssumption ==
    /\ IsFiniteSet(Requests)
    /\ DrainSettings \subseteq BOOLEAN
    /\ DrainMax \in Nat /\ SettleTime \in Nat /\ MaxDisruptions \in Nat
    /\ MaxBehind \in Nat
    /\ Grace \in Nat /\ KillSlack \in Nat
    /\ DrainMax < Grace /\ KillSlack < Grace
    /\ DeleteGraces \subseteq 1 .. Grace

VARIABLES api, uids, reused, elapsed, cache, watch, rec, up, policy, disruptions,
          held, verdict,
          app_proc, req, IN_FLIGHT_COUNT, IS_DRAINING, graceful_drain, task,
          clock, settling, probe, owed

ctlVars == <<api, uids, reused, elapsed, cache, watch, rec, up, policy,
             disruptions, held, verdict>>
appVars == <<app_proc, req, IN_FLIGHT_COUNT, IS_DRAINING, graceful_drain, task,
             clock, settling, probe>>
vars == <<ctlVars, appVars, owed>>

\* The service's clock may run on while the kubelet is late with SIGKILL.
App == INSTANCE DrainableService WITH
    proc <- app_proc, Settle <- SettleTime, Grace <- Grace + KillSlack

\* What the pod controller's model sees of the container.
ContainerState ==
    IF app_proc # "up" THEN "off"
    ELSE IF IS_DRAINING THEN "draining" ELSE "serving"

Ctl == INSTANCE PodController WITH
    Pods <- {pod}, Gated <- {pod}, OtherFinalizers <- {},
    StartPolicies <- {DrainVerification}, MaxUid <- 1, IpReuse <- FALSE,
    proc <- [p \in {pod} |-> ContainerState]

\* No pod and no container.
Init ==
    /\ app_proc = "exited"
    /\ App!Fresh
    /\ Ctl!Init
    /\ owed = {}

-----------------------------------------------------------------------------
(***************************************************************************)
(* Steps of one component alone.                                           *)
(***************************************************************************)

\* The controller's calls but the poll, its watch, the kubelet's reports, and
\* whoever creates and deletes the pod.
ControlPlane ==
    /\ UNCHANGED appVars
    /\ \/ Ctl!Worker(pod) /\ rec[pod].call # "pollDrainez"
       \/ Ctl!Publish(pod)
       \/ Ctl!Sync(pod)
       \/ Ctl!KubeletStatus(pod)
       \/ Ctl!Confirm(pod)
       \/ Ctl!Create(pod)
       \/ \E grace \in DeleteGraces : Ctl!Delete(pod, grace)
       \/ Ctl!Restart

\* Requests to the service, its shutdown task and its end.
Service ==
    /\ UNCHANGED ctlVars
    /\ \/ \E r \in Requests : App!Request(r)
       \/ App!Check
       \/ App!Settled
       \/ App!Exit

-----------------------------------------------------------------------------
(***************************************************************************)
(* The poll: a request of the controller that the service handles.         *)
(***************************************************************************)

Polling == up /\ rec[pod].call = "pollDrainez"

\* The request reaches the service at the IP of the snapshot.
PollArrives ==
    /\ Polling
    /\ rec[pod].obj.ip
    /\ App!Probe
    /\ UNCHANGED ctlVars

PollLoadsCount == App!LoadCount /\ UNCHANGED ctlVars

\* The rest of the service goes on without its caller.
PollEnds ==
    /\ probe' = App!NoProbe
    /\ UNCHANGED <<app_proc, req, IN_FLIGHT_COUNT, IS_DRAINING, graceful_drain,
                   task, clock, settling>>

\* The last load, and the answer that the controller gets with it.
PollAnswered ==
    /\ app_proc = "up" /\ probe.at = "loadFlag"
    /\ PollEnds
    /\ Ctl!Polled(pod, IF App!Answer = "ready" THEN "ReadyToDelete" ELSE "NotYet")

\* No answer in time: nobody was there, or it came too late or got lost.  One
\* that breaks off before its end is taken for NotYet.
PollUnanswered ==
    /\ PollEnds
    /\ \/ Ctl!Polled(pod, "Unreachable")
       \/ /\ app_proc = "up" /\ probe.at # "idle"
          /\ Ctl!Polled(pod, "NotYet")

\* A poll that the controller was waiting for ends with it.
ControllerCrash == PollEnds /\ Ctl!Crash

-----------------------------------------------------------------------------
(***************************************************************************)
(* The kubelet and the container, and time.                                *)
(***************************************************************************)

Terminating == Ctl!Exists(pod) /\ api[pod].terminating

\* The first start, or another one after the container has died: the process
\* starts from scratch, in the same environment.
StartContainer ==
    /\ Ctl!Exists(pod) /\ ~Terminating
    /\ app_proc # "up"
    /\ app_proc' = "up"
    /\ req' = [r \in Requests |-> "idle"]
    /\ IN_FLIGHT_COUNT' = 0
    /\ IS_DRAINING' = FALSE
    /\ task' = "listening"
    /\ clock' = 0
    /\ settling' = 0
    /\ probe' = App!NoProbe
    /\ UNCHANGED <<ctlVars, graceful_drain>>

Sigterm ==
    /\ Terminating
    /\ App!Sigterm
    /\ UNCHANGED ctlVars

\* A crash, a failed livenessProbe, or SIGKILL at the end of the grace period.
ContainerDies ==
    /\ App!Killed
    /\ UNCHANGED ctlVars

\* One clock.  The service's starts with SIGTERM and waits for its tasks.
Tick ==
    /\ IF app_proc = "up" /\ IS_DRAINING THEN App!Tick ELSE UNCHANGED appVars
    /\ Ctl!Tick

-----------------------------------------------------------------------------

Steps ==
    \/ ControlPlane
    \/ Service
    \/ PollArrives
    \/ PollLoadsCount
    \/ PollAnswered
    \/ PollUnanswered
    \/ ControllerCrash
    \/ StartContainer
    \/ Sigterm
    \/ ContainerDies
    \/ Tick

\* Requests that a handler has not finished: it runs, or it died.
Unfinished == {r \in Requests : req[r] \in {"handling", "cut"}}

DeletionRequested == ~Terminating /\ Terminating'

Next ==
    /\ Steps
    /\ owed' = IF DeletionRequested
               THEN App!Handling'
               ELSE owed \cap Unfinished'

Spec == Init /\ [][Next]_vars

-----------------------------------------------------------------------------
(***************************************************************************)
(* Properties.                                                             *)
(***************************************************************************)

\* With the real service answering, the controller meets nothing that the
\* model of it does not provide for, so what holds of PodController holds of
\* S2 as deployed (poll_pod_drainez against drainez and shutdown_signal).
ImplementsPodController == Ctl!Spec

\* A verified deletion costs no request: when the controller allows a deletion
\* on a ready answer, every request that was being handled when the deletion
\* was requested has been finished by its handler, none lost with a container
\* that died and none forgotten by the counter.  Requests that came later may
\* still be running (poll_pod_drainez, drainez, InFlightGuard).
VerifiedCoversDeletion == verdict[pod][1] = "verified" => owed = {}

=============================================================================
