# Verification of the DAT6 Kubernetes controller

TLA+ models, TLC runs and TLAPS proofs for the pod-decommissioning controller in
`src/`, the drainable HTTP service in `app/` that it works on, and the script that runs
experiments with both (`scripts/run_all_auto.sh`). Source paths
below are relative to the repository.

## 1. The system

A controller watches the pods of the namespace `default`. When a pod is deleted it
enforces one of three strategies, chosen by environment variables at start-up:

- **baseline**: neither flag; Kubernetes does what it does.
- **S1, early readiness removal**: the pod's readiness gate
  `decomposition.dat6.io/drain` is turned off so that it leaves the Service endpoints
  before it drains.
- **S2, active drain verification**: S1, and in addition a finalizer holds the pod
  object until the pod's `/drainez` says `ready_to_delete`, or until it is silent past
  the grace period.

| Component | State | Operations | Correct when |
|---|---|---|---|
| Decommission FSM (`src/decommission.rs`) | the annotation `decomposition.dat6.io/state` of each pod | `transition`, `state_to_annotation_value`, read back by `read_fsm_state_from_pod` | the lifecycle goes back only where a reconcile writes over a value it has not seen; `deletion_allowed` has a reason |
| Policy engine (`src/policy.rs`) | none | `evaluate` | out of the endpoints first, drained second, and only for terminating pods |
| Pod controller (`src/controller.rs`) | none of its own: the reflector's cache, the snapshot a reconcile works on, and what it writes on the pod | `reconcile_pod` with up to four API calls and one HTTP poll; `error_policy_pod` | a pod that carries the finalizer is let go if, and only if, its deletion was allowed; the gate follows the pod's life; nobody else's data is touched |
| Start-up (`src/main.rs`) | the policy | reads the environment, runs three controllers | a restart, with whatever policy, does not break what was begun |
| Drainable service (`app/src/main.rs`) | `IN_FLIGHT_COUNT`, `IS_DRAINING` | the handler of `/` and its guard, `/drainez`, `shutdown_signal` | a ready answer covers what was in flight; the counter is exact; the process ends |
| Deployment and StatefulSet reconcilers | none | log and requeue | no state, not modelled |
| Metrics, health, errors | counters that nothing reads | | not modelled |
| Experiment runner (`scripts/run_all_auto.sh`, `run_scenario.sh`, `stop_experiment.sh`) | the lock file, the controller's deployment, the load | take the lock, rounds of deploy, load and undeploy, the cleanup trap, the stop script | one experiment at a time, and nothing of it left on the cluster |
| Manifests, measurement scripts | | | not modelled |

Components interact through the pod object at the API server (merge patches by name;
watch events into the cache), by HTTP from the controller to the pod (`/drainez`), by
SIGTERM and SIGKILL from the kubelet to the service. The controller never calls the
service's process manager and the service knows nothing of the controller. The scripts
deploy and delete the controller, start the load, and exclude each other by a lock on a
file.

What is hard here: a reconcile decides on a snapshot that is old when it writes, no
write carries a resourceVersion or a uid, each reconcile is several calls any of which
can fail or be applied with its answer lost, the controller can crash between any two
and come back with another policy, the poll goes to an IP, "past the grace period" is
measured against a timestamp that means something else than its name says, and in the
service a handler may be dropped at any await. `PROJECT.json` lists every hazard at its
line.

## 2. Modules

| Module | Models |
|---|---|
| `DecommissionFsm` | the transition table and its storage as an annotation; pure |
| `PolicyEngine` | `PolicyEngine::evaluate`; pure |
| `DecommissionDriver` | the table driven by every event in every order, on stale snapshots, with failing writes |
| `PodController` | the reconciler, the reflector's cache, the API server, the kubelet and the container |
| `MCPodController` | the sets of policies for TLC |
| `DrainableService` | the service: requests, the counter, `/drainez`, the shutdown task |
| `MCDrainableService` | the symmetry of the clients for TLC |
| `DeletionGate` | abstract: what the controller promises to whoever deletes a pod |
| `S2System` | composition: one pod with the real service under the real controller |
| `ExperimentRunner` | the lock, the cleanup and the stop script of an experiment |
| `DecommissionFsmTheorems`, `DecommissionDriverProofs` | proofs about the state machine |
| `DrainableServiceProofs` | proofs about the service |
| `PodControllerProofs` | type correctness of `PodController`; proof that a held pod stays held until a verdict |
| `PodControllerVerdicts` | proofs of what a verdict says of the pod, and of the annotation |
| `PodControllerGate` | proof that the release spares other owners' finalizers, and that `PodController` implements `DeletionGate` |
| `S2SystemProofs` | proof that `S2System` implements `PodController`, what it inherits from it, and that a verified deletion has cost no request |
| `ExperimentRunnerProofs` | proofs about the experiments |

`PodController` EXTENDS the two pure modules. `DrainableService` stands alone; what
`PodController` knows of it is the three states of `proc` (serving, draining, off).
`S2System` instantiates both.

### PodController and the code

`rec[p]` is the worker of pod `p`: kube-rs runs at most one reconcile per object. Its
`call` is the await at which the reconcile is suspended, its `obj` the snapshot taken at
the start and used to the end. One action is one call with the code up to the next one.

| Action | Code (`src/controller.rs`) |
|---|---|
| `StartReconcile` | 66-127: the snapshot, the finalizer test, the first-termination test |
| `AddFinalizer` | 102-120, `add_pod_finalizer` |
| `PersistDraining`, `LateAddFinalizer` | 122-145 |
| `Decide` | 147-178: evaluation, the gate of an active pod, the dispatch |
| `MarkReady`, `RemoveReadiness` | 156-196, `patch_pod_readiness_gate_status` |
| `PollDrainez`, `Polled` | 197-251, `poll_pod_drainez`; `Polled` is what the reconciler does with an outcome, `PollOutcomes` what the network and the container may make of a poll; `TerminatingFor` is 199-208 |
| `PersistAllowed`, `GetPod`, `ReleaseFinalizer` | 222-226 and 241-243, `remove_pod_finalizer` |
| `CallFails`, `OnError` | every `?`, the three `if let Err`, `error_policy_pod` |
| `Crash`, `Restart` | the process and `src/main.rs` 37-90 |

A reconcile that finds nothing to call is left out: it changes nothing. Marking the gate
of an active pod is the last call of a reconcile because `evaluate` answers `NoAction`
for every active pod. `DelayDeletion`, `EnsurePreStop`, `AllowDeletion` and
`WaitForStateHandover` are handled by the reconciler but `evaluate` never returns them.

What is not under `src/` is modelled from how the code uses it: a terminating object goes
when its grace period has been brought to zero and no finalizer is left; a terminating
object takes no new finalizer; a merge patch replaces a list; `deletionTimestamp` is the
time of the request plus the grace period, and the request itself once the kubelet
has confirmed the end of the containers with a zero grace period.

The watch delivers late: `Publish` puts a version of the pod on its way, `Sync` delivers
the oldest that is on its way, and at most `MaxBehind` wait. Between the two the cache may
hold any version there was, and a snapshot taken of it stays in use for as long as the
reconcile lasts.

`held` and `verdict` are history: the incarnations of a pod that ever carried the
finalizer, and why each deletion was allowed ("verified" by a ready answer, "forced" by
silence). Nothing in the model reads them except properties.

### DecommissionDriver and the code

`PodController` reaches two events of the table. This module drives all eight, in any order,
as a reconciler would: `StartReconcile` reads the state off the cache
(`controller.rs:123`), `Observe` moves the state in memory and writes it, with no precondition
on what is stored by now (`persist_fsm_state`), and `Sync` leaves any version there
has been in the cache. `known` is what the reconcile read or last wrote.

### DrainableService and the code

`Start`, `Finish`, `Disconnect` are `root_handler` with `InFlightGuard`; `Probe`,
`LoadCount`, `LoadFlag` are `drainez`, whose two loads are separate steps; `Sigterm`,
`Check`, `Settled` are `shutdown_signal`; `Exit` is the end of `main`. `Send`, `Respond`,
`Refuse` stand for axum and hyper. `TimeoutLayer` drops the handler as `Finish` does.
Where `DAT6_GRACEFUL_DRAIN` is unset SIGTERM kills the process. `older` is history: the
requests that were in flight when the probe began.

### DeletionGate, and how PodController implements it

`DeletionGate` has no cache, no calls, no crashes, no policy and no clock. A pod is
absent, active, deleting or gone; it may be protected while it is active; a deletion is
allowed for a reason, and the reason is worth something at that instant (`Justified`: the
process was told to stop, or the container is off); a protected pod goes only through
`Release`, after it was allowed.

The refinement mapping of `PodController!Gate` reads `stage` off the API object,
`protected` off its finalizer list, `allowed` is `verdict` and `container` is
`proc`. It is for names that are used once. Nothing of a worker is in it: every call that
does not reach the pod object, every failed call, every crash and every restart is a
stutter of the gate.

### S2System

`PodController` lets a poll return whatever `PollOutcomes` allows of a `serving`,
`draining` or dead container. In `S2System` the answer comes from `drainez` itself, one
load at a time, with the requests, the shutdown task, the kubelet's signals and the
controller's calls going on in between. The steps of one component alone are its own
actions with the other's variables unchanged (`ControlPlane`, `Service`); the steps in which
they meet are written here: the poll and its end, a crash that abandons a poll, the
start of the container and its death at any time (a crash, a failed `livenessProbe`, SIGKILL),
after which an active pod's starts again from scratch, SIGTERM, and one clock for both. `ImplementsPodController`
says that the composition is a `PodController` for the `proc` computed from the
service (`ContainerState`), so what is proved of `PodController` holds of it. The controller
and the service are each modelled once; `S2System` repeats neither. `owed` is history:
the requests that were being handled when the pod's deletion was requested and whose
handler has not ended since. `VerifiedCoversDeletion` asks that none is left when the
controller takes the deletion for verified. The two loads of `drainez`, the
poll's way back, and a container that died with its requests and counts from zero again stand
in between.

### ExperimentRunner and the code

| Action | Code |
|---|---|
| `Open`, `TryLock`, `SetTrap`, `ExitBeforeTrap` | `run_all_auto.sh` up to its trap, 60-122 |
| `ApplyController`, `StartTail` | `start_controller`: `kubectl apply`, the wait for the rollout after it, the log tail |
| `StartWatch`, `StartLoad`, `EndScenario` | `run_scenario.sh` 89-107, 117-131, 156-165 |
| `KillTail`, `DeleteController` | `stop_controller`, and the same two steps of the cleanup |
| `Leave`, `ScenarioTrap` | the cleanup begins, from any round, after the scenario's own trap if it was set |
| `KillK6`, `Unlock`, `RemoveLockFile` | the rest of the cleanup, 112-116 |
| `Interrupt` | a second Ctrl-C or SIGTERM: line 94 has reset the traps |
| `Pkill`, `StopDeletesController`, `StopKillsK6`, `StopRemovesLockFile` | `stop_experiment.sh` 21-51 |
| `JobEnds`, `K6Starts`, `K6Ends`, `OrphanActs` | the children, which may outlive their script |

Every child of `run_all_auto.sh` inherits descriptor 200, and a lock belongs to the open file:
the log tail, the watches and the `ssh` that runs k6 keep it locked when the script
dies without `flock -u`, and so does the call it was waiting for (`Call`). Unlinking the
path touches no lock. `stop_experiment.sh` kills the scripts, the tails and the event watches;
the pod watch, the `ssh` and a call in progress match no pattern of it, and a `kubectl
apply` or an `ssh` of these may still deploy the controller or start the load when the script
has already looked. Anybody may start an experiment while it runs. `unlinked` and `late`
are history: the file was removed under a running invocation; a child acted when nobody
was to look any more.

## 3. Runs that pass

| Run | Asks | Distinct states |
|---|---|---|
| `lifecycle` | does the stored lifecycle go back only under a stale snapshot (`BackOnlyWhenStale`) and reach its end only on evidence (`AllowedNeedsEvidence`), for all eight events in any order? | 74 thousand |
| `safety` | is a pod let go only when it should be: held until a verdict (`GatedUntilReleased`), forced only after its container is dead (`ForcedOnlyAfterKill`), verified only after SIGTERM (`VerifiedOnlyAfterSigterm`), never while active (`NeverReleasesActivePod`); is the annotation honest (`AllowedAnnotationEarned`); and is the whole a deletion gate (`ImplementsGate`)? | 0.9 million |
| `liveness` | under S2: is every held pod let go in the end (`HeldPodReleased`), every running one protected (`RunningPodProtected`) and brought into the endpoints although status patches write old conditions back (`ReadySettles`), and does the gate of a terminating one close for good (`GateDropped`)? With another owner's finalizer on the pod: does the release leave it alone (`ReleaseKeepsOthers`), and is the whole still a deletion gate (`ImplementsGate`)? | 0.15 million |
| `name_reuse` | do the two facts about the container survive the reuse of a pod's name? | 0.9 million |
| `service` | is the counter exact (`CounterExact`); is `/drainez` never ready over a request that it found in flight (`ReadyCoversOlder`); does the process end after SIGTERM whatever clients do (`DrainEnds`)? | thousands |
| `s2_system` | does the real service give the controller only what the controller's model provides for (`ImplementsPodController`), and does a verified deletion cost none of the requests that were being handled when it was requested (`VerifiedCoversDeletion`)? | 1.6 million |
| `experiment` | do two invocations and the stop script, ended anywhere, with children that outlive them, run together only where the lock file was removed under one (`OverlapNeedsUnlink`), leave the lock to be had (`LockAvailable`) and nothing on the cluster (`NothingLeftBehind`)? | 2.7 million |

**Bounds.** One pod name: the reconciler of one pod reads and writes nothing of
another's, and kube-rs runs them independently, so pods interact only through crashes,
the clock and the bound on disruptions; the theorems are for any set of pods.

| Constant | `safety` | `liveness` | `name_reuse` | `s2_system` | Why it is enough |
|---|---|---|---|---|---|
| `StartPolicies` | all three | S2 | S2 | S2 | a restart may change the policy; liveness is promised under S2 only (`strategy_switch` shows the rest) |
| `MaxDisruptions` | 1 | 1 | 0 | 1 | one crash or failed or half-failed call, at any point, on top of old snapshots and unanswered polls, which need no budget |
| `MaxBehind` | 1 | 0 | 0 | 0 | versions of the pod that wait on their way to the cache; a cache that misses versions for as long as it likes needs none, one that gets an old one after a newer one was written does |
| `Grace`, `DeleteGraces` | 2, {1, 2} | 1, {1} | 1, {1} | 2, {2} | a deletion may carry a shorter grace period than the spec's; liveness does not depend on which |
| `KillSlack` | 1 | 0 | 0 | 0 | a kubelet that kills late, as late as the assumption allows |
| `OtherFinalizers` | none | one | none | none | it makes a terminating pod outlive its release, and gives an old list something to lose |
| `MaxUid` | 1 | 1 | 2 | 1 | two incarnations are enough for calls that reach the wrong one |
| `IpReuse` | TRUE | FALSE | TRUE | FALSE | with it `HeldPodReleased` fails (`ip_reuse`) |

Time stops at `2 * Grace`, after which every comparison in the code has its final value.
The service has two clients that send again and again, a drain limit of 2 ticks, a
settling time of 1 and a grace period of 4, so that each of the three ends of a drain
comes first in some behaviour. In `s2_system` there is one client, which sends again and
again too, with a drain limit and a settling time of 1 under a grace period of 2, so that
both the service's own end and SIGKILL come first in some behaviour; the drain is on,
since without it the service never answers ready. Two invocations of the experiment are
enough for each of its three properties to come near its limit: one overlaps with the other
after the stop script has removed its file, and each may leave children to the other.
The overlap that a cleanup causes needs three: the run `double_run` has them, without the
stop script, and the theorem any number.

**Fairness.** `PodController`: weak fairness of each worker, of the watch, of the
kubelet's start, status, kill and confirm, of the clock, and of the restart by the
Deployment. The runtime polls every future; every path of the reconciler requeues; the
kubelet retries. Nothing is assumed of users, other owners, SIGTERM handling or the
application. `DrainableService`: handlers end (they sleep at most 10 s, and
`TimeoutLayer` ends them at 30 s), the runtime polls the shutdown task, time
passes (strong fairness of `Tick`, which waits while the shutdown task has something to
do and would otherwise be kept off for ever by requests that come and go); clients and SIGKILL are not relied on.

`CHECK_DEADLOCK FALSE` is set where the system really stops: a pod that is gone for good, a
process that has ended, and an experiment that is over have nothing left to do.

**Faults.** Crashes and restarts of the controller with any policy of `StartPolicies`;
calls that fail, or are applied with their answer lost; polls that are never answered, are
answered too late, break off, or are answered by another pod; a cache that gets
the versions of the pod late, in their order, or misses some of them; handlers dropped at any await; SIGKILL at any time after its deadline, and in
`S2System` the container's death at any time; a script killed without its trap, or interrupted in it,
with children that go on.

## 4. Runs that show a disagreement

Each checks one statement of a document, comment or manifest against the code and TLC
finds it violated. `PROJECT.json` quotes the statement.

| Run | What happens |
|---|---|
| `dead_pod` | the fallback waits a grace period past `deletionTimestamp`, which is already the end of the grace period: a dead pod is held for up to twice what the README says |
| `ip_reuse` | the IP of a dead pod goes to a pod that answers "not ready": the fallback, which needs silence, never fires and deletion blocks |
| `strategy_switch` | a controller restarted as baseline or S1 never removes the finalizers that S2 left |
| `torn_read` | `/drainez` is ready though a request is in flight, because SIGTERM came between its two loads |
| `double_run` | the cleanup lets go of the lock before it removes the file: who takes the lock in between has it on a file that is then unlinked, and the next one locks a new file and runs beside it. The stop script does the same to an experiment that was started after its pkills; `OverlapNeedsUnlink` shows that removing the file is the only way |

`torn_read` does not reach further: the request that the two loads missed started after
the probe did (`ReadyCoversOlder`), and a ready answer that is wrong in this way makes the
controller drop a finalizer while the service goes on to its own end. What was being handled
when the deletion was requested has been finished by then (`VerifiedCoversDeletion`).

Four narrower divergences were met on the way and have no run. A reconcile that works on a
snapshot from before a release that failed writes `draining` over `deletion_allowed`, so the
stored lifecycle goes back, and forward again with the next reconcile (`BackOnlyWhenStale`). An
old reconcile can turn the gate of a terminating pod back on, so a drain may be verified
with the pod in the endpoints, against `policy.rs:103` ("pull traffic before
draining"); `GateDropped` shows that the gate is
turned off again for good. `add_pod_finalizer` writes a whole list built from the cache, so
it can delete or bring back a finalizer of someone else; `ReleaseKeepsOthers` is therefore about the release, which
reads before it writes. `DAT6_DRAIN_MAX_SECS` bounds the shutdown task and not the
process: axum then waits for the handlers that are left, so `DrainEnds` needs handlers
that end.

`NothingLeftBehind` and `LockAvailable` except an invocation whose cleanup was itself
interrupted: the cleanup begins with `trap - EXIT INT TERM`, so a second Ctrl-C ends the
script wherever it is, with the controller or the load still there, and with the log tail
holding the lock on the file that is still at `LOCK_FILE`, so that the next invocation is
refused. `NothingLeftBehind` also excepts a child that acts too late (`late`):
an `ssh` of a killed or interrupted scenario may start k6 when the stop script or the
cleanup has been there, and a `kubectl apply` deploy the controller. The model reaches
all of these.

None of the violations of safety statements contradicts `safety`: an IP given away, an
old snapshot or a failed call can delay or block a deletion, but cannot make it happen
before a verdict, as long as names are not reused. Where they are (`MaxUid = 2`),
`GatedUntilReleased` and `AllowedAnnotationEarned` fail: calls go by name, without the
uid, so a reconcile that has a verdict on the old pod writes its annotation on the new one
and lets it go. The pods of a Deployment have generated names; those of a StatefulSet do
not.

## 5. Proved

All proofs are checked by TLAPS for every value of the constants that the named
assumptions allow. `BoundAssumption` and `NamesAssumption` only say that the constants are
of their kind. `GraceAssumption` says more: `KillSlack < Grace`, the kubelet kills within
one grace period of the deadline. `ConstantsAssumption` of `S2System` is that of its two
components. `MaxUid = 1` is an assumption of the theorems that speak
of which pod a call reaches (`HeldUntilReleased`, `ActivePodIsKept`,
`AllowedAnnotationIsEarned`, `ReleaseSparesOthers`, `ControllerIsAGate`); section 4 says why
they need it.

| Theorem | Statement | Argument |
|---|---|---|
| `DecommissionFsmTheorems!AnnotationRoundTrip` | what is read back is what was written | the table of values is one-to-one on the states that are stored |
| `DecommissionDriverProofs!TypeCorrect`, `LifecycleGoesBackOnlyWhenStale`, `AllowedIsGrounded` | `TypeOK`, `BackOnlyWhenStale`, `AllowedNeedsEvidence` | by the edges of the table, with `WorkerKnows` and `Grounded` |
| `PodControllerProofs!TypeCorrect` | `TypeOK` | one lemma per action |
| `PodControllerProofs!HeldUntilReleased` | `GatedUntilReleased` | `ReleaseEarned` |
| `PodControllerVerdicts!ForcedReleaseIsSafe` | `ForcedOnlyAfterKill` | `ContainerSound`, `SnapshotsSound`, `VerdictSound` |
| `PodControllerVerdicts!VerifiedReleaseIsSafe` | `VerifiedOnlyAfterSigterm` | the same |
| `PodControllerVerdicts!ActivePodIsKept` | `NeverReleasesActivePod` | the same |
| `PodControllerVerdicts!AllowedAnnotationIsEarned` | `AllowedAnnotationEarned` | the same, with `AnnotationSound` |
| `PodControllerGate!ReleaseSparesOthers` | `ReleaseKeepsOthers` | `ListSound`, and what other owners may still do to a terminating pod |
| `PodControllerGate!ControllerIsAGate` | `ImplementsGate` | a simulation, pod by pod, on all of the above |
| `DrainableServiceProofs!TypeCorrect`, `CounterIsExact` | `TypeOK`, `CounterExact` | only together: the exact count bounds the counter on both sides |
| `DrainableServiceProofs!ReadyCovers` | `ReadyCoversOlder` | `Covered`, with the exact counter |
| `S2SystemProofs!S2IsAPodController` | `ImplementsPodController` | a simulation, under `S2Inv` |
| `S2SystemProofs!S2KeepsItsPromises` | `GatedUntilReleased`, `ForcedOnlyAfterKill`, `VerifiedOnlyAfterSigterm` and `AllowedAnnotationEarned`, of S2 as deployed | inherited through the refinement |
| `S2SystemProofs!S2IsADeletionGate` | `ImplementsGate`, of S2 as deployed | two refinements, one after the other |
| `S2SystemProofs!VerifiedCostsNoRequest` | `VerifiedCoversDeletion` | `S2Inv`: `OwedKept`, with `Counting` and `Covered` of the service |
| `ExperimentRunnerProofs!TypeCorrect`, `OverlapOnlyByUnlinking`, `LockIsLeftFree`, `ClusterIsLeftClean` | `TypeOK`, `OverlapNeedsUnlink`, `LockAvailable`, `NothingLeftBehind` | `LockInv`, `FileInv`, `ClusterInv` |

**The lifecycle.** No edge of the table goes back, but a write may: it stores what follows
from a state read earlier. `WorkerKnows` says that the state in a reconcile's memory
is the one it read or last wrote, so where that is still the stored one the write goes
forward. `Grounded` says of every value the annotation ever had that the events that lead to
it were observed; it has to speak of all of them, because the cache may hand an old one
to the next reconcile.

**The gate.** `GatedUntilReleased` is not inductive: a worker about to write a list
without the finalizer would break it. `ReleaseEarned` says that a worker whose next call is
`persistAllowed`, `getPod` or `releaseFinalizer` has a verdict on the pod of its snapshot.
It is kept because only a poll leads there (`DecideNotReleasing`,
`OnErrorNotReleasing`), and verdicts stay. A list written by `addFinalizer` has the
finalizer in it, so an old snapshot cannot take it off.

**The verdicts.** The argument goes from the outside in, and each part needs the one
before it.

1. `ContainerSound` is about the cluster alone. A container that runs on a terminating pod
   has `elapsed <= delGrace + KillSlack` (the clock waits for `Kill`), with the grace period
   that its deletion asked for; an active pod has an
   elapsed time of 0 and a process that nobody has told to stop, and an IP is reused only when the
   container is off.
2. `SnapshotsSound` says what remains true of an old snapshot: a deletion it shows was
   asked for and is not undone, and the grace period it shows is not shorter than the
   present one (`Confirm` brings it to zero), as far as the snapshot is of the
   incarnation that is there. So a stale `deletionTimestamp` can only
   make the fallback later. The versions that are still on their way to the cache are
   as sound as the cache (`CopiesSound`). And only snapshots of terminating pods are polled or
   released.
3. `VerdictSound` is then right when the verdict is passed: past `delGrace + Grace`, by
   `KillSlack < Grace`, the container is off; a ready answer comes from a drained process,
   or from the new owner of an IP whose old owner is off. It stays right because a
   terminating pod starts no container and no process goes back to serving. Each
   verdict is about one incarnation, and a new one under the same name has none, so this
   holds however often names are used again.
4. `AnnotationSound` adds that `deletion_allowed` at the API server, in the cache, on its way to it or in a
   worker's state comes with a verdict. All are needed: the value travels from one
   to the next, and an old worker may write it again.

`ActivePodIsKept` follows from 2 and 3: the release is reached with a verdict, and a pod
with a verdict is terminating.

**The release.** `remove_pod_finalizer` writes a list that it read, without a precondition,
so another owner's finalizer that came in between would be lost. It cannot come: the pod
of a release is terminating (`SnapshotsSound`, `VerdictSound`), and a terminating object
takes no new finalizer. `ListSound` says so of the worker: between its GET and its
write, the pod's list without ours is within what it read. Another owner may have taken its
own off meanwhile; then the write would bring that back, and the API server refuses it for
the same reason, so the list written is the pod's own without ours.

**The refinement.** `ControllerIsAGate` is a forward simulation under the invariant
`TypeOK`, `ContainerSound`, `SnapshotsSound`, `VerdictSound`, `ReleaseEarned` and
`AbsentEmpty` (a name without an object carries no finalizer), gathered for one pod in
`PodFacts`.
A step of the controller changes four functions of the pods at once, and one of the gate
changes one pod, so the proof goes in two stages. First one pod alone: a step that leaves
its verdict and its finalizer as they were is a step of its container, its deletion or its
end (`QuietPodStep`); one that does not is `Protect`, `Allow` or `Release`
(`LoudPodStep`, by `GainsProtection` and `LosesProtection`). `Crash`, `Restart` and `Tick` touch no
pod object. Then `OneAtATime`: at most one pod is changed by a step, and `PodStepLifted`
makes the step of that pod one of the gate. The verdict and the release are never in one step, because a
release needs a verdict that was passed before it: that is where `ReleaseEarned` is used.

**What a ready answer covers.** `ReadyCoversOlder` is not inductive: the probe remembers a
count, not which requests. `Covered` says that while the probe's count is zero none of the
requests that were in flight when it began is still handled; it starts to hold at the first
load, where the counter is exact, and is kept because a client that has its answer and sends
again is a new request, not one of the older ones.

**S2 as deployed.** A step of `S2System` is one of `PodController` for the `proc` computed
from the service. Most of it is a matter of which state the container is in
(`StateOfContainer`): the service's own steps are stutters, but for its end, which is an
`Exit`. The poll is the hard part. That its answer is one of `PollOutcomes` needs two
things: the service works on a poll only while the controller waits for it
(`PollServed`), and the pod polled is the pod that is there (`PolledPodIsThis`, from the types
and the sound snapshots of `PodController`). The latter are invariants of
`PodController` and come over only by the refinement that they are needed for, so
`S2Inv` has both and is kept one step at a time: under it a step is one of `PodController`,
so `TypeStep` and `VerdictsStep` of its proofs apply to the next state, and nothing of
them is proved again. The same is done with the service: its `Counting` and `Covered` are
kept by each of its own steps, by polls that break off and by a container that starts afresh
(`ServiceSound`).

`VerifiedCoversDeletion` needs `OwedKept`: while the container runs, what is owed is being
handled, and was already when the poll under way arrived. So a count of zero at the
first load, which is exact, and `Covered` after it leave nothing owed when the answer is ready
(`VerifiedByAnswer`). It is kept by the death of the container because a pod that is
terminating gets no other one, so nobody answers for it any more, and by a start because
nothing is owed of an active pod.

**The experiments.** None of the three properties is inductive. `LockInv` relates the lock to
whoever is between its taking and its end, or to the children that a killed invocation or an
interrupted cleanup left behind, and no two of them have the same file. `FileInv` says which
file is at `LOCK_FILE`: none that a killed invocation had open, once the stop script is
through, so the next one gets its lock; and, as long as it was not removed under anybody, the
one that everybody who runs has open, so two inside would have locked the same.
`ClusterInv` names who is still to take down the controller and the load, unless a child has
acted too late.

## 6. Only model-checked

- Liveness (`HeldPodReleased`, `RunningPodProtected`, `ReadySettles`, `GateDropped`,
  `DrainEnds`): the provers have no rule for fairness and ENABLED here.


## 7. Not modelled, and assumed

- Node failures and partitions: a kubelet that stops while its container runs on, or that
  confirms the end of a container that still runs (force deletion). `KillSlack < Grace`
  assumes a kubelet that kills within a grace period of the deadline; the fallback is
  unsafe without it.
- Clock skew between the API server, whose clock sets `deletionTimestamp`, and the
  controller, whose clock is compared with it.
- A second deletion request with a shorter grace period, and a grace period of zero.
- Requeue delays, the HTTP timeout, rate limits: any delay is possible, so nothing
  depends on their values.
- Two controllers at once: `replicas: 1` and `Recreate` in
  `k8s/controller/base/deployment.yaml` are taken as given.
- In `PodController` a container restart (`restartPolicy: Always` after a crash of an active pod)
  leaves the pod object as it is and is an `Exit` followed by `StartContainer`. In `S2System` a
  container that fails its `livenessProbe` dies at once: the SIGTERM and the drain that come before
  are left out while the pod is active.
- Connections that axum has accepted and not served when it shuts down: `Refuse` takes every
  outcome as possible.
- SIGINT, which the service treats as SIGTERM.
- `reconcile_deployment` and `reconcile_statefulset` (`controller.rs` 476-553): they log and
  requeue. The metrics, the health server and `/healthz`, `/readyz`, `/metrics` of the service:
  nothing in the system reads what they report.
- Of the experiment: the deployment of the service and its manifests, the check of the
  environment and the collection of results. A call to the cluster or to the load host that fails
  leaves things as they are. The pkills of the stop script are one step, and it runs once at a time;
  children of the same kind are one (`jobs` is a set of kinds).
- The endpoints of the Service: `ReadySettles` and `GateDropped` are about the pod's `Ready`
  condition and its gate, and `S2System` lets clients reach the service as long as it
  accepts.

## 8. Plan

Order of work, the most important behaviour first; what is done is marked.

1. (done) `DecommissionFsm`, `PolicyEngine`, `DecommissionDriver`: the pure parts.
2. (done) `PodController` with its runs; its safety properties proved for names used once.
3. (done) `DrainableService` with its runs; its safety properties proved.
4. (done) `DeletionGate`, and `PodController` shown to implement it, by TLC and by proof.
5. (done) `S2System`: controller and service composed, refining `PodController`.
6. (done) `ExperimentRunner`: the lock, the cleanup and the stop script.
7. The Service endpoints in `S2System`, with a client that follows them with a delay: which
   requests are refused under which strategy.
8. `ControllerRollout`: the controller's own pod runs in the namespace it watches, so S2
   also puts its finalizer on the controller's pod; what a `Recreate` rollout does then.
9. (done) `S2System` and `ExperimentRunner` proved, and the two facts about the container for
   any number of incarnations.
10. (done) The counter and the coverage of the service inside `S2System`, under polls that break
    off and containers that start again.
