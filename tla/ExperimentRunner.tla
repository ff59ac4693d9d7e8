--------------------------- MODULE ExperimentRunner ---------------------------
(***************************************************************************)
(* Who may run an experiment on the cluster: scripts/run_all_auto.sh with  *)
(* its lock and its cleanup trap, the background jobs of run_scenario.sh,  *)
(* and scripts/stop_experiment.sh, which kills them all and cleans up.     *)
(*                                                                         *)
(* A flock belongs to an open file, shared by the processes that inherited *)
(* it: every child of run_all_auto.sh has its 200.  The file at LOCK_FILE  *)
(* may be unlinked while somebody has it open.                             *)
(*                                                                         *)
(* Abstractions.                                                           *)
(*   - The loop over strategies and scenarios is any number of rounds.     *)
(*   - A call to the cluster or to the load host that fails leaves things  *)
(*     as they are.                                                        *)
(*   - The jobs of an invocation are a set of kinds; "watch" is the event  *)
(*     and the pod watch, "wait" a call that changes nothing here.         *)
(*   - The pkills of stop_experiment.sh are one step, and one stop script  *)
(*     runs at a time; anybody may start an experiment meanwhile.          *)
(*                                                                         *)
(* Variables.                                                              *)
(*   pc[i]       where an invocation of run_all_auto.sh is                 *)
(*   path        the file at LOCK_FILE, named after who created it         *)
(*   fd[i]       the file that invocation i has open as 200                *)
(*   locked      the invocations whose open file holds the lock            *)
(*   jobs[i]     the children of i in the background, and once i was       *)
(*               killed the call that it was waiting for                   *)
(*   controller  dat6-controller is deployed                               *)
(*   k6          the invocations whose k6 runs on the load host            *)
(*   stop        where stop_experiment.sh is                               *)
(* and, as history,                                                        *)
(*   unlinked    LOCK_FILE was removed while a running invocation other    *)
(*               than the remover had that file open                       *)
(*   late        a child that outlived its script deployed or started      *)
(*               something when nobody was to look for it any more         *)
(***************************************************************************)
EXTENDS Naturals, FiniteSets

CONSTANTS
    Invocations,
    Stoppable     \* whether anybody uses stop_experiment.sh

VARIABLES pc, path, fd, locked, jobs, controller, k6, stop, unlinked, late

vars == <<pc, path, fd, locked, jobs, controller, k6, stop, unlinked, late>>

files   == <<path, fd, unlinked>>
cluster == <<controller, k6, late>>

NoFile == "none"
Files  == Invocations \cup {NoFile}

ASSUME NamesAssumption == NoFile \notin Invocations /\ Stoppable \in BOOLEAN

Rounds   == {"matrix", "applied", "deployed", "watching", "loading", "stopping"}
Cleaning == {"exiting", "untailed", "undeployed", "unloaded"}

\* From the lock taken to the lock let go.
Inside == {"locked"} \cup Rounds \cup Cleaning

Ended == {"aborted", "done", "interrupted", "killed"}

Running(i) == pc[i] \notin {"new"} \cup Ended

Jobs == {"tail", "watch", "ssh", "session", "apply", "delete", "unload", "wait"}

Init ==
    /\ pc = [i \in Invocations |-> "new"]
    /\ path = NoFile
    /\ fd = [i \in Invocations |-> NoFile]
    /\ locked = {}
    /\ jobs = [i \in Invocations |-> {}]
    /\ controller = FALSE
    /\ k6 = {}
    /\ stop = "idle"
    /\ unlinked = FALSE
    /\ late = FALSE

Goto(i, from, to) == pc[i] = from /\ pc' = [pc EXCEPT ![i] = to]

-----------------------------------------------------------------------------
(***************************************************************************)
(* run_all_auto.sh: the lock.                                              *)
(***************************************************************************)

\* Mutant: the file is opened for reading, and so not created.
OpenForReading(i) ==
    /\ Goto(i, "new", "opened")
    /\ fd' = [fd EXCEPT ![i] = path]
    /\ UNCHANGED <<path, unlinked, locked, jobs, cluster, stop>>

\* exec 200> creates the file if there is none.
Open(i) ==
    /\ Goto(i, "new", "opened")
    /\ path' = IF path = NoFile THEN i ELSE path
    /\ fd' = [fd EXCEPT ![i] = path']
    /\ UNCHANGED <<unlinked, locked, jobs, cluster, stop>>

Taken(file) == \E j \in locked : fd[j] = file

\* Mutant: the lock is not asked for.
TryLockUnlocked(i) ==
    /\ Goto(i, "opened", "locked")
    /\ locked' = locked \cup {i}
    /\ UNCHANGED <<files, jobs, cluster, stop>>

TryLock(i) ==
    /\ IF Taken(fd[i])
       THEN Goto(i, "opened", "aborted") /\ UNCHANGED locked
       ELSE Goto(i, "opened", "locked") /\ locked' = locked \cup {i}
    /\ UNCHANGED <<files, jobs, cluster, stop>>

\* The trap is set a few commands after the lock was taken.
SetTrap(i) ==
    /\ Goto(i, "locked", "matrix")
    /\ UNCHANGED <<files, locked, jobs, cluster, stop>>

ExitBeforeTrap(i) ==
    /\ pc[i] \in {"opened", "locked"}
    /\ pc' = [pc EXCEPT ![i] = "aborted"]
    /\ locked' = locked \ {i}
    /\ UNCHANGED <<files, jobs, cluster, stop>>

-----------------------------------------------------------------------------
(***************************************************************************)
(* The matrix: deploy the controller, load the service, undeploy.          *)
(***************************************************************************)

\* kubectl apply; its rollout is waited for next, and may fail.
ApplyController(i) ==
    /\ Goto(i, "matrix", "applied")
    /\ controller' = TRUE
    /\ UNCHANGED <<files, locked, jobs, k6, late, stop>>

StartJob(i, job) == jobs' = [jobs EXCEPT ![i] = @ \cup {job}]

StartTail(i) ==
    /\ Goto(i, "applied", "deployed")
    /\ StartJob(i, "tail")
    /\ UNCHANGED <<files, locked, cluster, stop>>

\* run_scenario.sh starts its watches before it sets its trap.
StartWatch(i) ==
    /\ Goto(i, "deployed", "watching")
    /\ StartJob(i, "watch")
    /\ UNCHANGED <<files, locked, cluster, stop>>

StartLoad(i) ==
    /\ Goto(i, "watching", "loading")
    /\ StartJob(i, "ssh")
    /\ UNCHANGED <<files, locked, cluster, stop>>

\* The scenario waits for k6, unless Ctrl-C ends that wait: then its trap has
\* killed k6, and it goes on.
EndScenario(i) ==
    /\ Goto(i, "loading", "deployed")
    /\ \/ jobs[i] \cap {"ssh", "session"} = {} /\ UNCHANGED k6
       \/ k6' = {}
    /\ jobs' = [jobs EXCEPT ![i] = @ \ {"watch"}]
    /\ UNCHANGED <<files, locked, controller, late, stop>>

\* Of stop_controller, or of the cleanup.
KillTail(i) ==
    /\ Goto(i, "deployed", "stopping") \/ Goto(i, "exiting", "untailed")
    /\ jobs' = [jobs EXCEPT ![i] = @ \ {"tail"}]
    /\ UNCHANGED <<files, locked, cluster, stop>>

DeleteController(i) ==
    /\ Goto(i, "stopping", "matrix") \/ Goto(i, "untailed", "undeployed")
    /\ controller' = FALSE
    /\ UNCHANGED <<files, locked, jobs, k6, late, stop>>

\* The scenario's trap: its watches are killed, and every k6.
ScenarioTrap(i) ==
    /\ jobs' = [jobs EXCEPT ![i] = @ \ {"watch"}]
    /\ k6' = {}

\* Mutant: an error after the rollout does not lead to the cleanup.
LeaveOnError(i) ==
    /\ pc[i] \in Rounds
    /\ pc' = [pc EXCEPT ![i] = IF pc[i] = "applied" THEN "done" ELSE "exiting"]
    /\ IF pc[i] = "loading" THEN ScenarioTrap(i) ELSE UNCHANGED <<jobs, k6>>
    /\ locked' = IF pc[i] = "applied" THEN locked \ {i} ELSE locked
    /\ UNCHANGED <<files, controller, late, stop>>

\* The end of the matrix, an error, Ctrl-C or SIGTERM, in any round.
Leave(i) ==
    /\ pc[i] \in Rounds
    /\ pc' = [pc EXCEPT ![i] = "exiting"]
    /\ IF pc[i] = "loading" THEN ScenarioTrap(i) ELSE UNCHANGED <<jobs, k6>>
    /\ UNCHANGED <<files, locked, controller, late, stop>>

-----------------------------------------------------------------------------
(***************************************************************************)
(* run_all_auto.sh: the rest of the cleanup trap.                          *)
(***************************************************************************)

KillK6(i) ==
    /\ Goto(i, "undeployed", "unloaded")
    /\ k6' = {}
    /\ UNCHANGED <<files, locked, jobs, controller, late, stop>>

\* flock -u lets go of the lock whoever else has the file open.
Unlock(i) ==
    /\ Goto(i, "unloaded", "unlocked")
    /\ locked' = locked \ {i}
    /\ UNCHANGED <<files, jobs, cluster, stop>>

\* Whatever file is there by now, and whoever uses it.
Unlink ==
    /\ path' = NoFile
    /\ unlinked' = (unlinked \/ \E j \in Invocations : Running(j)' /\ fd[j] = path)
    /\ UNCHANGED fd

RemoveLockFile(i) ==
    /\ Goto(i, "unlocked", "done")
    /\ Unlink
    /\ UNCHANGED <<locked, jobs, cluster, stop>>

\* What a script that is killed may leave running: the call it waited for.
Call(i) ==
    CASE pc[i] = "matrix"                   -> "apply"
      [] pc[i] \in {"stopping", "untailed"} -> "delete"
      [] pc[i] = "undeployed"               -> "unload"
      [] OTHER                              -> "wait"

\* A second Ctrl-C or SIGTERM: the first thing the cleanup did was to reset the
\* traps.  The lock stays with the children that have the file open.
Interrupt(i) ==
    /\ pc[i] \in Cleaning \cup {"unlocked"}
    /\ pc' = [pc EXCEPT ![i] = "interrupted"]
    /\ UNCHANGED jobs \/ StartJob(i, Call(i))
    /\ locked' = IF jobs'[i] = {} THEN locked \ {i} ELSE locked
    /\ UNCHANGED <<files, cluster, stop>>

-----------------------------------------------------------------------------
(***************************************************************************)
(* The children, as long as they last.                                     *)
(***************************************************************************)

\* A file that no process has open any more is not locked.
JobGone(i, job) ==
    /\ jobs' = [jobs EXCEPT ![i] = @ \ {job}]
    /\ locked' = IF Running(i) \/ jobs'[i] # {} THEN locked ELSE locked \ {i}

JobEnds(i) ==
    /\ \E job \in jobs[i] : ~(job = "session" /\ i \in k6) /\ JobGone(i, job)
    /\ UNCHANGED <<pc, files, cluster, stop>>

\* The cleanup of i or the stop script is still to kill k6.
K6IsLookedFor(i) ==
    \/ pc[i] \in Rounds \cup {"exiting", "untailed", "undeployed"}
    \/ stop \in {"pkilled", "undeployed"}

\* The ssh in the background may take its time, and outlive its script.
K6Starts(i) ==
    /\ "ssh" \in jobs[i]
    /\ jobs' = [jobs EXCEPT ![i] = (@ \ {"ssh"}) \cup {"session"}]
    /\ k6' = k6 \cup {i}
    /\ late' = (late \/ ~K6IsLookedFor(i))
    /\ UNCHANGED <<pc, files, locked, controller, stop>>

K6Ends(i) ==
    /\ i \in k6
    /\ k6' = k6 \ {i}
    /\ UNCHANGED <<pc, files, locked, jobs, controller, late, stop>>

\* A call that was left running takes effect.
OrphanActs(i) ==
    /\ \/ /\ "apply" \in jobs[i] /\ JobGone(i, "apply")
          /\ controller' = TRUE
          /\ late' = (late \/ stop # "pkilled")
          /\ UNCHANGED k6
       \/ /\ "delete" \in jobs[i] /\ JobGone(i, "delete")
          /\ controller' = FALSE
          /\ UNCHANGED <<k6, late>>
       \/ /\ "unload" \in jobs[i] /\ JobGone(i, "unload")
          /\ k6' = {}
          /\ UNCHANGED <<controller, late>>
    /\ UNCHANGED <<pc, files, stop>>

-----------------------------------------------------------------------------
(***************************************************************************)
(* stop_experiment.sh.                                                     *)
(***************************************************************************)

\* SIGKILL for the scripts, the log tails and the event watches; the pod
\* watch, ssh and the call in progress match no pattern.
Pkill ==
    /\ Stoppable
    /\ stop = "idle"
    /\ stop' = "pkilled"
    /\ pc' = [i \in Invocations |-> IF Running(i) THEN "killed" ELSE pc[i]]
    /\ \E leaving \in SUBSET {i \in Invocations : Running(i)} :
          jobs' = [i \in Invocations |->
                     (jobs[i] \ {"tail"}) \cup IF i \in leaving THEN {Call(i)} ELSE {}]
    /\ locked' = {i \in locked : jobs'[i] # {}}
    /\ UNCHANGED <<files, cluster>>

StopDeletesController ==
    /\ stop = "pkilled"
    /\ stop' = "undeployed"
    /\ controller' = FALSE
    /\ UNCHANGED <<pc, files, locked, jobs, k6, late>>

StopKillsK6 ==
    /\ stop = "undeployed"
    /\ stop' = "unloaded"
    /\ k6' = {}
    /\ UNCHANGED <<pc, files, locked, jobs, controller, late>>

\* Mutant: the file is left, for the end of the processes unlocks it.
StopKeepsLockFile ==
    /\ stop = "unloaded"
    /\ stop' = "idle"
    /\ UNCHANGED <<pc, files, locked, jobs, cluster>>

StopRemovesLockFile ==
    /\ stop = "unloaded"
    /\ stop' = "idle"
    /\ UNCHANGED <<pc, locked, jobs, cluster>>
    /\ Unlink

-----------------------------------------------------------------------------

RunAll(i) ==
    \/ Open(i)
    \/ TryLock(i)
    \/ SetTrap(i)
    \/ ExitBeforeTrap(i)
    \/ ApplyController(i)
    \/ StartTail(i)
    \/ StartWatch(i)
    \/ StartLoad(i)
    \/ EndScenario(i)
    \/ KillTail(i)
    \/ DeleteController(i)
    \/ Leave(i)
    \/ KillK6(i)
    \/ Unlock(i)
    \/ RemoveLockFile(i)
    \/ Interrupt(i)

Child(i) ==
    \/ JobEnds(i)
    \/ K6Starts(i)
    \/ K6Ends(i)
    \/ OrphanActs(i)

Stop ==
    \/ Pkill
    \/ StopDeletesController
    \/ StopKillsK6
    \/ StopRemovesLockFile

Next ==
    \/ \E i \in Invocations : RunAll(i) \/ Child(i)
    \/ Stop

Spec == Init /\ [][Next]_vars

-----------------------------------------------------------------------------
(***************************************************************************)
(* Properties.                                                             *)
(***************************************************************************)

\* Every variable keeps to its domain, and a lock is one on an open file.
TypeOK ==
    /\ pc \in [Invocations -> {"new", "opened", "unlocked"} \cup Inside \cup Ended]
    /\ path \in Files
    /\ fd \in [Invocations -> Files]
    /\ locked \subseteq {i \in Invocations : fd[i] # NoFile}
    /\ jobs \in [Invocations -> SUBSET Jobs]
    /\ controller \in BOOLEAN
    /\ k6 \subseteq Invocations
    /\ stop \in {"idle", "pkilled", "undeployed", "unloaded"}
    /\ unlinked \in BOOLEAN
    /\ late \in BOOLEAN

\* "A second invocation aborts immediately instead of racing the cluster"
\* (scripts/run_all_auto.sh): no two are between taking the lock and letting
\* it go, the cleanup of one included.
OneMatrixAtATime == Cardinality({i \in Invocations : pc[i] \in Inside}) <= 1

\* What is left of that promise: two run together only when LOCK_FILE was
\* removed under a running invocation, by another's cleanup or by the stop
\* script.  No child that keeps or drops the lock, and no end of the scripts
\* that skips the removal, makes them (run_all_auto.sh, stop_experiment.sh).
OverlapNeedsUnlink == OneMatrixAtATime \/ unlinked

Quiet == stop = "idle" /\ \A i \in Invocations : ~Running(i)

\* When nothing runs any more the next invocation gets the lock, even if a
\* child of a killed one still holds the old file locked, unless an
\* interrupted cleanup has left a child behind (cleanup, stop_experiment.sh).
LockAvailable ==
    Quiet /\ Taken(path) =>
        \E i \in Invocations : pc[i] = "interrupted" /\ jobs[i] # {} /\ fd[i] = path

\* On whatever path an experiment ended, neither its controller nor its load
\* is left on the cluster, unless its cleanup was itself interrupted or a
\* child acted after the last one had looked (cleanup, stop_experiment.sh).
NothingLeftBehind ==
    Quiet /\ (\A i \in Invocations : pc[i] # "interrupted") /\ ~late
        => ~controller /\ k6 = {}

=============================================================================
