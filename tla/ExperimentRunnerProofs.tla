------------------------ MODULE ExperimentRunnerProofs ------------------------
(***************************************************************************)
(* The properties of ExperimentRunner, proved for any number of            *)
(* invocations.  Three facts carry them: who holds a lock and on which     *)
(* file (LockInv), which files are still at LOCK_FILE (FileInv), and who   *)
(* is left to clean up the cluster (ClusterInv).                           *)
(***************************************************************************)
EXTENDS ExperimentRunner, FiniteSetTheorems, TLAPS

\* A file is locked once at most.  Whoever is inside holds a lock; so may the
\* children that a killed one or an interrupted cleanup left, and nobody else.
LockInv ==
    /\ \A i \in Invocations :
          /\ pc[i] # "new" => fd[i] # NoFile
          /\ pc[i] \in Inside => i \in locked
          /\ i \in locked =>
                pc[i] \in Inside \/ (pc[i] \in {"killed", "interrupted"} /\ jobs[i] # {})
    /\ \A i, j \in locked : fd[i] = fd[j] => i = j

\* A file is named after an invocation that has created it.  What a killed
\* invocation had open is not at LOCK_FILE any more once the stop script is
\* through; and until it is removed under somebody, LOCK_FILE is the file that
\* everybody who runs has open.
FileInv ==
    /\ \A i \in Invocations :
          /\ pc[i] = "new" => path # i /\ \A j \in Invocations : fd[j] # i
          /\ pc[i] = "killed" /\ stop = "idle" => fd[i] # path
    /\ ~unlinked => \A i \in Invocations : Running(i) => fd[i] = path

\* Somebody is still to delete the controller and to kill k6, or was
\* interrupted before it, or a child acted too late for them.
ClusterInv ==
    late \/
    /\ controller =>
          \/ stop = "pkilled"
          \/ \E i \in Invocations :
                pc[i] \in (Rounds \ {"matrix"}) \cup {"exiting", "untailed", "interrupted"}
    /\ \A i \in k6 : K6IsLookedFor(i) \/ pc[i] = "interrupted"

-----------------------------------------------------------------------------

\* A step of one invocation keeps the types.
LEMMA RunAllType ==
    ASSUME TypeOK, LockInv, NEW i \in Invocations, RunAll(i)
    PROVE  TypeOK'
<1> USE NamesAssumption
    DEF TypeOK, Files, Inside, Rounds, Cleaning, Ended, NoFile, Jobs
<1>1. CASE Open(i)
  BY <1>1 DEF Open, Goto, cluster
<1>2. CASE TryLock(i)
  BY <1>2 DEF TryLock, Goto, files, cluster, LockInv
<1>3. CASE SetTrap(i) \/ ExitBeforeTrap(i) \/ Unlock(i)
  BY <1>3 DEF SetTrap, ExitBeforeTrap, Unlock, Goto, files, cluster
<1>4. CASE ApplyController(i) \/ DeleteController(i) \/ KillK6(i)
  BY <1>4 DEF ApplyController, DeleteController, KillK6, Goto, files
<1>5. CASE StartTail(i) \/ StartWatch(i) \/ StartLoad(i) \/ KillTail(i)
  BY <1>5 DEF StartTail, StartWatch, StartLoad, KillTail, StartJob, Goto, files, cluster
<1>6. CASE EndScenario(i) \/ Leave(i)
  BY <1>6 DEF EndScenario, Leave, ScenarioTrap, Goto, files
<1>7. CASE RemoveLockFile(i)
  BY <1>7 DEF RemoveLockFile, Unlink, Goto, cluster
<1>8. CASE Interrupt(i)
  <2>1. Call(i) \in Jobs
    BY DEF Call
  <2> QED
    BY <1>8, <2>1 DEF Interrupt, StartJob, files, cluster
<1> QED
  BY <1>1, <1>2, <1>3, <1>4, <1>5, <1>6, <1>7, <1>8 DEF RunAll

\* A step of a child keeps the types.
LEMMA ChildType ==
    ASSUME TypeOK, NEW i \in Invocations, Child(i)
    PROVE  TypeOK'
<1> USE DEF TypeOK, Files, Jobs
<1>1. CASE JobEnds(i)
  BY <1>1 DEF JobEnds, JobGone, files, cluster
<1>2. CASE K6Starts(i)
  BY <1>2 DEF K6Starts, K6IsLookedFor, files
<1>3. CASE K6Ends(i)
  BY <1>3 DEF K6Ends, files
<1>4. CASE OrphanActs(i)
  BY <1>4 DEF OrphanActs, JobGone, files
<1> QED
  BY <1>1, <1>2, <1>3, <1>4 DEF Child

\* A step of the stop script keeps the types.
LEMMA StopType ==
    ASSUME TypeOK, Stop
    PROVE  TypeOK'
<1> USE DEF TypeOK, Files
<1>1. CASE Pkill
  <2>1. \A i \in Invocations : Call(i) \in Jobs
    BY DEF Call, Jobs
  <2> QED
    BY <1>1, <2>1 DEF Pkill, files, cluster, Ended
<1>2. CASE StopDeletesController \/ StopKillsK6
  BY <1>2 DEF StopDeletesController, StopKillsK6, files
<1>3. CASE StopRemovesLockFile
  BY <1>3 DEF StopRemovesLockFile, Unlink, cluster
<1> QED
  BY <1>1, <1>2, <1>3 DEF Stop

-----------------------------------------------------------------------------
(***************************************************************************)
(* The lock.                                                               *)
(***************************************************************************)

\* Nobody takes a lock that is held, and nobody is inside without one.
LEMMA LockStep ==
    ASSUME TypeOK, LockInv, [Next]_vars
    PROVE  LockInv'
<1> USE DEF TypeOK, LockInv, Inside, Rounds, Cleaning, Ended
<1>1. ASSUME NEW i \in Invocations, RunAll(i)
      PROVE  LockInv'
  <2>1. CASE Open(i)
    <3>1. path' # NoFile
      BY <2>1, NamesAssumption DEF Open
    <3> QED
      BY <2>1, <3>1 DEF Open, Goto
  <2>2. CASE TryLock(i)
    BY <2>2 DEF TryLock, Goto, Taken, files
  <2>3. CASE SetTrap(i) \/ ExitBeforeTrap(i) \/ Unlock(i)
    BY <2>3 DEF SetTrap, ExitBeforeTrap, Unlock, Goto, files
  <2>4. CASE ApplyController(i) \/ DeleteController(i) \/ KillK6(i)
    BY <2>4 DEF ApplyController, DeleteController, KillK6, Goto, files
  <2>5. CASE StartTail(i) \/ StartWatch(i) \/ StartLoad(i) \/ KillTail(i)
    BY <2>5 DEF StartTail, StartWatch, StartLoad, KillTail, StartJob, Goto, files
  <2>6. CASE EndScenario(i) \/ Leave(i)
    BY <2>6 DEF EndScenario, Leave, ScenarioTrap, Goto, files
  <2>7. CASE RemoveLockFile(i)
    BY <2>7 DEF RemoveLockFile, Unlink, Goto
  <2>8. CASE Interrupt(i)
    BY <2>8 DEF Interrupt, StartJob, files
  <2> QED
    BY <1>1, <2>1, <2>2, <2>3, <2>4, <2>5, <2>6, <2>7, <2>8 DEF RunAll
<1>2. ASSUME NEW i \in Invocations, Child(i)
      PROVE  LockInv'
  <2>1. CASE JobEnds(i)
    BY <2>1 DEF JobEnds, JobGone, Running, files
  <2>2. CASE K6Starts(i) \/ K6Ends(i)
    BY <2>2 DEF K6Starts, K6Ends, files
  <2>3. CASE OrphanActs(i)
    BY <2>3 DEF OrphanActs, JobGone, Running, files
  <2> QED
    BY <1>2, <2>1, <2>2, <2>3 DEF Child
<1>3. CASE Pkill
  BY <1>3 DEF Pkill, Running, files
<1>4. CASE StopDeletesController \/ StopKillsK6 \/ StopRemovesLockFile
  BY <1>4 DEF StopDeletesController, StopKillsK6, StopRemovesLockFile, Unlink, files
<1>5. CASE UNCHANGED vars
  BY <1>5 DEF vars
<1> QED
  BY <1>1, <1>2, <1>3, <1>4, <1>5 DEF Next, Stop

\* A file comes to LOCK_FILE with a new name and goes for good.
LEMMA FileStep ==
    ASSUME TypeOK, LockInv, FileInv, [Next]_vars
    PROVE  FileInv'
<1> USE DEF TypeOK, FileInv, Running, Ended
<1>1. ASSUME NEW i \in Invocations, RunAll(i)
      PROVE  FileInv'
  <2>1. CASE Open(i)
    <3>1. path' \in {i, path} /\ path' # NoFile /\ (path # NoFile => path' = path)
      BY <2>1, NamesAssumption DEF Open
    <3>2. path = NoFile /\ ~unlinked => \A j \in Invocations : ~Running(j)
      BY DEF LockInv
    <3> QED
      BY <2>1, <3>1, <3>2 DEF Open, Goto, LockInv
  <2>2. CASE TryLock(i) \/ SetTrap(i) \/ ExitBeforeTrap(i)
    BY <2>2 DEF TryLock, SetTrap, ExitBeforeTrap, Goto, files
  <2>3. CASE ApplyController(i) \/ StartTail(i) \/ StartWatch(i) \/ StartLoad(i)
    BY <2>3 DEF ApplyController, StartTail, StartWatch, StartLoad, Goto, files
  <2>4. CASE EndScenario(i) \/ KillTail(i) \/ DeleteController(i)
    BY <2>4 DEF EndScenario, KillTail, DeleteController, Goto, files
  <2>5. CASE Leave(i) \/ KillK6(i)
    BY <2>5 DEF Leave, KillK6, Goto, files, Rounds
  <2>6. CASE Unlock(i) \/ Interrupt(i)
    BY <2>6 DEF Unlock, Interrupt, Goto, files, Cleaning
  <2>7. CASE RemoveLockFile(i)
    BY <2>7, NamesAssumption DEF RemoveLockFile, Unlink, Goto, LockInv
  <2> QED
    BY <1>1, <2>1, <2>2, <2>3, <2>4, <2>5, <2>6, <2>7 DEF RunAll
<1>2. ASSUME NEW i \in Invocations, Child(i)
      PROVE  FileInv'
  BY <1>2 DEF Child, JobEnds, K6Starts, K6Ends, OrphanActs, files
<1>3. CASE Pkill
  BY <1>3 DEF Pkill, files
<1>4. CASE StopDeletesController \/ StopKillsK6
  BY <1>4 DEF StopDeletesController, StopKillsK6, files
<1>5. CASE StopRemovesLockFile
  BY <1>5, NamesAssumption DEF StopRemovesLockFile, Unlink, LockInv
<1>6. CASE UNCHANGED vars
  BY <1>6 DEF vars
<1> QED
  BY <1>1, <1>2, <1>3, <1>4, <1>5, <1>6 DEF Next, Stop

-----------------------------------------------------------------------------
(***************************************************************************)
(* The cluster.                                                            *)
(***************************************************************************)

\* An experiment leaves the cluster to its cleanup or to the stop script.
LEMMA ClusterInvStep ==
    ASSUME TypeOK, ClusterInv, [Next]_vars
    PROVE  ClusterInv'
<1> USE DEF TypeOK, ClusterInv, K6IsLookedFor, Rounds
<1>1. ASSUME NEW i \in Invocations, RunAll(i)
      PROVE  ClusterInv'
  <2>1. CASE Open(i) \/ TryLock(i) \/ SetTrap(i) \/ ExitBeforeTrap(i)
    BY <2>1 DEF Open, TryLock, SetTrap, ExitBeforeTrap, Goto, cluster
  <2>2. CASE ApplyController(i) \/ DeleteController(i)
    BY <2>2 DEF ApplyController, DeleteController, Goto
  <2>3. CASE StartTail(i) \/ StartWatch(i) \/ StartLoad(i) \/ KillTail(i)
    BY <2>3 DEF StartTail, StartWatch, StartLoad, KillTail, Goto, cluster
  <2>4. CASE EndScenario(i)
    BY <2>4 DEF EndScenario, Goto
  <2>5. CASE Leave(i)
    BY <2>5 DEF Leave, ScenarioTrap
  <2>6. CASE KillK6(i)
    BY <2>6 DEF KillK6, Goto
  <2>7. CASE Unlock(i) \/ RemoveLockFile(i)
    BY <2>7 DEF Unlock, RemoveLockFile, Goto, cluster
  <2>8. CASE Interrupt(i)
    BY <2>8 DEF Interrupt, cluster
  <2> QED
    BY <1>1, <2>1, <2>2, <2>3, <2>4, <2>5, <2>6, <2>7, <2>8 DEF RunAll
<1>2. ASSUME NEW i \in Invocations, Child(i)
      PROVE  ClusterInv'
  <2>1. CASE JobEnds(i)
    BY <2>1 DEF JobEnds, cluster
  <2>2. CASE K6Starts(i)
    BY <2>2 DEF K6Starts
  <2>3. CASE K6Ends(i)
    BY <2>3 DEF K6Ends
  <2>4. CASE OrphanActs(i)
    BY <2>4 DEF OrphanActs
  <2> QED
    BY <1>2, <2>1, <2>2, <2>3, <2>4 DEF Child
<1>3. CASE Pkill
  BY <1>3 DEF Pkill, cluster
<1>4. CASE StopDeletesController \/ StopKillsK6 \/ StopRemovesLockFile
  BY <1>4 DEF StopDeletesController, StopKillsK6, StopRemovesLockFile, cluster
<1>5. CASE UNCHANGED vars
  BY <1>5 DEF vars
<1> QED
  BY <1>1, <1>2, <1>3, <1>4, <1>5 DEF Next, Stop

-----------------------------------------------------------------------------

IInv == TypeOK /\ LockInv /\ FileInv /\ ClusterInv

\* The invariant, and the types that it needs.
LEMMA Invariant == Spec => []IInv
<1>1. Init => IInv
  BY NamesAssumption
     DEF Init, IInv, TypeOK, LockInv, FileInv, ClusterInv, Running, Files,
         Inside, Rounds, Cleaning, Ended, Jobs
<1>2. IInv /\ [Next]_vars => IInv'
  <2> SUFFICES ASSUME IInv, [Next]_vars
               PROVE  IInv'
    OBVIOUS
  <2>1. TypeOK /\ LockInv /\ FileInv /\ ClusterInv
    BY DEF IInv
  <2>2. TypeOK'
    <3>1. CASE UNCHANGED vars
      BY <2>1, <3>1 DEF TypeOK, vars
    <3> QED
      BY <2>1, <3>1, RunAllType, ChildType, StopType DEF Next
  <2> QED
    BY <2>1, <2>2, LockStep, FileStep, ClusterInvStep DEF IInv
<1> QED
  BY <1>1, <1>2, PTL DEF Spec

\* Every variable keeps to its domain, and only an open file is locked.
THEOREM TypeCorrect == Spec => []TypeOK
<1>1. IInv => TypeOK
  BY DEF IInv
<1> QED
  BY <1>1, Invariant, PTL

\* Two experiments run together only when the lock file was removed under
\* somebody who had it open, however the others were ended and whichever
\* children they left behind (run_all_auto.sh, stop_experiment.sh).
THEOREM OverlapOnlyByUnlinking == Spec => []OverlapNeedsUnlink
<1>1. IInv => OverlapNeedsUnlink
  <2> SUFFICES ASSUME IInv, ~unlinked
               PROVE  OneMatrixAtATime
    BY DEF OverlapNeedsUnlink
  <2> DEFINE S == {i \in Invocations : pc[i] \in Inside}
  <2>1. ASSUME NEW i \in S, NEW j \in S
        PROVE  i = j
    <3>1. fd[i] = path /\ fd[j] = path
      BY DEF IInv, FileInv, Running, Inside, Rounds, Cleaning, Ended
    <3> QED
      BY <3>1 DEF IInv, LockInv
  <2>2. CASE S = {}
    BY <2>2, FS_EmptySet DEF OneMatrixAtATime
  <2>3. ASSUME NEW i \in S
        PROVE  OneMatrixAtATime
    <3>1. S = {i}
      BY <2>1
    <3> QED
      BY <3>1, FS_Singleton DEF OneMatrixAtATime
  <2> QED
    BY <2>2, <2>3
<1> QED
  BY <1>1, Invariant, PTL

\* The next invocation gets the lock, even if a child that outlived the stop
\* script still holds the file of a killed one locked; only an interrupted
\* cleanup can leave the file at LOCK_FILE locked (stop_experiment.sh).
THEOREM LockIsLeftFree == Spec => []LockAvailable
<1>1. IInv => LockAvailable
  BY DEF IInv, LockInv, FileInv, LockAvailable, Quiet, Taken, Running, Inside,
         Rounds, Cleaning, Ended, TypeOK
<1> QED
  BY <1>1, Invariant, PTL

\* Every end of an experiment but an interrupted cleanup leaves the cluster
\* without its controller and without its load, unless a child that outlived
\* its script acts after the last look (cleanup, stop_experiment.sh).
THEOREM ClusterIsLeftClean == Spec => []NothingLeftBehind
<1>1. IInv => NothingLeftBehind
  BY DEF IInv, ClusterInv, NothingLeftBehind, Quiet, Running, Rounds, Ended,
         K6IsLookedFor, TypeOK
<1> QED
  BY <1>1, Invariant, PTL

=============================================================================
