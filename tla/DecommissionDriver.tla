-------------------------- MODULE DecommissionDriver --------------------------
(***************************************************************************)
(* The state machine of src/decommission.rs as a reconciler drives it.  A  *)
(* reconcile takes the pod from the reflector's cache, reads the state off *)
(* that snapshot, and works on the state in its own memory from then on:   *)
(* every event moves it and the result is written to the annotation, with  *)
(* no precondition on what is there by now.  Events are observations, so   *)
(* any of them may come at any time, in any order, again, or not at all.   *)
(*                                                                         *)
(* PodController is the part of this that the code reaches today, with     *)
(* PodTerminating and DrainVerified only; here the whole table is driven.  *)
(***************************************************************************)
EXTENDS DecommissionFsm

VARIABLES annotation,   \* decomposition.dat6.io/state on the pod
          cache,        \* the same in the reflector's copy of the pod
          worker,       \* the reconcile of the pod, or Idle
          held,         \* history: every value the annotation has had
          seen          \* history: the events observed so far

vars == <<annotation, cache, worker, held, seen>>

\* `known` is what the reconcile read or last wrote, `state` its fsm_state.
Reconciles == [known : AnnotationValues, state : DecommissionStates]
Idle == [known |-> "nothing", state |-> "Unknown"]

State == ReadState(annotation)

Init ==
    /\ annotation = "absent"
    /\ cache = "absent"
    /\ worker = Idle
    /\ held = {"absent"}
    /\ seen = {}

\* The watch delivers the versions of the pod late, and a controller that
\* starts again lists it anew: the cache may hold any version there has been.
Sync ==
    /\ cache' \in held
    /\ UNCHANGED <<annotation, worker, held, seen>>

\* The snapshot a reconcile works on to its end.
StartReconcile ==
    /\ worker = Idle
    /\ worker' = [known |-> cache, state |-> ReadState(cache)]
    /\ UNCHANGED <<annotation, cache, held, seen>>

\* A write that took effect, whether or not its answer came back.
Written(next) ==
    /\ annotation' = ToAnnotation(next)
    /\ held' = held \cup {ToAnnotation(next)}
    /\ worker' \in {[known |-> ToAnnotation(next), state |-> next], Idle}

\* A write that failed ends the reconcile, and the event is lost.
NotWritten ==
    /\ worker' = Idle
    /\ UNCHANGED <<annotation, held>>

Observe(event) ==
    /\ worker # Idle
    /\ seen' = seen \cup {event}
    /\ Written(Transition(worker.state, event)) \/ NotWritten
    /\ UNCHANGED cache

\* The reconcile returns, or the controller dies with it.
EndReconcile ==
    /\ worker # Idle
    /\ worker' = Idle
    /\ UNCHANGED <<annotation, cache, held, seen>>

Next ==
    \/ Sync
    \/ StartReconcile
    \/ \E event \in DecommissionEvents : Observe(event)
    \/ EndReconcile

Spec == Init /\ [][Next]_vars

-----------------------------------------------------------------------------

TypeOK ==
    /\ annotation \in AnnotationValues
    /\ cache \in AnnotationValues
    /\ worker \in Reconciles \cup {Idle}
    /\ held \subseteq AnnotationValues
    /\ seen \subseteq DecommissionEvents

\* The lifecycle of the module's header: Running is Unknown here.
Rank == [ Unknown |-> 0, Draining |-> 1, ReadinessLost |-> 2,
          PreStopRunning |-> 3, StateHandover |-> 4, DeletionAllowed |-> 5 ]

\* The stored lifecycle goes back only when a reconcile writes over a value that
\* it has not seen: whatever is observed, in whatever order, and whatever
\* writes fail, one that knows what is stored never does (transition,
\* read_fsm_state_from_pod, persist_fsm_state).
BackOnlyWhenStale ==
    [][Rank[State'] < Rank[State] => worker.known # annotation]_vars

\* Deletion is never allowed on a pod that was not seen terminating, nor
\* without an observation that ends a drain, a preStop hook or a handover, also
\* when reconciles work on old snapshots (transition).
AllowedNeedsEvidence ==
    State = "DeletionAllowed" =>
        /\ "PodTerminating" \in seen
        /\ seen \cap {"DrainVerified", "PreStopFinished", "StateHandoverComplete"} # {}

=============================================================================
