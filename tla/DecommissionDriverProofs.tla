----------------------- MODULE DecommissionDriverProofs -----------------------
(***************************************************************************)
(* The properties of DecommissionDriver, proved.                           *)
(***************************************************************************)
EXTENDS DecommissionDriver, DecommissionFsmTheorems

\* Idle is no reconcile: it has seen no value of the annotation.
LEMMA IdleIsNoReconcile == Idle \notin Reconciles
<1>1. "nothing" \notin AnnotationValues
  BY DEF AnnotationValues, Annotation, DecommissionStates
<1> QED
  BY <1>1 DEF Idle, Reconciles

\* What an observation does to the annotation and to the worker.
LEMMA ObserveCases ==
    ASSUME TypeOK, NEW event, Observe(event)
    PROVE  /\ worker \in Reconciles
           /\ \/ Written(Transition(worker.state, event))
              \/ NotWritten
           /\ Transition(worker.state, event) \in DecommissionStates
           /\ ToAnnotation(Transition(worker.state, event)) \in AnnotationValues
<1>1. worker \in Reconciles
  BY DEF Observe, TypeOK
<1>2. worker.state \in DecommissionStates
  BY <1>1 DEF Reconciles
<1> QED
  BY <1>1, <1>2, TransitionType, AnnotationType DEF Observe

\* Annotation, cache and worker only ever hold what the controller writes.
THEOREM TypeCorrect == Spec => []TypeOK
<1>1. Init => TypeOK
  BY DEF Init, TypeOK, AnnotationValues
<1>2. TypeOK /\ [Next]_vars => TypeOK'
  <2> SUFFICES ASSUME TypeOK, [Next]_vars PROVE TypeOK'
    OBVIOUS
  <2>1. CASE Sync
    BY <2>1 DEF Sync, TypeOK
  <2>2. CASE StartReconcile
    <3>1. [known |-> cache, state |-> ReadState(cache)] \in Reconciles
      BY ReadStateType DEF TypeOK, Reconciles
    <3> QED
      BY <2>2, <3>1 DEF StartReconcile, TypeOK
  <2>3. ASSUME NEW event \in DecommissionEvents, Observe(event) PROVE TypeOK'
    <3> DEFINE next == Transition(worker.state, event)
    <3>1. [known |-> ToAnnotation(next), state |-> next] \in Reconciles
      BY <2>3, ObserveCases DEF Reconciles
    <3>2. CASE Written(next)
      BY <2>3, <3>1, <3>2, ObserveCases DEF Observe, Written, TypeOK
    <3>3. CASE NotWritten
      BY <2>3, <3>3 DEF Observe, NotWritten, TypeOK
    <3> QED
      BY <2>3, <3>2, <3>3, ObserveCases
  <2>4. CASE EndReconcile
    BY <2>4 DEF EndReconcile, TypeOK
  <2>5. CASE UNCHANGED vars
    BY <2>5 DEF TypeOK, vars
  <2> QED
    BY <2>1, <2>2, <2>3, <2>4, <2>5 DEF Next
<1> QED
  BY <1>1, <1>2, PTL DEF Spec

-----------------------------------------------------------------------------

\* A reconcile's state in memory is the one it read or last wrote.
WorkerKnows == worker # Idle => ReadState(worker.known) = worker.state

\* It is, at its start and after every write: what is written reads back.
LEMMA KnowsStep ==
    ASSUME TypeOK, WorkerKnows, [Next]_vars
    PROVE  WorkerKnows'
<1>1. CASE Sync
  BY <1>1 DEF Sync, WorkerKnows
<1>2. CASE StartReconcile
  BY <1>2 DEF StartReconcile, WorkerKnows
<1>3. ASSUME NEW event \in DecommissionEvents, Observe(event) PROVE WorkerKnows'
  <2> DEFINE next == Transition(worker.state, event)
  <2>1. ReadState(ToAnnotation(next)) = next
    BY <1>3, ObserveCases, AnnotationRoundTrip
  <2>2. worker' = Idle \/ worker' = [known |-> ToAnnotation(next), state |-> next]
    BY <1>3, ObserveCases DEF Written, NotWritten
  <2> QED
    BY <2>1, <2>2 DEF WorkerKnows
<1>4. CASE EndReconcile
  BY <1>4 DEF EndReconcile, WorkerKnows
<1>5. CASE UNCHANGED vars
  BY <1>5 DEF WorkerKnows, vars
<1> QED
  BY <1>1, <1>2, <1>3, <1>4, <1>5 DEF Next

\* No arm of the table leads backwards.
LEMMA EdgesGoForward ==
    ASSUME NEW s, NEW e, NEW t, <<s, e, t>> \in Edges
    PROVE  Rank[t] >= Rank[s]
BY DEF Edges, Rank

\* Nor does a transition that has no arm.
LEMMA TransitionGoesForward ==
    ASSUME NEW s \in DecommissionStates, NEW e
    PROVE  Rank[Transition(s, e)] >= Rank[s]
<1>1. Rank[s] \in Nat
  BY DEF Rank, DecommissionStates
<1>2. CASE Transition(s, e) = s
  BY <1>1, <1>2
<1>3. CASE <<s, e, Transition(s, e)>> \in Edges
  BY <1>3, EdgesGoForward
<1> QED
  BY <1>2, <1>3, TransitionCases

\* For events in any order and number, any delay of the watch and any failure of
\* a write, the stored lifecycle goes back only under a reconcile that has not
\* seen what is stored.
THEOREM LifecycleGoesBackOnlyWhenStale == Spec => BackOnlyWhenStale
<1>1. Init => WorkerKnows
  BY DEF Init, WorkerKnows
<1>2. TypeOK /\ WorkerKnows /\ [Next]_vars
        => [Rank[State'] < Rank[State] => worker.known # annotation]_vars
  <2> SUFFICES ASSUME TypeOK, WorkerKnows, Next,
                      worker.known = annotation, Rank[State'] < Rank[State]
               PROVE  FALSE
    OBVIOUS
  <2>1. State \in DecommissionStates
    BY ReadStateType DEF State
  <2>2. Rank[State] \in Nat
    BY <2>1 DEF Rank, DecommissionStates
  <2>3. CASE UNCHANGED annotation
    BY <2>2, <2>3 DEF State
  <2>4. ASSUME NEW event \in DecommissionEvents, Observe(event),
               Written(Transition(worker.state, event))
        PROVE  FALSE
    <3>1. State' = Transition(worker.state, event)
      BY <2>4, ObserveCases, AnnotationRoundTrip DEF Written, State
    <3>2. worker.state = State
      BY <2>4 DEF WorkerKnows, State, Observe
    <3>3. Rank[State'] >= Rank[State]
      BY <2>1, <3>1, <3>2, TransitionGoesForward
    <3>4. State' \in DecommissionStates
      BY <3>1, <2>4, ObserveCases
    <3>5. Rank[State'] \in Nat
      BY <3>4 DEF Rank, DecommissionStates
    <3> QED
      BY <2>2, <3>3, <3>5
  <2> QED
    BY <2>3, <2>4, ObserveCases
       DEF Next, Sync, StartReconcile, EndReconcile, NotWritten
<1> QED
  BY <1>1, <1>2, KnowsStep, TypeCorrect, PTL DEF Spec, BackOnlyWhenStale

-----------------------------------------------------------------------------

Evidence == {"DrainVerified", "PreStopFinished", "StateHandoverComplete"}

\* Every state but the first was entered through PodTerminating, and the states
\* from which the DeletionAllowed event is accepted have their own evidence.
GroundedState(s, observed) ==
    /\ s # "Unknown" => "PodTerminating" \in observed
    /\ s \in {"StateHandover", "DeletionAllowed"} => observed \cap Evidence # {}

\* So it is for every value there has been, wherever it is still to be read.
Grounded ==
    /\ annotation \in held /\ cache \in held
    /\ \A value \in held : GroundedState(ReadState(value), seen)
    /\ GroundedState(worker.state, seen)

\* What an arm of the table asks of the state it leaves and of its event.
LEMMA EdgesNeedEvidence ==
    ASSUME NEW s, NEW e, NEW t, <<s, e, t>> \in Edges
    PROVE  /\ s # "Unknown" \/ e = "PodTerminating"
           /\ t \in {"StateHandover", "DeletionAllowed"}
                => s = "StateHandover" \/ e \in Evidence
BY DEF Edges, Evidence

\* A state grounded in what was seen leads to one grounded in that and the event.
LEMMA TransitionGrounded ==
    ASSUME NEW s, NEW event, NEW observed, GroundedState(s, observed)
    PROVE  /\ GroundedState(s, observed \cup {event})
           /\ GroundedState(Transition(s, event), observed \cup {event})
<1>1. GroundedState(s, observed \cup {event})
  BY DEF GroundedState
<1>2. CASE Transition(s, event) = s
  BY <1>1, <1>2
<1>3. CASE <<s, event, Transition(s, event)>> \in Edges
  BY <1>3, EdgesNeedEvidence DEF GroundedState
<1> QED
  BY <1>1, <1>2, <1>3, TransitionCases

\* Deletion is allowed only on a pod seen terminating, and on some evidence.
THEOREM AllowedIsGrounded == Spec => []AllowedNeedsEvidence
<1>1. Init => Grounded
  <2> SUFFICES ASSUME Init PROVE ReadState("absent") = "Unknown"
    BY DEF Init, Grounded, GroundedState, Idle
  <2> QED
    BY DEF ReadState, Annotation, DecommissionStates
<1>2. TypeOK /\ Grounded /\ [Next]_vars => Grounded'
  <2> SUFFICES ASSUME TypeOK, Grounded, [Next]_vars PROVE Grounded'
    OBVIOUS
  <2>0. GroundedState("Unknown", seen')
    BY DEF GroundedState
  <2>1. CASE Sync
    BY <2>1 DEF Sync, Grounded, GroundedState
  <2>2. CASE StartReconcile
    BY <2>2 DEF StartReconcile, Grounded, GroundedState
  <2>3. ASSUME NEW event \in DecommissionEvents, Observe(event) PROVE Grounded'
    <3> DEFINE next == Transition(worker.state, event)
    <3>1. seen' = seen \cup {event} /\ cache' = cache
      BY <2>3 DEF Observe
    <3>2. \A value \in held : GroundedState(ReadState(value), seen')
      BY <3>1, TransitionGrounded DEF Grounded
    <3>3. GroundedState(next, seen')
      BY <3>1, TransitionGrounded DEF Grounded
    <3>4. ReadState(ToAnnotation(next)) = next
      BY <2>3, ObserveCases, AnnotationRoundTrip
    <3>5. CASE Written(next)
      <4>1. worker'.state = next \/ worker'.state = "Unknown"
        BY <3>5 DEF Written, Idle
      <4>2. GroundedState(worker'.state, seen')
        BY <4>1, <3>3, <2>0
      <4>3. held' = held \cup {ToAnnotation(next)} /\ annotation' = ToAnnotation(next)
        BY <3>5 DEF Written
      <4>4. \A value \in held' : GroundedState(ReadState(value), seen')
        BY <4>3, <3>2, <3>3, <3>4
      <4> QED
        BY <3>1, <4>2, <4>3, <4>4 DEF Grounded
    <3>6. CASE NotWritten
      BY <2>0, <3>1, <3>2, <3>6 DEF NotWritten, Grounded, Idle
    <3> QED
      BY <2>3, <3>5, <3>6, ObserveCases
  <2>4. CASE EndReconcile
    BY <2>0, <2>4 DEF EndReconcile, Grounded, GroundedState, Idle
  <2>5. CASE UNCHANGED vars
    BY <2>5 DEF Grounded, GroundedState, vars
  <2> QED
    BY <2>1, <2>2, <2>3, <2>4, <2>5 DEF Next
<1>3. Grounded => AllowedNeedsEvidence
  BY DEF Grounded, GroundedState, AllowedNeedsEvidence, Evidence, State
<1> QED
  BY <1>1, <1>2, <1>3, TypeCorrect, PTL DEF Spec

=============================================================================
