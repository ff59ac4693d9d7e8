----------------------- MODULE DecommissionFsmTheorems -----------------------
(***************************************************************************)
(* Facts about the state machine and the annotation that the proofs about  *)
(* DecommissionDriver and PodController rest on.                           *)
(***************************************************************************)
EXTENDS DecommissionFsm, TLAPS

\* A transition ends in a state, the old one if the table has no arm for it.
LEMMA TransitionType ==
    ASSUME NEW s \in DecommissionStates, NEW e
    PROVE  Transition(s, e) \in DecommissionStates
BY DEF Transition

\* What a transition is: an arm of the table, or nothing.
LEMMA TransitionCases ==
    ASSUME NEW s, NEW e
    PROVE  \/ Transition(s, e) = s
           \/ <<s, e, Transition(s, e)>> \in Edges
BY DEF Transition

\* The annotation of a state is one of the values an annotation can have.
LEMMA AnnotationType ==
    ASSUME NEW s \in DecommissionStates
    PROVE  ToAnnotation(s) \in AnnotationValues
BY DEF ToAnnotation, AnnotationValues

\* Any value at all reads as a state.
LEMMA ReadStateType ==
    ASSUME NEW value
    PROVE  ReadState(value) \in DecommissionStates
BY DEF ReadState, DecommissionStates

\* A state survives being written to the annotation and read back
\* (state_to_annotation_value against read_fsm_state_from_pod).
THEOREM AnnotationRoundTrip ==
    ASSUME NEW s \in DecommissionStates
    PROVE  ReadState(ToAnnotation(s)) = s
BY DEF ReadState, ToAnnotation, Annotation, DecommissionStates

\* Only deletion_allowed reads as DeletionAllowed, and only that state writes it.
LEMMA AllowedAnnotation ==
    /\ \A value : ReadState(value) = "DeletionAllowed" => value = "deletion_allowed"
    /\ \A s \in DecommissionStates :
          ToAnnotation(s) = "deletion_allowed" => s = "DeletionAllowed"
BY DEF ReadState, ToAnnotation, Annotation, DecommissionStates

\* The event that starts a decommissioning leads to Draining.
LEMMA PodTerminatingDrains ==
    Transition("Unknown", "PodTerminating") = "Draining"
BY DEF Transition, Edges, DecommissionStates

=============================================================================
