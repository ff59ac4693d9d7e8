--------------------------- MODULE DecommissionFsm ---------------------------
(***************************************************************************)
(* The decommissioning state machine of src/decommission.rs and the way    *)
(* the controller stores it: every pod carries its state as the value of   *)
(* the annotation decomposition.dat6.io/state, and nothing else remembers  *)
(* it.  The module is pure; DecommissionEvents drives it alone and         *)
(* PodController uses it inside the reconciler.                            *)
(***************************************************************************)
EXTENDS Naturals

DecommissionStates ==
    {"Unknown", "Draining", "ReadinessLost", "PreStopRunning",
     "StateHandover", "DeletionAllowed"}

DecommissionEvents ==
    {"PodTerminating", "ReadinessLost", "EndpointsRemoved", "PreStopStarted",
     "PreStopFinished", "StateHandoverComplete", "DeletionAllowed",
     "DrainVerified"}

\* Mutant: the first event already allows deletion.
EdgesSkipDraining ==
    { <<"Unknown",        "PodTerminating",        "DeletionAllowed">>,
      <<"Draining",       "DrainVerified",         "DeletionAllowed">>,
      <<"ReadinessLost",  "PreStopStarted",        "PreStopRunning">>,
      <<"PreStopRunning", "PreStopFinished",       "DeletionAllowed">>,
      <<"StateHandover",  "StateHandoverComplete", "DeletionAllowed">> }

\* The arms of `transition` that change the state, as <<current, event, next>>.
Edges ==
    { <<"Unknown",        "PodTerminating",        "Draining">>,
      <<"Draining",       "DrainVerified",         "DeletionAllowed">>,
      <<"Draining",       "ReadinessLost",         "ReadinessLost">>,
      <<"Draining",       "EndpointsRemoved",      "ReadinessLost">>,
      <<"ReadinessLost",  "PreStopStarted",        "PreStopRunning">>,
      <<"ReadinessLost",  "PreStopFinished",       "DeletionAllowed">>,
      <<"PreStopRunning", "PreStopFinished",       "DeletionAllowed">>,
      <<"PreStopRunning", "StateHandoverComplete", "StateHandover">>,
      <<"StateHandover",  "StateHandoverComplete", "DeletionAllowed">>,
      <<"StateHandover",  "DeletionAllowed",       "DeletionAllowed">> }

\* Every other pair falls through to `(state, _) => state`.
Transition(current, event) ==
    IF \E next \in DecommissionStates : <<current, event, next>> \in Edges
    THEN CHOOSE next \in DecommissionStates : <<current, event, next>> \in Edges
    ELSE current

-----------------------------------------------------------------------------

Annotation == [ Unknown         |-> "unknown",
                Draining        |-> "draining",
                ReadinessLost   |-> "readiness_lost",
                PreStopRunning  |-> "pre_stop_running",
                StateHandover   |-> "state_handover",
                DeletionAllowed |-> "deletion_allowed" ]

\* What the annotation can hold: nothing yet, or a value the controller wrote.
AnnotationValues == {"absent"} \cup {Annotation[s] : s \in DecommissionStates}

\* Mutant: the Debug name is written instead of the snake_case one.
ToAnnotationDebug(state) == state

ToAnnotation(state) == Annotation[state]

\* Mutant: the arm of readiness_lost is missing.
ReadStateForgetful(value) ==
    IF value = "readiness_lost" THEN "Unknown"
    ELSE IF \E s \in DecommissionStates : Annotation[s] = value
         THEN CHOOSE s \in DecommissionStates : Annotation[s] = value
         ELSE "Unknown"

\* A missing annotation and one with any other text both read as Unknown.
ReadState(value) ==
    IF \E s \in DecommissionStates \ {"Unknown"} : Annotation[s] = value
    THEN CHOOSE s \in DecommissionStates \ {"Unknown"} : Annotation[s] = value
    ELSE "Unknown"

=============================================================================
