----------------------------- MODULE PolicyEngine -----------------------------
(***************************************************************************)
(* PolicyEngine::evaluate of src/policy.rs.  A policy is reduced to the    *)
(* two flags the engine reads; src/main.rs builds them from environment    *)
(* variables once, at start-up.                                            *)
(***************************************************************************)

Policies == [early_readiness_removal : BOOLEAN, drain_verification : BOOLEAN]

\* The strategies that the overlays of k8s/controller/overlays select.
Baseline ==
    [early_readiness_removal |-> FALSE, drain_verification |-> FALSE]
EarlyReadinessRemoval ==
    [early_readiness_removal |-> TRUE, drain_verification |-> FALSE]
DrainVerification ==
    [early_readiness_removal |-> TRUE, drain_verification |-> TRUE]

\* The arms of PolicyDecision that evaluate can return.
Decisions == {"NoAction", "EnsureReadinessRemoved", "WaitForDrainVerification"}

S1OrS2(policy) == policy.early_readiness_removal \/ policy.drain_verification

\* Mutant: draining is verified before the pod is out of the endpoints.
EvaluateDrainFirst(policy, terminating, hasGate, gateTrue) ==
    CASE terminating /\ policy.drain_verification -> "WaitForDrainVerification"
      [] terminating /\ S1OrS2(policy) /\ ~policy.drain_verification
             /\ hasGate /\ gateTrue -> "EnsureReadinessRemoved"
      [] OTHER -> "NoAction"

\* The step a pod is due: first out of the endpoints, then drained.
Evaluate(policy, terminating, hasGate, gateTrue) ==
    CASE terminating /\ S1OrS2(policy) /\ hasGate /\ gateTrue
             -> "EnsureReadinessRemoved"
      [] terminating /\ policy.drain_verification /\ ~(hasGate /\ gateTrue)
             -> "WaitForDrainVerification"
      [] OTHER -> "NoAction"

=============================================================================
