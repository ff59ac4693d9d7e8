--------------------------- MODULE MCPodController ---------------------------
(***************************************************************************)
(* Values for the constants of PodController that TLC's configuration      *)
(* files cannot write: sets of policies and the like.                      *)
(***************************************************************************)
EXTENDS PodController

OnlyDrainVerification == {DrainVerification}
GateStrategies        == {EarlyReadinessRemoval, DrainVerification}
SwitchToBaseline      == {Baseline, DrainVerification}
AllStrategies         == {Baseline, EarlyReadinessRemoval, DrainVerification}

=============================================================================
