-------------------------- MODULE MCDrainableService --------------------------
(***************************************************************************)
(* DrainableService with the symmetry of its clients.                      *)
(***************************************************************************)
EXTENDS DrainableService, TLC

Symmetry == Permutations(Requests)

=============================================================================
