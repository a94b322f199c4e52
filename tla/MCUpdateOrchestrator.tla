------------------------- MODULE MCUpdateOrchestrator -------------------------
(***************************************************************************)
(* TLC instances of UpdateOrchestrator with an open environment.           *)
(***************************************************************************)
EXTENDS UpdateOrchestrator, TLC

Symmetry == Permutations(Domains)

=============================================================================
