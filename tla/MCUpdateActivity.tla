--------------------------- MODULE MCUpdateActivity ---------------------------
(***************************************************************************)
(* TLC instances of UpdateActivity.                                        *)
(***************************************************************************)
EXTENDS UpdateActivity, TLC

Symmetry == Permutations(Domains)

=============================================================================
