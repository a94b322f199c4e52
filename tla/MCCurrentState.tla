---------------------------- MODULE MCCurrentState ----------------------------
(***************************************************************************)
(* TLC instances of CurrentState.                                          *)
(***************************************************************************)
EXTENDS CurrentState, TLC

StateSymmetry == Permutations(Domains)

=============================================================================
