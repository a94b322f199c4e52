---------------------------- MODULE MCThingsClient ----------------------------
(***************************************************************************)
(* TLC instances of ThingsClient.                                          *)
(***************************************************************************)
EXTENDS ThingsClient, TLC

ThingsSymmetry == Permutations(Things)

=============================================================================
