---------------------------- MODULE MCUpdateAgent ----------------------------
(***************************************************************************)
(* TLC instances of UpdateAgent.                                           *)
(***************************************************************************)
EXTENDS UpdateAgent, TLC

=============================================================================
