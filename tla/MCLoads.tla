------------------------------- MODULE MCLoads -------------------------------
(***************************************************************************)
(* Loads with one or two accounts.                                         *)
(***************************************************************************)
EXTENDS Loads

CONSTANTS a1, a2
=============================================================================
