---------------------------- MODULE MCWindowReads ----------------------------
(***************************************************************************)
(* WindowReads on small instances.                                         *)
(***************************************************************************)
EXTENDS WindowReads, TLC

CONSTANTS a1, a2, inbox, sent

OneAccount == {[account |-> a1, identity |-> inbox], [account |-> a1, identity |-> sent]}
TwoAccounts == OneAccount \union {[account |-> a2, identity |-> inbox]}
=============================================================================
