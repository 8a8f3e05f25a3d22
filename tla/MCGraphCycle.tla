----------------------------- MODULE MCGraphCycle -----------------------------
(***************************************************************************)
(* GraphCycle on small instances.                                          *)
(***************************************************************************)
EXTENDS GraphCycle, TLC

CONSTANTS a1, f1, f2, x1, x2

MCPlace == {NoPlace} \union [kind : {"position"}, since : Nat]
             \union [kind : {"page"}, since : Nat, left : SUBSET MessageId, first : BOOLEAN]

Symmetry == Permutations(MessageId) \union Permutations(FolderId)
=============================================================================
