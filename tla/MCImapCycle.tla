----------------------------- MODULE MCImapCycle -----------------------------
(***************************************************************************)
(* ImapCycle with an account of Generic IMAP, whose identities are the     *)
(* places its messages can be in.                                          *)
(***************************************************************************)
EXTENDS ImapCycle, TLC

CONSTANTS a1, f1, f2, x1, x2

Numbers == [uid_validity : 1..MaxValidity, message_count : 0..MaxUid,
            uid_next : 1..(MaxUid + 1), highest_modseq : Nat]

MCPlace == {NoPlace} \union Numbers
MCMessageId == FolderId \X (1..MaxValidity) \X (1..MaxUid)

Symmetry == Permutations(Mail) \union Permutations(FolderId)
=============================================================================
