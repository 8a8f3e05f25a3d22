---------------------------- MODULE MCImapServices ----------------------------
(***************************************************************************)
(* ImapCycle with either service of an account: Generic IMAP, one folder   *)
(* with two messages, with mod-sequences or without, and numbered anew     *)
(* once; or Gmail, two labels that share one message.  Generic IMAP's      *)
(* identities are the places its messages can be in, Gmail's the messages. *)
(* Every behaviour uses one of the accounts; the other's folders rest.     *)
(***************************************************************************)
EXTENDS ImapCycle, TLC

CONSTANTS
    a1, a2,         \* the account on Generic IMAP, and the one on Gmail
    f1, f2,         \* the folders
    x1, x2, y1      \* the messages of the one account, and of the other

MCMessageId == {y1} \union (FolderId \X (1..MaxValidity) \X (1..MaxUid))

MCPlace == {NoPlace} \union [uid_validity : 1..MaxValidity, message_count : 0..MaxUid,
                             uid_next : 1..(MaxUid + 1), highest_modseq : Nat]

\* Folders that were never loaded and never held mail.
Rest(folders) ==
    \A f \in folders :
        /\ box[f].next = 1 /\ box[f].validity = 1 /\ box[f].modseqs
        /\ store.folders[f] = NeverSynchronized
        /\ Running => cycle.folder # f

\* Gmail has mod-sequences and numbers no label anew.
GmailIsUsed ==
    /\ wishes <= 1
    /\ Rest({f \in FolderRef : f.account = a1})
    /\ \A f \in FolderRef :
          box[f].validity = 1 /\ box[f].modseqs /\ HeldMail(f) \subseteq {y1}

\* A user changes his mind where the folder is numbered once.
GenericImapIsUsed ==
    \E f \in FolderRef :
        /\ f.account = a1 /\ Rest(FolderRef \ {f}) /\ HeldMail(f) \subseteq {x1, x2}
        /\ wishes = 2 => box[f].validity = 1 /\ box[f].modseqs

OneService == GmailIsUsed \/ GenericImapIsUsed

MCInit == Init /\ OneService

MCSpec == MCInit /\ [][Next /\ OneService']_vars

Symmetry == Permutations({x1, x2}) \union Permutations({f1, f2})
=============================================================================
