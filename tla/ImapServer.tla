------------------------------ MODULE ImapServer ------------------------------
(***************************************************************************)
(* The user's mail on an IMAP server, as the cycles of                     *)
(* mailbag-providers rely on it (RFC 3501, and RFC 7162 for mod-sequences) *)
(* and as other clients change it.  External to the repository: only what  *)
(* the code in src/ asks of a server is here.                              *)
(*                                                                         *)
(* Generic IMAP keeps every copy of a message apart; in a Gmail account    *)
(* one message is in several labels with the same flags.                   *)
(***************************************************************************)
EXTENDS StoreRows, FiniteSets

CONSTANTS
    Mail,           \* the messages themselves
    Gmail,          \* the accounts of Google
    CondStore,      \* whether a folder's openings return a mod-sequence: the choices
    MaxUid,         \* bound: UIDs a folder hands out
    MaxModseq,      \* bound: no other client changes a folder beyond it
    MaxValidity     \* bound: numberings of a folder

ASSUME ServerAssumption ==
    /\ Gmail \subseteq Account
    /\ CondStore \subseteq BOOLEAN
    /\ MaxUid \in Nat /\ MaxModseq \in Nat /\ MaxValidity \in Nat \ {0}

VARIABLES
    box,            \* per folder: its numbering and the messages it holds
    flags           \* per message: the flags the server holds

serverVars == <<box, flags>>

\* An opening without a mod-sequence (Option::None in FolderNumbers).
NoModseq == 0

Box == [modseqs : BOOLEAN, validity : 1..MaxValidity, next : 1..(MaxUid + 1), modseq : Nat \ {0},
        held : PartialFunctions(1..MaxUid, [mail : Mail, modseq : Nat \ {0}])]

\* RFC 7162: a folder without mod-sequences never has them (NOMODSEQ).
EmptyBoxes == [modseqs : CondStore, validity : {1}, next : {1}, modseq : {1},
               held : {NoRows}]

ServerInit ==
    /\ box \in [FolderRef -> EmptyBoxes]
    /\ flags \in [Mail -> {[g \in MessageFlag |-> FALSE]}]

-----------------------------------------------------------------------------
(* What the server says of a folder.                                       *)

Uids(f) == DOMAIN box[f].held

HeldMail(f) == {box[f].held[u].mail : u \in Uids(f)}

OnGmail(f) == f.account \in Gmail

\* The identity a cycle gives the message at a UID: its place under this
\* numbering, or Gmail's own identifier, the same in every label.
IdentityAt(f, uid) ==
    IF OnGmail(f) THEN box[f].held[uid].mail ELSE <<f.identity, box[f].validity, uid>>

IdentitiesIn(f) == {IdentityAt(f, u) : u \in Uids(f)}

FlagsAt(f, uid) == flags[box[f].held[uid].mail]

FlagValues(f) ==
    {<<IdentityAt(f, u), g, FlagsAt(f, u)[g]>> : u \in Uids(f), g \in MessageFlag}

\* The numbers an opening returns.
OpeningNumbers(f) ==
    [uid_validity   |-> box[f].validity,
     message_count  |-> Cardinality(Uids(f)),
     uid_next       |-> box[f].next,
     highest_modseq |-> IF box[f].modseqs THEN box[f].modseq ELSE NoModseq]

-----------------------------------------------------------------------------
(* What happens to the mail.                                               *)

Arrive(f, mail) ==
    LET b == box[f] IN
    /\ mail \notin HeldMail(f)
    /\ \A g \in FolderRef : mail \in HeldMail(g) => g.account = f.account /\ OnGmail(f)
    /\ b.next <= MaxUid /\ b.modseq < MaxModseq
    /\ box' = [box EXCEPT ![f] =
                [b EXCEPT !.next = @ + 1, !.modseq = @ + 1,
                          !.held = [u \in DOMAIN b.held \union {b.next} |->
                             IF u = b.next THEN [mail |-> mail, modseq |-> b.modseq + 1]
                             ELSE b.held[u]]]]
    /\ UNCHANGED flags

\* A server without QRESYNC need not count an expunge as a change.
Expunge(f, uid) ==
    /\ uid \in Uids(f)
    /\ box' = [box EXCEPT ![f].held = Restrict(@, DOMAIN @ \ {uid})]
    /\ UNCHANGED flags

\* The folder is numbered anew: the UIDs now name messages under another
\* UIDVALIDITY.  Counts, UIDs and mod-sequences may all stay equal.
Renumber(f) ==
    /\ box[f].validity < MaxValidity
    /\ box' = [box EXCEPT ![f].validity = @ + 1]
    /\ UNCHANGED flags

\* Flags of messages set to a value; every folder that holds a message whose
\* flag changed counts it.
BoxAfterFlag(f, mails) ==
    LET b       == box[f]
        changed == {u \in Uids(f) : b.held[u].mail \in mails}
        modseq  == IF changed = {} THEN b.modseq ELSE b.modseq + 1
    IN  [b EXCEPT !.modseq = modseq,
                  !.held = [u \in Uids(f) |->
                              IF u \in changed THEN [b.held[u] EXCEPT !.modseq = modseq]
                              ELSE b.held[u]]]

SetFlag(mails, flag, value) ==
    LET changed == {m \in mails : flags[m][flag] # value} IN
    /\ flags' = [m \in Mail |-> IF m \in mails THEN [flags[m] EXCEPT ![flag] = value]
                                ELSE flags[m]]
    /\ box' = [f \in FolderRef |-> BoxAfterFlag(f, changed)]

\* Another client changes a message's flag.
FlagElsewhere(mail, flag) ==
    /\ \E f \in FolderRef : mail \in HeldMail(f)
    /\ \A f \in FolderRef : mail \in HeldMail(f) => box[f].modseq < MaxModseq
    /\ SetFlag({mail}, flag, ~flags[mail][flag])
=============================================================================
