----------------------------- MODULE GraphService -----------------------------
(***************************************************************************)
(* The user's mail at Microsoft Graph, as the cycles of mailbag-providers  *)
(* rely on it: messages with an identifier that survives moves, each in    *)
(* one folder, and per folder a delta reading in pages.  External to the   *)
(* repository: only what the code in src/ asks of the service is here, and *)
(* what specs/009 research 5 documents or measured of its answers:         *)
(*                                                                         *)
(*   - a first reading lists what the folder held when it began, each page *)
(*     as of its own moment, and reports no later change;                  *)
(*   - the round from a position reports every message that arrived,       *)
(*     changed or left since that position was taken;                      *)
(*   - the entries of a page come in no certain order, and one may be      *)
(*     older than what the service holds: of a message the page reports,   *)
(*     before or after the entry as it is now; and in a round of one it    *)
(*     reports later, or the folder still holds.                           *)
(***************************************************************************)
EXTENDS StoreRows, FiniteSets

CONSTANTS
    Nowhere,        \* where a message is that no folder holds
    PageSize,       \* odata.maxpagesize
    MaxChanges      \* bound: changes of the mail by other clients

ASSUME ServiceAssumption ==
    /\ PageSize \in Nat \ {0} /\ MaxChanges \in Nat
    /\ Nowhere \notin FolderRef

VARIABLES
    where,          \* per message: the folder that holds it
    flags,          \* per message: the flags the service holds
    changed,        \* per folder and message: when it last changed there
    clock           \* how many changes there were

serviceVars == <<where, flags, changed, clock>>

InFolder(f) == {m \in MessageId : where[m] = f}

FlagValues(f) == {<<m, g, flags[m][g]>> : m \in InFolder(f), g \in MessageFlag}

ServiceInit ==
    /\ where \in [MessageId -> FolderRef \union {Nowhere}]
    /\ flags = [m \in MessageId |-> [g \in MessageFlag |-> FALSE]]
    /\ changed = [f \in FolderRef |-> [m \in MessageId |-> 0]]
    /\ clock = 0

-----------------------------------------------------------------------------
(* Links of a delta reading: where the next round starts, and the next     *)
(* page of a reading that began at `since` and has `left` to report.       *)

Position(since) == [kind |-> "position", since |-> since]

NextPage(since, left, first) ==
    [kind |-> "page", since |-> since, left |-> left, first |-> first]

FirstReading == [kind |-> "first"]

\* The reading a request goes on with.
ReadingAt(f, from) ==
    CASE from.kind = "first"    -> NextPage(clock, InFolder(f), TRUE)
      [] from.kind = "position" ->
            NextPage(clock, {m \in MessageId : changed[f][m] > from.since}, FALSE)
      [] from.kind = "page"     -> from

\* The messages one page may report of those left: the last page may be empty.
PageOf(left) ==
    {page \in SUBSET left : Cardinality(page) <= PageSize /\ (page = {} => left = {})}

Link(reading, page) ==
    IF reading.left = page THEN Position(reading.since)
    ELSE NextPage(reading.since, reading.left \ page, reading.first)

\* The messages a page may have an older entry of.
Replayable(f, reading, page) ==
    IF reading.first THEN page \intersect InFolder(f) ELSE reading.left \union InFolder(f)

-----------------------------------------------------------------------------
(* What happens to the mail.                                               *)

\* The message changed in the folders given.
Touch(m, folders) ==
    /\ clock' = clock + 1
    /\ changed' = [f \in FolderRef |->
                     IF f \in folders THEN [changed[f] EXCEPT ![m] = clock + 1] ELSE changed[f]]

\* Delivered, moved or deleted by another client.
Move(m, to) ==
    /\ clock < MaxChanges /\ where[m] # to
    /\ where' = [where EXCEPT ![m] = to]
    /\ Touch(m, {where[m], to})
    /\ UNCHANGED flags

SetFlag(m, flag, value) ==
    /\ flags' = [flags EXCEPT ![m][flag] = value]
    /\ IF flags[m][flag] = value THEN UNCHANGED <<changed, clock>> ELSE Touch(m, {where[m]})
    /\ UNCHANGED where

FlagElsewhere(m, flag) ==
    /\ clock < MaxChanges /\ where[m] # Nowhere
    /\ SetFlag(m, flag, ~flags[m][flag])
=============================================================================
