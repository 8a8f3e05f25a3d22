------------------------------ MODULE StoreRows ------------------------------
(***************************************************************************)
(* The rows of the mail store and the operations on them                   *)
(* (crates/mailbag-store/src/lib.rs and folders.rs).  A store is a record  *)
(* of the schema's three tables:                                           *)
(*                                                                         *)
(*   folders      a partial function: a stored folder's saved state        *)
(*   messages     a partial function: a stored message's row               *)
(*   memberships  which stored folder holds which stored message           *)
(*                                                                         *)
(* Every operator here is the effect of one function inside its caller's   *)
(* transaction; MailStore makes them actions.  A row keeps of a message    *)
(* what the store decides on: the server's value of each flag, the user's  *)
(* pending value and the kind of its content.                              *)
(***************************************************************************)
EXTENDS Functions

CONSTANTS
    Account,        \* the accounts GNOME Online Accounts may hold
    FolderId,       \* folder identities within an account
    MessageId,      \* message identities within an account
    MessageFlag,    \* the flags the user can change (Seen, Flagged)
    Place,          \* what a saved state may say of the server's folder
    NoPlace         \* no server position, no fill place and no numbers

ASSUME NoPlaceAssumption == NoPlace \in Place

FolderRef  == [account : Account, identity : FolderId]
MessageKey == [account : Account, identity : MessageId]
Membership == [folder : FolderRef, message : MessageKey]

\* A folder's saved state.  `place` stands for the server position, the fill
\* place and the opening's numbers, which are always written together.
FolderState == [synchronized : BOOLEAN, place : Place]

\* The state of a folder that was listed and never loaded.
NeverSynchronized == [synchronized |-> FALSE, place |-> NoPlace]

\* "explained" stands for every content kind that is neither a text nor one
\* of the two codes the upsert treats apart.
ContentKind == {"text", "explained", "text_not_returned", "not_downloaded"}

Flags == [MessageFlag -> BOOLEAN]

\* A nullable flag column: SQL's NULL is {}, a wished value v is {v}.
Wish == {{}, {TRUE}, {FALSE}}

MessageRow == [server : Flags, pending : [MessageFlag -> Wish],
               content : ContentKind]

\* A full record a cycle fetched, and the arguments of one batch.  Lists
\* keyed by identity are partial functions; an optional state is a set of at
\* most one.
Arrival == [flags : Flags, content : ContentKind]

NoRows == [i \in {} |-> {}]
EmptyBatch == [removed |-> {}, flag_states |-> NoRows, arrived |-> NoRows,
               known_arrived |-> NoRows, state |-> {}]

EmptyStore == [folders |-> NoRows, messages |-> NoRows, memberships |-> {}]

Ref(account, folder) == [account |-> account, identity |-> folder]
Key(account, id)     == [account |-> account, identity |-> id]
KeysOf(account, ids) == {Key(account, id) : id \in ids}

-----------------------------------------------------------------------------
(* The tables' columns, and what holds between the tables.                 *)

\* Rows and lists keyed by identity: partial functions.
PartialFunctions(S, T) == UNION {[D -> T] : D \in SUBSET S}

Tables == [folders     : PartialFunctions(FolderRef, FolderState),
           messages    : PartialFunctions(MessageKey, MessageRow),
           memberships : SUBSET Membership]

FolderBatch ==
    [removed       : SUBSET MessageId,
     flag_states   : PartialFunctions(MessageId, Flags),
     arrived       : PartialFunctions(MessageId, Arrival),
     known_arrived : PartialFunctions(MessageId, Flags),
     state         : {{}} \union {{st} : st \in FolderState}]

\* The messages and the folder of every membership are stored, in one account.
ReferencesHold(s) ==
    \A m \in s.memberships :
        /\ m.folder \in DOMAIN s.folders
        /\ m.message \in DOMAIN s.messages
        /\ m.folder.account = m.message.account

Held(s, key)   == \E m \in s.memberships : m.message = key
HeldIn(s, ref) == {m.message.identity : m \in {n \in s.memberships : n.folder = ref}}

\* No stored message is outside every folder.
NoOrphans(s) == \A key \in DOMAIN s.messages : Held(s, key)

-----------------------------------------------------------------------------
(* The tables' rows: deletions with their cascade, and updates.            *)

\* Mutant: foreign keys left off, as SQLite does by default.
WithoutFoldersNoCascade(s, gone) == [s EXCEPT !.folders = Restrict(@, DOMAIN @ \ gone)]

\* DELETE FROM folder: the memberships go with it (ON DELETE CASCADE).
WithoutFolders(s, gone) ==
    [s EXCEPT !.folders = Restrict(@, DOMAIN @ \ gone),
              !.memberships = {m \in @ : m.folder \notin gone}]

\* DELETE FROM message, with the same cascade.
WithoutMessages(s, gone) ==
    [s EXCEPT !.messages = Restrict(@, DOMAIN @ \ gone),
              !.memberships = {m \in @ : m.message \notin gone}]

DeleteUnlistedFolders(s, account, listed) ==
    WithoutFolders(s, {f \in DOMAIN s.folders :
                          f.account = account /\ f.identity \notin listed})

DeleteMessagesWithoutFolder(s, account) ==
    WithoutMessages(s, {k \in DOMAIN s.messages :
                           k.account = account /\ ~Held(s, k)})

\* A listed folder the store holds keeps its state; a new one is never
\* synchronized.
UpsertFolders(s, account, listed) ==
    [s EXCEPT !.folders =
        [f \in DOMAIN s.folders \union {Ref(account, i) : i \in listed} |->
            IF f \in DOMAIN s.folders THEN s.folders[f] ELSE NeverSynchronized]]

\* Mutant: the removal is taken for the message's place in every folder.
DeleteMembershipsEverywhere(s, folder, removed) ==
    [s EXCEPT !.memberships = {m \in @ : m.message \notin KeysOf(folder.account, removed)}]

DeleteMemberships(s, folder, removed) ==
    [s EXCEPT !.memberships =
        {m \in @ : ~(m.folder = folder
                     /\ m.message \in KeysOf(folder.account, removed))}]

\* Mutant: a report ends the wishes, as if it answered them.
SetFlagStatesEndingWishes(s, account, flag_states) ==
    [s EXCEPT !.messages =
        [k \in DOMAIN s.messages |->
            IF k \in KeysOf(account, DOMAIN flag_states)
            THEN [s.messages[k] EXCEPT !.server = flag_states[k.identity],
                                       !.pending = [f \in MessageFlag |-> {}]]
            ELSE s.messages[k]]]

\* The server's flags of the reported messages; the pending values stay.
SetFlagStates(s, account, flag_states) ==
    [s EXCEPT !.messages =
        [k \in DOMAIN s.messages |->
            IF k \in KeysOf(account, DOMAIN flag_states)
            THEN [s.messages[k] EXCEPT !.server = flag_states[k.identity]]
            ELSE s.messages[k]]]

\* Mutant: the record's content always replaces the stored one.
ContentAfterReplacing(stored, received) == received

\* The content an upserted record leaves: a text not downloaded never
\* replaces a content, and a text not returned never replaces a text.
ContentAfter(stored, received) ==
    IF \/ received = "not_downloaded"
       \/ received = "text_not_returned" /\ stored = "text"
    THEN stored
    ELSE received

\* The row a full record inserts, and the row it leaves of a stored one,
\* whose pending values stay.
NewRow(record) == [server  |-> record.flags,
                   pending |-> [f \in MessageFlag |-> {}],
                   content |-> record.content]

UpsertedRow(stored, record) == [server  |-> record.flags,
                                pending |-> stored.pending,
                                content |-> ContentAfter(stored.content, record.content)]

\* Each full record, stored once by its identity and related to the folder.
StoreArrived(s, folder, arrived) ==
    LET keys == KeysOf(folder.account, DOMAIN arrived)
        rows == [k \in DOMAIN s.messages \union keys |->
                    IF k \notin keys THEN s.messages[k]
                    ELSE IF k \in DOMAIN s.messages
                    THEN UpsertedRow(s.messages[k], arrived[k.identity])
                    ELSE NewRow(arrived[k.identity])]
    IN  [s EXCEPT !.messages = rows,
                  !.memberships = @ \union {[folder |-> folder, message |-> k] : k \in keys}]

\* Messages the account holds already, related with their listed flags; one
\* the store no longer holds is left out.
RelateKnown(s, folder, known_arrived) ==
    LET held == KeysOf(folder.account, DOMAIN known_arrived) \intersect DOMAIN s.messages
    IN  SetFlagStates(
            [s EXCEPT !.memberships =
                @ \union {[folder |-> folder, message |-> k] : k \in held}],
            folder.account, known_arrived)

WriteFolderState(s, folder, state) ==
    [s EXCEPT !.folders[folder] = state]

-----------------------------------------------------------------------------
(* The store's operations, each one transaction.                           *)

ReplaceFolders(s, account, listed) ==
    UpsertFolders(
        DeleteMessagesWithoutFolder(
            DeleteUnlistedFolders(s, account, listed), account),
        account, listed)

\* Mutant: the removed messages' rows stay.
RemoveFromFolderKeepingRows(s, folder, removed) == DeleteMemberships(s, folder, removed)

\* Removals, then the messages they leave in no folder.  The code deletes
\* nothing when the batch names no removal.
RemoveFromFolder(s, folder, removed) ==
    IF removed = {} THEN s
    ELSE DeleteMessagesWithoutFolder(
             DeleteMemberships(s, folder, removed), folder.account)

\* One batch of a cycle; `folder` is stored, or the code fails.
StoreBatch(s, folder, batch) ==
    LET removed == RemoveFromFolder(s, folder, batch.removed)
        flagged == SetFlagStates(removed, folder.account, batch.flag_states)
        arrived == StoreArrived(flagged, folder, batch.arrived)
        related == RelateKnown(arrived, folder, batch.known_arrived)
    IN  IF batch.state = {} THEN related
        ELSE WriteFolderState(related, folder, CHOOSE st \in batch.state : TRUE)

\* An UPDATE of the named messages that are stored.
UpdateMessages(s, account, ids, Update(_)) ==
    [s EXCEPT !.messages =
        [k \in DOMAIN s.messages |->
            IF k \in KeysOf(account, ids) THEN Update(s.messages[k]) ELSE s.messages[k]]]

WritePendingFlag(s, account, id, flag, wanted) ==
    LET Wanted(row) == [row EXCEPT !.pending[flag] = {wanted}]
    IN  UpdateMessages(s, account, {id}, Wanted)

\* The server holds `value`: NULLIF ends a pending value equal to it.
SettleFlags(s, account, ids, flag, value) ==
    LET Settled(row) == [row EXCEPT !.server[flag] = value,
                                    !.pending[flag] = @ \ {value}]
    IN  UpdateMessages(s, account, ids, Settled)

\* The server refused `refused`: only a pending value equal to it ends.
DropPendingFlags(s, account, ids, flag, refused) ==
    LET Dropped(row) == [row EXCEPT !.pending[flag] = @ \ {refused}]
    IN  UpdateMessages(s, account, ids, Dropped)

\* Mutant: the messages are left to a cascade the schema does not have.
DeleteOtherAccountsFoldersOnly(s, current) ==
    WithoutFolders(s, {f \in DOMAIN s.folders : f.account \notin current})

\* The accounts are found by their folders: SELECT DISTINCT account FROM folder.
DeleteOtherAccounts(s, current) ==
    LET removed == {f.account : f \in DOMAIN s.folders} \ current
    IN  WithoutMessages(
            WithoutFolders(s, {f \in DOMAIN s.folders : f.account \in removed}),
            {k \in DOMAIN s.messages : k.account \in removed})

-----------------------------------------------------------------------------
(* The store's reads.                                                      *)

\* What a cycle starts from: the folder's state and the server's flags of
\* the messages it holds.
ReadFolderSync(s, folder) ==
    [state  |-> s.folders[folder],
     stored |-> [i \in HeldIn(s, folder) |-> s.messages[Key(folder.account, i)].server]]

StoredIdentities(s, account, ids) ==
    {i \in ids : Key(account, i) \in DOMAIN s.messages}

\* The changes the user wants of the folder's messages.
ReadPendingChanges(s, folder) ==
    UNION {{[identity |-> i, flag |-> f, wanted |-> v] :
               v \in s.messages[Key(folder.account, i)].pending[f]} :
           i \in HeldIn(s, folder), f \in MessageFlag}
=============================================================================
