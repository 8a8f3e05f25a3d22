------------------------------ MODULE MailStore ------------------------------
(***************************************************************************)
(* The mail store as its callers see it: every operation takes the lock of *)
(* the one connection and is one transaction                               *)
(* (Store::with_connection), so every action below is one step.  Who calls *)
(* what, and when, is left open: cycles, folder list loads, the window and *)
(* the deletion of removed accounts call in any order.  What is proved     *)
(* here holds of every caller; ImapCycle composes the same rows with one.  *)
(***************************************************************************)
EXTENDS StoreRows

CONSTANT Batch      \* the batches the cycles write

ASSUME BatchAssumption == Batch \subseteq FolderBatch

\* No batch removes a message it brings: a listing's removals are of messages
\* it does not list, and a page keeps one change per message.
ASSUME BatchNamesOnce ==
    \A batch \in Batch : batch.removed \intersect DOMAIN batch.arrived = {}

VARIABLE store

TypeInvariant == store \in Tables

Init == store = EmptyStore

-----------------------------------------------------------------------------
(* The operations that write.  `load_cancelled` is what the caller's check *)
(* answers under the lock; a cancelled load writes nothing.                *)

StoreFolderList(account, listed, load_cancelled) ==
    /\ listed # {}          \* store_folder_list stores no empty list
    /\ store' = IF load_cancelled THEN store
                ELSE ReplaceFolders(store, account, listed)

\* A folder the store does not hold fails the write, which changes nothing.
StoreCycleBatch(folder, batch, load_cancelled) ==
    /\ batch # EmptyBatch   \* BatchWriter::store writes no empty batch
    /\ store' = IF load_cancelled \/ folder \notin DOMAIN store.folders THEN store
                ELSE StoreBatch(store, folder, batch)

WriteWish(account, id, flag, wanted) ==
    store' = WritePendingFlag(store, account, id, flag, wanted)

Settle(account, ids, flag, value) ==
    store' = SettleFlags(store, account, ids, flag, value)

DropPending(account, ids, flag, refused) ==
    store' = DropPendingFlags(store, account, ids, flag, refused)

DeleteOthers(current) == store' = DeleteOtherAccounts(store, current)

\* At the first use after a start, open_store discards a damaged file or one
\* of another structure and starts empty; a usable file is as it was left.
OpenDiscarded == store' = EmptyStore

Next ==
    \/ \E account \in Account, listed \in SUBSET FolderId, cancelled \in BOOLEAN :
          StoreFolderList(account, listed, cancelled)
    \/ \E folder \in FolderRef, batch \in Batch, cancelled \in BOOLEAN :
          StoreCycleBatch(folder, batch, cancelled)
    \/ \E account \in Account, id \in MessageId, flag \in MessageFlag, wanted \in BOOLEAN :
          WriteWish(account, id, flag, wanted)
    \/ \E account \in Account, ids \in SUBSET MessageId, flag \in MessageFlag,
          value \in BOOLEAN :
          \/ Settle(account, ids, flag, value)
          \/ DropPending(account, ids, flag, value)
    \/ \E current \in SUBSET Account : DeleteOthers(current)
    \/ OpenDiscarded

Spec == Init /\ [][Next]_store

-----------------------------------------------------------------------------
(* Safety.                                                                 *)

\* Every membership names a stored folder and a stored message of one
\* account, whatever deletions and cascades came before (the schema's
\* foreign keys): a row read through a membership is always there.
MembershipsHoldRows == ReferencesHold(store)

\* No operation, in any order, leaves a message no folder holds: such a row
\* would never be shown, listed as removed or deleted again.
NoOrphanMessages == NoOrphans(store)

\* After the deletion of removed accounts no row of theirs is left.  The
\* code finds the accounts by their folders only, so a message outside every
\* folder would keep a removed account's mail on disk (specs/007 FR-004).
DeletionIsTotal ==
    [][\A current \in SUBSET Account : DeleteOthers(current) =>
          /\ \A f \in DOMAIN store'.folders : f.account \in current
          /\ \A k \in DOMAIN store'.messages : k.account \in current]_store

\* A wish of a message that stays ends only by the server's answer to that
\* very value: no batch, folder list or deletion of other mail touches it,
\* and an answer about one value leaves a newer wish for the other.
WishEndsOnlyByItsAnswer ==
    [][\A k \in DOMAIN store.messages \intersect DOMAIN store'.messages,
          f \in MessageFlag, v \in BOOLEAN :
          /\ v \in store.messages[k].pending[f]
          /\ v \notin store'.messages[k].pending[f]
          => \/ WriteWish(k.account, k.identity, f, ~v)
             \/ \E ids \in SUBSET MessageId :
                   /\ k.identity \in ids
                   /\ \/ Settle(k.account, ids, f, v)
                      \/ DropPending(k.account, ids, f, v)]_store

\* What a cycle of one folder downloaded is never lost to a cycle that did
\* not download it, or to an answer without the text, while the message stays.
ContentIsNeverLost ==
    [][\A k \in DOMAIN store.messages \intersect DOMAIN store'.messages :
          LET before == store.messages[k].content
              after  == store'.messages[k].content
          IN  /\ before # "not_downloaded" => after # "not_downloaded"
              /\ before = "text" => after \in {"text", "explained"}]_store

\* The rows of one account.
AccountRows(s, account) ==
    [folders     |-> Restrict(s.folders, {f \in DOMAIN s.folders : f.account = account}),
     messages    |-> Restrict(s.messages, {k \in DOMAIN s.messages : k.account = account}),
     memberships |-> {m \in s.memberships : account \in {m.folder.account, m.message.account}}]

\* A cycle, a folder list, a wish or an answer touches one account's rows,
\* though identities may be equal across accounts; only the deletion of
\* removed accounts and a discarded file touch several.
OneAccountPerWrite ==
    [][\/ OpenDiscarded
       \/ \E current \in SUBSET Account : DeleteOthers(current)
       \/ \A a, b \in Account :
             \/ a = b
             \/ AccountRows(store', a) = AccountRows(store, a)
             \/ AccountRows(store', b) = AccountRows(store, b)]_store

\* A message leaves a folder only by that folder's own batch or with the
\* folder itself: two folders that stay never lose messages in one step, so
\* a removal in one label never takes a message from another.
RemovalIsLocal ==
    [][\A m, n \in store.memberships \ store'.memberships :
          {m.folder, n.folder} \subseteq DOMAIN store'.folders
          => m.folder = n.folder]_store
=============================================================================
