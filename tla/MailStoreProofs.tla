---------------------------- MODULE MailStoreProofs ----------------------------
(***************************************************************************)
(* What holds of the mail store for every set of accounts, folders and     *)
(* messages, every batch and every order of operations: its invariant, one *)
(* account per write, and what no step may do - end a wish without its     *)
(* answer, lose a downloaded text, or take messages from two folders that  *)
(* stay.  StoreRowsProofs says it of each operation; here they are put     *)
(* together over Next.                                                     *)
(***************************************************************************)
EXTENDS MailStore, StoreRowsProofs

\* Every operation keeps the store's invariant, one step per operation.
LEMMA StepKept == Kept(store) /\ [Next]_store => Kept(store')
<1> SUFFICES ASSUME Kept(store), [Next]_store PROVE Kept(store')
    OBVIOUS
<1>1. ASSUME NEW account \in Account, NEW listed \in SUBSET FolderId,
             NEW cancelled \in BOOLEAN, StoreFolderList(account, listed, cancelled)
      PROVE  Kept(store')
    BY <1>1, ReplaceFoldersKept DEF StoreFolderList
<1>2. ASSUME NEW folder \in FolderRef, NEW batch \in Batch,
             NEW cancelled \in BOOLEAN, StoreCycleBatch(folder, batch, cancelled)
      PROVE  Kept(store')
    BY <1>2, StoreBatchKept, BatchAssumption DEF StoreCycleBatch
<1>3. ASSUME NEW account \in Account, NEW id \in MessageId, NEW flag \in MessageFlag,
             NEW wanted \in BOOLEAN, WriteWish(account, id, flag, wanted)
      PROVE  Kept(store')
    BY <1>3, WishesKept DEF WriteWish
<1>4. ASSUME NEW account \in Account, NEW ids \in SUBSET MessageId,
             NEW flag \in MessageFlag, NEW value \in BOOLEAN,
             Settle(account, ids, flag, value) \/ DropPending(account, ids, flag, value)
      PROVE  Kept(store')
    BY <1>4, WishesKept DEF Settle, DropPending
<1>5. ASSUME NEW current \in SUBSET Account, DeleteOthers(current)
      PROVE  Kept(store')
    BY <1>5, DeleteOtherAccountsKept DEF DeleteOthers
<1>6. ASSUME OpenDiscarded
      PROVE  Kept(store')
    BY <1>6, EmptyStoreKept DEF OpenDiscarded
<1>7. CASE UNCHANGED store
    BY <1>7
<1> QED BY <1>1, <1>2, <1>3, <1>4, <1>5, <1>6, <1>7 DEF Next

\* The inductive invariant: the tables are in range, references hold and no
\* message is outside every folder.  None of the three is inductive alone:
\* a cleanup that frees orphans needs the references to know whose message a
\* deleted membership held.
THEOREM StoreKept == Spec => []Kept(store)
<1>1. Init => Kept(store)
    BY EmptyStoreKept DEF Init
<1>2. Kept(store) /\ [Next]_store => Kept(store)'
    BY StepKept
<1> QED BY <1>1, <1>2, PTL DEF Spec

\* The columns stay in range.
THEOREM TypeCorrect == Spec => []TypeInvariant
<1>1. Kept(store) => TypeInvariant
    BY DEF Kept, Sound, TypeInvariant
<1> QED BY <1>1, StoreKept, PTL

\* Every membership names stored rows of one account (the foreign keys).
THEOREM MembershipsCorrect == Spec => []MembershipsHoldRows
<1>1. Kept(store) => MembershipsHoldRows
    BY DEF Kept, Sound, MembershipsHoldRows
<1> QED BY <1>1, StoreKept, PTL

\* No order of operations leaves a message no folder holds.
THEOREM NoOrphansEver == Spec => []NoOrphanMessages
<1>1. Kept(store) => NoOrphanMessages
    BY DEF Kept, NoOrphanMessages
<1> QED BY <1>1, StoreKept, PTL

\* The deletion of removed accounts leaves no row of theirs, although it
\* finds them by their folders only.
THEOREM DeletionTotal == Spec => DeletionIsTotal
<1> DEFINE Total == \A current \in SUBSET Account : DeleteOthers(current) =>
                       /\ \A f \in DOMAIN store'.folders : f.account \in current
                       /\ \A k \in DOMAIN store'.messages : k.account \in current
<1>1. Kept(store) => Total
    BY DeleteOtherAccountsKept DEF DeleteOthers
<1>2. Kept(store) => [Total]_store
    BY <1>1
<1> QED BY <1>2, StoreKept, PTL DEF DeletionIsTotal

-----------------------------------------------------------------------------
(* One account per write.                                                  *)

\* References never cross accounts, so the rows of another account are
\* exactly those that stayed.
LEMMA OtherRowsSame ==
    ASSUME NEW s, Sound(s), NEW t, Sound(t), NEW account, NEW other,
           SameElsewhere(s, t, account), other # account
    PROVE  AccountRows(t, other) = AccountRows(s, other)
<1> DEFINE FoldersOf(x)  == {f \in DOMAIN x.folders : f.account = other}
           MessagesOf(x) == {k \in DOMAIN x.messages : k.account = other}
           MembersOf(x)  == {m \in x.memberships :
                                other \in {m.folder.account, m.message.account}}
<1>1. FoldersOf(t) = FoldersOf(s) /\ \A f \in FoldersOf(s) : t.folders[f] = s.folders[f]
    BY DEF SameElsewhere
<1>2. MessagesOf(t) = MessagesOf(s) /\ \A k \in MessagesOf(s) : t.messages[k] = s.messages[k]
    BY DEF SameElsewhere
<1>3. MembersOf(t) = MembersOf(s)
  <2>1. \A m \in s.memberships \union t.memberships : m.folder.account = m.message.account
      BY DEF Sound, ReferencesHold
  <2> QED BY <2>1 DEF SameElsewhere
<1>4. /\ Restrict(t.folders, FoldersOf(t)) = Restrict(s.folders, FoldersOf(s))
      /\ Restrict(t.messages, MessagesOf(t)) = Restrict(s.messages, MessagesOf(s))
  <2> HIDE DEF FoldersOf, MessagesOf
  <2> QED BY <1>1, <1>2 DEF Restrict
<1> HIDE DEF MembersOf
<1>5. AccountRows(t, other) = [folders     |-> Restrict(t.folders, FoldersOf(t)),
                               messages    |-> Restrict(t.messages, MessagesOf(t)),
                               memberships |-> MembersOf(t)]
    BY DEF AccountRows, MembersOf
<1>6. AccountRows(s, other) = [folders     |-> Restrict(s.folders, FoldersOf(s)),
                               messages    |-> Restrict(s.messages, MessagesOf(s)),
                               memberships |-> MembersOf(s)]
    BY DEF AccountRows, MembersOf
<1> QED BY <1>3, <1>4, <1>5, <1>6

\* Every step but a deletion of accounts and a discarded file leaves all the
\* accounts but one as they were.
LEMMA StepLocal ==
    ASSUME Kept(store), [Next]_store,
           ~OpenDiscarded, \A current \in SUBSET Account : ~DeleteOthers(current)
    PROVE  \E account : SameElsewhere(store, store', account)
<1>1. ASSUME NEW account \in Account, NEW listed \in SUBSET FolderId,
             NEW cancelled \in BOOLEAN, StoreFolderList(account, listed, cancelled)
      PROVE  \E a : SameElsewhere(store, store', a)
    BY <1>1, ReplaceFoldersLocal, SameAsItself DEF StoreFolderList
<1>2. ASSUME NEW folder \in FolderRef, NEW batch \in Batch,
             NEW cancelled \in BOOLEAN, StoreCycleBatch(folder, batch, cancelled)
      PROVE  \E a : SameElsewhere(store, store', a)
    BY <1>2, StoreBatchLocal, SameAsItself, BatchAssumption DEF StoreCycleBatch
<1>3. ASSUME NEW account \in Account, NEW id \in MessageId, NEW flag \in MessageFlag,
             NEW wanted \in BOOLEAN, WriteWish(account, id, flag, wanted)
      PROVE  \E a : SameElsewhere(store, store', a)
    BY <1>3, WishesLocal DEF WriteWish, Kept
<1>4. ASSUME NEW account \in Account, NEW ids \in SUBSET MessageId,
             NEW flag \in MessageFlag, NEW value \in BOOLEAN,
             Settle(account, ids, flag, value) \/ DropPending(account, ids, flag, value)
      PROVE  \E a : SameElsewhere(store, store', a)
    BY <1>4, WishesLocal DEF Settle, DropPending, Kept
<1>5. CASE UNCHANGED store
    BY <1>5, SameAsItself
<1> QED BY <1>1, <1>2, <1>3, <1>4, <1>5 DEF Next

\* A cycle, a folder list, a wish or an answer changes the rows of one
\* account at most; only the deletion of removed accounts and a discarded
\* file change several.
THEOREM OneAccountWritten == Spec => OneAccountPerWrite
<1> DEFINE Local == \/ OpenDiscarded
                    \/ \E current \in SUBSET Account : DeleteOthers(current)
                    \/ \A a, b \in Account :
                          \/ a = b
                          \/ AccountRows(store', a) = AccountRows(store, a)
                          \/ AccountRows(store', b) = AccountRows(store, b)
<1>1. Kept(store) /\ [Next]_store => Local
  <2> SUFFICES ASSUME Kept(store), [Next]_store, ~OpenDiscarded,
                      \A current \in SUBSET Account : ~DeleteOthers(current),
                      NEW a \in Account, NEW b \in Account, a # b
               PROVE  \/ AccountRows(store', a) = AccountRows(store, a)
                      \/ AccountRows(store', b) = AccountRows(store, b)
      OBVIOUS
  <2>1. PICK account : SameElsewhere(store, store', account)
      BY StepLocal
  <2>2. Sound(store) /\ Sound(store')
      BY StepKept DEF Kept
  <2> QED BY <2>1, <2>2, OtherRowsSame
<1>2. Kept(store) /\ [Next]_store => [Local]_store
    BY <1>1
<1> QED BY <1>2, StoreKept, PTL DEF OneAccountPerWrite, Spec

-----------------------------------------------------------------------------
(* What no step may do.                                                    *)

\* A change of the user and an answer of the server.
WishWritten ==
    \E account \in Account, id \in MessageId, flag \in MessageFlag, wanted \in BOOLEAN :
        WriteWish(account, id, flag, wanted)

AnswerApplied ==
    \E account \in Account, ids \in SUBSET MessageId, flag \in MessageFlag,
       value \in BOOLEAN :
        Settle(account, ids, flag, value) \/ DropPending(account, ids, flag, value)

\* Every step but these two leaves wishes and downloads alone, and takes
\* messages from at most one folder that stays.
LEMMA StepRows ==
    ASSUME Kept(store), [Next]_store, ~WishWritten, ~AnswerApplied
    PROVE  RowsGoOn(store, store') /\ LosesFromOne(store, store')
<1>1. RowsGoOn(store, store) /\ LosesFromOne(store, store)
    BY DEF RowsGoOn, LosesFromOne, ContentStays
<1>2. ASSUME NEW account \in Account, NEW listed \in SUBSET FolderId,
             NEW cancelled \in BOOLEAN, StoreFolderList(account, listed, cancelled)
      PROVE  RowsGoOn(store, store') /\ LosesFromOne(store, store')
  <2>1. CASE cancelled
      BY <1>1, <1>2, <2>1 DEF StoreFolderList
  <2>2. CASE ~cancelled
    <3>1. store' = ReplaceFolders(store, account, listed)
        BY <1>2, <2>2 DEF StoreFolderList
    <3>2. /\ KeepsRows(store, store')
          /\ \A m \in store.memberships \ store'.memberships :
                m.folder \notin DOMAIN store'.folders
        BY <3>1, ReplaceFoldersRows
    <3> QED BY <3>2, KeptRowsGoOn DEF LosesFromOne
  <2> QED BY <2>1, <2>2
<1>3. ASSUME NEW folder \in FolderRef, NEW batch \in Batch,
             NEW cancelled \in BOOLEAN, StoreCycleBatch(folder, batch, cancelled)
      PROVE  RowsGoOn(store, store') /\ LosesFromOne(store, store')
  <2>1. CASE cancelled \/ folder \notin DOMAIN store.folders
      BY <1>1, <1>3, <2>1 DEF StoreCycleBatch
  <2>2. CASE ~cancelled /\ folder \in DOMAIN store.folders
    <3>1. store' = StoreBatch(store, folder, batch)
        BY <1>3, <2>2 DEF StoreCycleBatch
    <3>2. batch \in FolderBatch /\ batch.removed \intersect DOMAIN batch.arrived = {}
        BY BatchAssumption, BatchNamesOnce
    <3>3. /\ RowsGoOn(store, store')
          /\ \A m \in store.memberships \ store'.memberships : m.folder = folder
        BY <2>2, <3>1, <3>2, StoreBatchRows
    <3> QED BY <3>3 DEF LosesFromOne
  <2> QED BY <2>1, <2>2
<1>4. ASSUME NEW current \in SUBSET Account, DeleteOthers(current)
      PROVE  RowsGoOn(store, store') /\ LosesFromOne(store, store')
  <2>1. /\ KeepsRows(store, store')
        /\ \A m \in store.memberships \ store'.memberships :
              m.folder \notin DOMAIN store'.folders
      BY <1>4, DeleteOtherAccountsRows DEF DeleteOthers
  <2> QED BY <2>1, KeptRowsGoOn DEF LosesFromOne
<1>5. ASSUME OpenDiscarded
      PROVE  RowsGoOn(store, store') /\ LosesFromOne(store, store')
    BY <1>5 DEF OpenDiscarded, EmptyStore, NoRows, RowsGoOn, LosesFromOne
<1>6. CASE UNCHANGED store
    BY <1>1, <1>6
<1> QED BY <1>2, <1>3, <1>4, <1>5, <1>6 DEF Next, WishWritten, AnswerApplied

\* Neither of the two moves a message or touches a content.
LEMMA FlagSteps ==
    ASSUME Kept(store), WishWritten \/ AnswerApplied
    PROVE  SameButFlags(store, store')
<1>1. ASSUME NEW account \in Account, NEW id \in MessageId, NEW flag \in MessageFlag,
             NEW wanted \in BOOLEAN, WriteWish(account, id, flag, wanted)
      PROVE  SameButFlags(store, store')
    BY <1>1, WishRows DEF WriteWish, Kept
<1>2. ASSUME NEW account \in Account, NEW ids \in SUBSET MessageId,
             NEW flag \in MessageFlag, NEW value \in BOOLEAN,
             Settle(account, ids, flag, value) \/ DropPending(account, ids, flag, value)
      PROVE  SameButFlags(store, store')
  <2>1. store' \in {SettleFlags(store, account, ids, flag, value),
                    DropPendingFlags(store, account, ids, flag, value)}
      BY <1>2 DEF Settle, DropPending
  <2> QED BY <2>1, AnswerRows DEF Kept
<1> QED BY <1>1, <1>2 DEF WishWritten, AnswerApplied

\* A wish of a message that stays ends only by an answer to that very value
\* or a newer wish for the other, whatever else is written in between.
THEOREM WishEndsByAnswer == Spec => WishEndsOnlyByItsAnswer
<1> DEFINE Ends(k, f, v) ==
               \/ WriteWish(k.account, k.identity, f, ~v)
               \/ \E ids \in SUBSET MessageId :
                     /\ k.identity \in ids
                     /\ \/ Settle(k.account, ids, f, v)
                        \/ DropPending(k.account, ids, f, v)
           Inner == \A k \in DOMAIN store.messages \intersect DOMAIN store'.messages,
                       f \in MessageFlag, v \in BOOLEAN :
                       /\ v \in store.messages[k].pending[f]
                       /\ v \notin store'.messages[k].pending[f]
                       => \/ WriteWish(k.account, k.identity, f, ~v)
                          \/ \E ids \in SUBSET MessageId :
                                /\ k.identity \in ids
                                /\ \/ Settle(k.account, ids, f, v)
                                   \/ DropPending(k.account, ids, f, v)
<1>1. Kept(store) /\ [Next]_store => Inner
  <2> SUFFICES ASSUME Kept(store), [Next]_store,
                      NEW k \in DOMAIN store.messages \intersect DOMAIN store'.messages,
                      NEW f \in MessageFlag, NEW v \in BOOLEAN,
                      LosesWish(store, store', k, f, v)
               PROVE  Ends(k, f, v)
      BY DEF LosesWish
  <2>1. ASSUME NEW account \in Account, NEW id \in MessageId, NEW flag \in MessageFlag,
               NEW wanted \in BOOLEAN, WriteWish(account, id, flag, wanted)
        PROVE  Ends(k, f, v)
    <3>1. LosesTheOther(store, store', Key(account, id), flag, wanted)
        BY <2>1, WishRows DEF WriteWish, Kept
    <3>2. k = Key(account, id) /\ f = flag /\ v # wanted
        BY <3>1, Zenon DEF LosesTheOther
    <3>3. k.account = account /\ k.identity = id /\ wanted = ~v
        BY <3>2 DEF Key
    <3> QED BY <2>1, <3>2, <3>3
  <2>2. ASSUME NEW account \in Account, NEW ids \in SUBSET MessageId,
               NEW flag \in MessageFlag, NEW value \in BOOLEAN,
               Settle(account, ids, flag, value) \/ DropPending(account, ids, flag, value)
        PROVE  Ends(k, f, v)
    <3>1. store' \in {SettleFlags(store, account, ids, flag, value),
                      DropPendingFlags(store, account, ids, flag, value)}
        BY <2>2 DEF Settle, DropPending
    <3>2. LosesOnly(store, store', KeysOf(account, ids), flag, value)
        BY <3>1, AnswerRows DEF Kept
    <3>3. k \in KeysOf(account, ids) /\ f = flag /\ v = value
        BY <3>2, Zenon DEF LosesOnly
    <3>4. k.account = account /\ k.identity \in ids
        BY <3>3 DEF KeysOf, Key
    <3> QED BY <2>2, <3>3, <3>4
  <2>3. CASE ~WishWritten /\ ~AnswerApplied
    <3>1. RowsGoOn(store, store')
        BY <2>3, StepRows
    <3> QED BY <3>1 DEF RowsGoOn, LosesWish
  <2> QED BY <2>1, <2>2, <2>3 DEF WishWritten, AnswerApplied
<1>2. Kept(store) /\ [Next]_store => [Inner]_store
    BY <1>1
<1> QED BY <1>2, StoreKept, PTL DEF WishEndsOnlyByItsAnswer, Spec

\* What was downloaded stays downloaded, and a text is replaced by nothing
\* that says less, while the message stays.
THEOREM ContentKept == Spec => ContentIsNeverLost
<1> DEFINE Inner ==
        \A k \in DOMAIN store.messages \intersect DOMAIN store'.messages :
            LET before == store.messages[k].content
                after  == store'.messages[k].content
            IN  /\ before # "not_downloaded" => after # "not_downloaded"
                /\ before = "text" => after \in {"text", "explained"}
<1>1. Kept(store) /\ [Next]_store => Inner
  <2> SUFFICES ASSUME Kept(store), [Next]_store PROVE Inner
      OBVIOUS
  <2>1. CASE WishWritten \/ AnswerApplied
    <3>1. SameButFlags(store, store')
        BY <2>1, FlagSteps
    <3> QED BY <3>1 DEF SameButFlags
  <2>2. CASE ~WishWritten /\ ~AnswerApplied
    <3>1. RowsGoOn(store, store')
        BY <2>2, StepRows
    <3> QED BY <3>1 DEF RowsGoOn, ContentStays
  <2> QED BY <2>1, <2>2
<1>2. Kept(store) /\ [Next]_store => [Inner]_store
    BY <1>1
<1> QED BY <1>2, StoreKept, PTL DEF ContentIsNeverLost, Spec

\* One step never takes messages from two folders that stay.
THEOREM RemovalLocal == Spec => RemovalIsLocal
<1> DEFINE Inner == \A m, n \in store.memberships \ store'.memberships :
                       {m.folder, n.folder} \subseteq DOMAIN store'.folders
                       => m.folder = n.folder
<1>1. Kept(store) /\ [Next]_store => Inner
  <2> SUFFICES ASSUME Kept(store), [Next]_store PROVE Inner
      OBVIOUS
  <2>1. CASE WishWritten \/ AnswerApplied
    <3>1. SameButFlags(store, store')
        BY <2>1, FlagSteps
    <3> QED BY <3>1 DEF SameButFlags
  <2>2. CASE ~WishWritten /\ ~AnswerApplied
    <3>1. LosesFromOne(store, store')
        BY <2>2, StepRows
    <3> QED BY <3>1 DEF LosesFromOne
  <2> QED BY <2>1, <2>2
<1>2. Kept(store) /\ [Next]_store => [Inner]_store
    BY <1>1
<1> QED BY <1>2, StoreKept, PTL DEF RemovalIsLocal, Spec
=============================================================================
