---------------------------- MODULE StoreRowsProofs ----------------------------
(***************************************************************************)
(* Lemmas about the operations on the store's rows, for every set of       *)
(* accounts, folders and messages: cited by the proofs about every module  *)
(* that writes the store.  Each table operation gets three: it keeps the   *)
(* columns in range and the references; it touches no other account; it    *)
(* keeps the wishes and what was downloaded.  Orphans appear and disappear *)
(* inside a transaction, so what an operation does to them is stated apart *)
(* and put together per transaction.                                       *)
(***************************************************************************)
EXTENDS StoreRows, TLAPS

\* The columns and the foreign keys: what every table operation keeps.
Sound(s) == s \in Tables /\ ReferencesHold(s)

-----------------------------------------------------------------------------
(* Partial functions and their parts.                                      *)

\* What membership in PartialFunctions says, in the form the provers use.
LEMMA PartialFunctionType ==
    ASSUME NEW S, NEW T, NEW f
    PROVE  f \in PartialFunctions(S, T)
             <=> DOMAIN f \subseteq S /\ f \in [DOMAIN f -> T]
<1>1. ASSUME f \in PartialFunctions(S, T)
      PROVE  DOMAIN f \subseteq S /\ f \in [DOMAIN f -> T]
    BY <1>1 DEF PartialFunctions
<1>2. ASSUME DOMAIN f \subseteq S, f \in [DOMAIN f -> T]
      PROVE  f \in PartialFunctions(S, T)
    BY <1>2 DEF PartialFunctions
<1> QED BY <1>1, <1>2

\* The tables' types, unfolded.
LEMMA TablesType ==
    ASSUME NEW s
    PROVE  s \in Tables <=>
             /\ s = [folders |-> s.folders, messages |-> s.messages,
                     memberships |-> s.memberships]
             /\ DOMAIN s.folders \subseteq FolderRef
             /\ s.folders \in [DOMAIN s.folders -> FolderState]
             /\ DOMAIN s.messages \subseteq MessageKey
             /\ s.messages \in [DOMAIN s.messages -> MessageRow]
             /\ s.memberships \subseteq Membership
<1>1. /\ s.folders \in PartialFunctions(FolderRef, FolderState)
         <=> DOMAIN s.folders \subseteq FolderRef
             /\ s.folders \in [DOMAIN s.folders -> FolderState]
      /\ s.messages \in PartialFunctions(MessageKey, MessageRow)
         <=> DOMAIN s.messages \subseteq MessageKey
             /\ s.messages \in [DOMAIN s.messages -> MessageRow]
    BY PartialFunctionType
<1> QED BY <1>1 DEF Tables

\* What a write of one or two tables leaves of the others.
LEMMA TablesWritten ==
    ASSUME NEW s \in Tables, NEW x, NEW y
    PROVE  /\ [s EXCEPT !.messages = x, !.memberships = y]
              = [folders |-> s.folders, messages |-> x, memberships |-> y]
           /\ [s EXCEPT !.memberships = y]
              = [folders |-> s.folders, messages |-> s.messages, memberships |-> y]
<1> DEFINE u == [s EXCEPT !.messages = x]
<1>1. s = [folders |-> s.folders, messages |-> s.messages, memberships |-> s.memberships]
    BY TablesType
<1>2. u = [folders |-> s.folders, messages |-> x, memberships |-> s.memberships]
    BY <1>1
<1>3. [u EXCEPT !.memberships = y] = [folders |-> s.folders, messages |-> x, memberships |-> y]
  <2> HIDE DEF u
  <2> QED BY <1>2
<1>4. [s EXCEPT !.messages = x, !.memberships = y] = [u EXCEPT !.memberships = y]
    OBVIOUS
<1> QED BY <1>1, <1>3, <1>4

-----------------------------------------------------------------------------
(* Deletions.                                                              *)

\* Deleting folders keeps the columns and, by the cascade, the references.
LEMMA WithoutFoldersSound ==
    ASSUME NEW s, Sound(s), NEW gone
    PROVE  /\ Sound(WithoutFolders(s, gone))
           /\ WithoutFolders(s, gone) =
                 [folders     |-> [f \in DOMAIN s.folders \ gone |-> s.folders[f]],
                  messages    |-> s.messages,
                  memberships |-> {m \in s.memberships : m.folder \notin gone}]
<1> DEFINE t == WithoutFolders(s, gone)
<1>1. /\ t = [folders     |-> [f \in DOMAIN s.folders \ gone |-> s.folders[f]],
              messages    |-> s.messages,
              memberships |-> {m \in s.memberships : m.folder \notin gone}]
    BY TablesType DEF Sound, WithoutFolders, Restrict
<1>2. t \in Tables
    BY <1>1, TablesType DEF Sound
<1>3. ReferencesHold(t)
    BY <1>1 DEF Sound, ReferencesHold
<1> QED BY <1>1, <1>2, <1>3 DEF Sound

\* Deleting messages does too.
LEMMA WithoutMessagesSound ==
    ASSUME NEW s, Sound(s), NEW gone
    PROVE  /\ Sound(WithoutMessages(s, gone))
           /\ WithoutMessages(s, gone) =
                 [folders     |-> s.folders,
                  messages    |-> [k \in DOMAIN s.messages \ gone |-> s.messages[k]],
                  memberships |-> {m \in s.memberships : m.message \notin gone}]
<1> DEFINE t == WithoutMessages(s, gone)
<1>1. /\ t = [folders     |-> s.folders,
              messages    |-> [k \in DOMAIN s.messages \ gone |-> s.messages[k]],
              memberships |-> {m \in s.memberships : m.message \notin gone}]
    BY TablesType DEF Sound, WithoutMessages, Restrict
<1>2. t \in Tables
    BY <1>1, TablesType DEF Sound
<1>3. ReferencesHold(t)
    BY <1>1 DEF Sound, ReferencesHold
<1> QED BY <1>1, <1>2, <1>3 DEF Sound

\* The deletion of messages without folder leaves every other message, and
\* no orphan of that account.
LEMMA OrphansDeleted ==
    ASSUME NEW s, Sound(s), NEW account
    PROVE  LET t == DeleteMessagesWithoutFolder(s, account) IN
           /\ Sound(t)
           /\ t.memberships = s.memberships
           /\ t.folders = s.folders
           /\ \A k \in DOMAIN t.messages :
                 k \in DOMAIN s.messages /\ (k.account = account => Held(t, k))
<1> DEFINE gone == {k \in DOMAIN s.messages : k.account = account /\ ~Held(s, k)}
           t == WithoutMessages(s, gone)
<1>1. t = [folders     |-> s.folders,
           messages    |-> [k \in DOMAIN s.messages \ gone |-> s.messages[k]],
           memberships |-> {m \in s.memberships : m.message \notin gone}]
    BY WithoutMessagesSound
<1>2. \A m \in s.memberships : m.message \notin gone
    BY DEF Held
<1>3. t.memberships = s.memberships
  <2> HIDE DEF gone
  <2>1. {m \in s.memberships : m.message \notin gone} = s.memberships
      BY <1>2
  <2> QED BY <1>1, <2>1
<1>4. \A k \in DOMAIN t.messages :
         k \in DOMAIN s.messages /\ (k.account = account => Held(t, k))
  <2> HIDE DEF t
  <2> SUFFICES ASSUME NEW k \in DOMAIN t.messages
               PROVE  k \in DOMAIN s.messages /\ (k.account = account => Held(t, k))
      OBVIOUS
  <2>1. k \in DOMAIN s.messages /\ k \notin gone
      BY <1>1
  <2> QED BY <1>3, <2>1 DEF Held
<1>5. Sound(t)
    BY WithoutMessagesSound
<1> QED BY <1>1, <1>3, <1>4, <1>5 DEF DeleteMessagesWithoutFolder

-----------------------------------------------------------------------------
(* Insertions and updates.                                                 *)

\* Listing folders adds rows and changes no other table.
LEMMA UpsertFoldersSound ==
    ASSUME NEW s, Sound(s), NEW account \in Account, NEW listed \in SUBSET FolderId
    PROVE  LET t == UpsertFolders(s, account, listed) IN
           Sound(t) /\ t.messages = s.messages /\ t.memberships = s.memberships
<1> DEFINE t == UpsertFolders(s, account, listed)
           D == DOMAIN s.folders \union {Ref(account, i) : i \in listed}
<1>1. t = [folders     |-> [f \in D |-> IF f \in DOMAIN s.folders THEN s.folders[f]
                                        ELSE NeverSynchronized],
           messages    |-> s.messages,
           memberships |-> s.memberships]
    BY TablesType DEF Sound, UpsertFolders
<1>2. D \subseteq FolderRef
    BY TablesType DEF Sound, Ref, FolderRef
<1>3. NeverSynchronized \in FolderState
    BY NoPlaceAssumption DEF NeverSynchronized, FolderState
<1>4. t \in Tables
    BY <1>1, <1>2, <1>3, TablesType DEF Sound
<1>5. ReferencesHold(t)
    BY <1>1 DEF Sound, ReferencesHold
<1> QED BY <1>1, <1>4, <1>5 DEF Sound

\* Dropping memberships keeps the columns and the references.
LEMMA DeleteMembershipsSound ==
    ASSUME NEW s, Sound(s), NEW folder, NEW removed
    PROVE  LET t == DeleteMemberships(s, folder, removed) IN
           /\ Sound(t)
           /\ t.messages = s.messages
           /\ t.folders = s.folders
           /\ \A m \in s.memberships : m \notin t.memberships => m.folder = folder
<1> DEFINE t == DeleteMemberships(s, folder, removed)
<1>1. t = [folders     |-> s.folders,
           messages    |-> s.messages,
           memberships |-> {m \in s.memberships :
                               ~(m.folder = folder
                                 /\ m.message \in KeysOf(folder.account, removed))}]
    BY TablesType DEF Sound, DeleteMemberships
<1>2. t \in Tables
    BY <1>1, TablesType DEF Sound
<1>3. ReferencesHold(t)
    BY <1>1 DEF Sound, ReferencesHold
<1> QED BY <1>1, <1>2, <1>3 DEF Sound

\* An update of rows that stay rows keeps the columns and the references,
\* whatever it writes: the form every UPDATE of the store has.
LEMMA RowsUpdated ==
    ASSUME NEW s, Sound(s), NEW t, NEW rows,
           t = [folders |-> s.folders, messages |-> rows, memberships |-> s.memberships],
           DOMAIN rows = DOMAIN s.messages,
           rows \in [DOMAIN s.messages -> MessageRow]
    PROVE  Sound(t)
<1>1. t \in Tables
    BY TablesType DEF Sound
<1>2. ReferencesHold(t)
    BY DEF Sound, ReferencesHold
<1> QED BY <1>1, <1>2 DEF Sound

\* The server's flags, written into the rows that are stored.
LEMMA SetFlagStatesSound ==
    ASSUME NEW s, Sound(s), NEW account,
           NEW flag_states \in PartialFunctions(MessageId, Flags)
    PROVE  LET t == SetFlagStates(s, account, flag_states) IN
           /\ Sound(t)
           /\ DOMAIN t.messages = DOMAIN s.messages
           /\ t.memberships = s.memberships
           /\ t.folders = s.folders
<1> DEFINE t == SetFlagStates(s, account, flag_states)
           rows == [k \in DOMAIN s.messages |->
                       IF k \in KeysOf(account, DOMAIN flag_states)
                       THEN [s.messages[k] EXCEPT !.server = flag_states[k.identity]]
                       ELSE s.messages[k]]
<1>1. t = [folders |-> s.folders, messages |-> rows, memberships |-> s.memberships]
    BY TablesType DEF Sound, SetFlagStates
<1>2. rows \in [DOMAIN s.messages -> MessageRow]
  <2> SUFFICES ASSUME NEW k \in DOMAIN s.messages,
                      k \in KeysOf(account, DOMAIN flag_states)
               PROVE  [s.messages[k] EXCEPT !.server = flag_states[k.identity]] \in MessageRow
      BY TablesType DEF Sound
  <2>1. flag_states[k.identity] \in Flags
      BY PartialFunctionType DEF KeysOf, Key
  <2>2. s.messages[k] \in MessageRow
      BY TablesType DEF Sound
  <2> QED BY <2>1, <2>2 DEF MessageRow
<1>3. Sound(t)
    BY <1>1, <1>2, RowsUpdated
<1> QED BY <1>1, <1>3

\* Full records: each is a row, related to the folder.
LEMMA StoreArrivedSound ==
    ASSUME NEW s, Sound(s), NEW folder \in DOMAIN s.folders,
           NEW arrived \in PartialFunctions(MessageId, Arrival)
    PROVE  LET t == StoreArrived(s, folder, arrived) IN
           /\ Sound(t)
           /\ t.folders = s.folders
           /\ s.memberships \subseteq t.memberships
           /\ \A k \in DOMAIN t.messages : k \in DOMAIN s.messages \/ Held(t, k)
<1> DEFINE keys == KeysOf(folder.account, DOMAIN arrived)
           row(k) == IF k \notin keys THEN s.messages[k]
                     ELSE IF k \in DOMAIN s.messages
                     THEN UpsertedRow(s.messages[k], arrived[k.identity])
                     ELSE NewRow(arrived[k.identity])
           rows == [k \in DOMAIN s.messages \union keys |-> row(k)]
           related == {[folder |-> folder, message |-> k] : k \in keys}
           t == StoreArrived(s, folder, arrived)
<1>1. t = [folders |-> s.folders, messages |-> rows,
           memberships |-> s.memberships \union related]
  <2>1. t = [s EXCEPT !.messages = rows, !.memberships = s.memberships \union related]
      BY DEF StoreArrived
  <2> HIDE DEF t, rows, related
  <2> QED BY <2>1, TablesWritten DEF Sound
<1>2. folder \in FolderRef /\ folder.account \in Account
    BY TablesType DEF Sound, FolderRef
<1>3. keys \subseteq MessageKey
    BY <1>2, PartialFunctionType DEF KeysOf, Key, MessageKey
<1>4. \A k \in keys : k.identity \in DOMAIN arrived /\ arrived[k.identity] \in Arrival
    BY PartialFunctionType DEF KeysOf, Key
<1>5. ASSUME NEW k \in DOMAIN s.messages \union keys
      PROVE  row(k) \in MessageRow
  <2>1. CASE k \notin keys
      BY <2>1, TablesType DEF Sound
  <2>2. CASE k \in keys /\ k \in DOMAIN s.messages
    <3>1. s.messages[k] \in MessageRow
        BY <2>2, TablesType DEF Sound
    <3>2. ContentAfter(s.messages[k].content, arrived[k.identity].content) \in ContentKind
        BY <3>1, <2>2, <1>4 DEF ContentAfter, MessageRow, Arrival
    <3> QED BY <2>2, <3>1, <3>2, <1>4 DEF MessageRow, Arrival, UpsertedRow
  <2>3. CASE k \in keys /\ k \notin DOMAIN s.messages
      BY <2>3, <1>4 DEF MessageRow, Arrival, Wish, NewRow
  <2> QED BY <2>1, <2>2, <2>3
<1>6. rows \in [DOMAIN s.messages \union keys -> MessageRow]
    BY <1>5
<1>7. related \subseteq Membership
    BY <1>2, <1>3 DEF Membership
<1>8. t \in Tables
  <2> HIDE DEF rows, related, keys
  <2> QED BY <1>1, <1>3, <1>6, <1>7, TablesType DEF Sound
<1>9. ReferencesHold(t)
  <2>1. \A m \in related : /\ m.folder = folder
                           /\ m.message \in keys
                           /\ m.message.account = folder.account
      BY DEF KeysOf, Key
  <2> HIDE DEF related, row, keys, t
  <2>2. DOMAIN t.messages = DOMAIN s.messages \union keys
      BY <1>1
  <2> QED BY <1>1, <2>1, <2>2 DEF Sound, ReferencesHold
<1>10. ASSUME NEW k \in DOMAIN t.messages
       PROVE  k \in DOMAIN s.messages \/ Held(t, k)
  <2> HIDE DEF t, row, keys
  <2>1. k \in DOMAIN s.messages \/ k \in keys
      BY <1>1
  <2>2. ASSUME k \in keys
        PROVE  Held(t, k)
    <3>1. [folder |-> folder, message |-> k] \in t.memberships
        BY <1>1, <2>2
    <3> QED BY <3>1 DEF Held
  <2> QED BY <2>1, <2>2
<1> HIDE DEF row, keys
<1> QED BY <1>1, <1>8, <1>9, <1>10 DEF Sound

\* Known messages: memberships of rows that are stored, and their flags.
LEMMA RelateKnownSound ==
    ASSUME NEW s, Sound(s), NEW folder \in DOMAIN s.folders,
           NEW known \in PartialFunctions(MessageId, Flags)
    PROVE  LET t == RelateKnown(s, folder, known) IN
           /\ Sound(t)
           /\ t.folders = s.folders
           /\ s.memberships \subseteq t.memberships
           /\ DOMAIN t.messages = DOMAIN s.messages
<1> DEFINE held == KeysOf(folder.account, DOMAIN known) \intersect DOMAIN s.messages
           related == {[folder |-> folder, message |-> k] : k \in held}
           u == [s EXCEPT !.memberships = s.memberships \union related]
<1>1. u = [folders |-> s.folders, messages |-> s.messages,
           memberships |-> s.memberships \union related]
  <2> HIDE DEF related
  <2> QED BY TablesWritten DEF Sound
<1>2. \A m \in related : /\ m \in Membership
                         /\ m.folder = folder
                         /\ m.message \in DOMAIN s.messages
                         /\ m.message.account = folder.account
  <2>1. folder \in FolderRef /\ DOMAIN s.messages \subseteq MessageKey
      BY TablesType DEF Sound
  <2> QED BY <2>1 DEF Membership, KeysOf, Key
<1>3. Sound(u)
  <2> HIDE DEF related, u
  <2>1. u \in Tables
      BY <1>1, <1>2, TablesType DEF Sound
  <2>2. ReferencesHold(u)
      BY <1>1, <1>2 DEF Sound, ReferencesHold
  <2> QED BY <2>1, <2>2 DEF Sound
<1>4. RelateKnown(s, folder, known) = SetFlagStates(u, folder.account, known)
    BY DEF RelateKnown
<1> HIDE DEF u
<1>5. LET t == SetFlagStates(u, folder.account, known) IN
      /\ Sound(t)
      /\ DOMAIN t.messages = DOMAIN u.messages
      /\ t.memberships = u.memberships
      /\ t.folders = u.folders
    BY <1>3, SetFlagStatesSound
<1> QED BY <1>1, <1>4, <1>5

\* The folder's state, written into the row the batch is for.
LEMMA WriteFolderStateSound ==
    ASSUME NEW s, Sound(s), NEW folder \in DOMAIN s.folders, NEW state \in FolderState
    PROVE  LET t == WriteFolderState(s, folder, state) IN
           /\ Sound(t)
           /\ t.messages = s.messages
           /\ t.memberships = s.memberships
<1> DEFINE t == WriteFolderState(s, folder, state)
<1>1. t = [folders     |-> [s.folders EXCEPT ![folder] = state],
           messages    |-> s.messages,
           memberships |-> s.memberships]
    BY TablesType DEF Sound, WriteFolderState
<1>2. t \in Tables
    BY <1>1, TablesType DEF Sound
<1>3. ReferencesHold(t)
    BY <1>1 DEF Sound, ReferencesHold
<1> QED BY <1>1, <1>2, <1>3 DEF Sound

-----------------------------------------------------------------------------
(* The transactions.  `Kept` is the inductive invariant of the store.      *)

Kept(s) == Sound(s) /\ NoOrphans(s)

\* A write that keeps every row and every membership makes no orphan.
LEMMA RowsKeepTheirFolders ==
    ASSUME NEW s, NoOrphans(s), NEW t,
           DOMAIN t.messages \subseteq DOMAIN s.messages,
           s.memberships \subseteq t.memberships
    PROVE  NoOrphans(t)
    BY DEF NoOrphans, Held

\* The user's wish, the server's agreement and its refusal: updates of rows
\* that stay.
LEMMA WishesKept ==
    ASSUME NEW s, Kept(s), NEW account, NEW ids, NEW id,
           NEW flag \in MessageFlag, NEW value \in BOOLEAN
    PROVE  /\ Kept(WritePendingFlag(s, account, id, flag, value))
           /\ Kept(SettleFlags(s, account, ids, flag, value))
           /\ Kept(DropPendingFlags(s, account, ids, flag, value))
<1> DEFINE Written(rows) == [folders |-> s.folders, messages |-> rows,
                             memberships |-> s.memberships]
           wanted(k) == [s.messages[k] EXCEPT !.pending[flag] = {value}]
           settled(k) == [s.messages[k] EXCEPT !.server[flag] = value,
                                               !.pending[flag] = @ \ {value}]
           dropped(k) == [s.messages[k] EXCEPT !.pending[flag] = @ \ {value}]
           rows1 == [k \in DOMAIN s.messages |->
                        IF k \in KeysOf(account, {id}) THEN wanted(k) ELSE s.messages[k]]
           rows2 == [k \in DOMAIN s.messages |->
                        IF k \in KeysOf(account, ids) THEN settled(k) ELSE s.messages[k]]
           rows3 == [k \in DOMAIN s.messages |->
                        IF k \in KeysOf(account, ids) THEN dropped(k) ELSE s.messages[k]]
<1>1. ASSUME NEW k \in DOMAIN s.messages
      PROVE  /\ s.messages[k] \in MessageRow
             /\ wanted(k) \in MessageRow
             /\ settled(k) \in MessageRow
             /\ dropped(k) \in MessageRow
  <2>1. s.messages[k] \in MessageRow
      BY TablesType DEF Kept, Sound
  <2> DEFINE row == s.messages[k]
  <2>2. /\ row = [server |-> row.server, pending |-> row.pending, content |-> row.content]
        /\ row.server \in Flags
        /\ row.pending \in [MessageFlag -> Wish]
        /\ row.content \in ContentKind
      BY <2>1 DEF MessageRow
  <2>3. row.pending[flag] \ {value} \in Wish
      BY <2>2 DEF Wish
  <2>4. [row.pending EXCEPT ![flag] = {value}] \in [MessageFlag -> Wish]
      BY <2>2 DEF Wish
  <2>5. [row.pending EXCEPT ![flag] = @ \ {value}] \in [MessageFlag -> Wish]
      BY <2>2, <2>3
  <2>6. [row.server EXCEPT ![flag] = value] \in Flags
      BY <2>2 DEF Flags
  <2> HIDE DEF row
  <2> QED BY <2>1, <2>2, <2>4, <2>5, <2>6 DEF MessageRow, row
<1>2. ASSUME NEW rows, rows \in [DOMAIN s.messages -> MessageRow]
      PROVE  Kept(Written(rows))
  <2>1. Sound(Written(rows))
      BY <1>2, RowsUpdated DEF Kept
  <2>2. NoOrphans(Written(rows))
      BY <1>2, RowsKeepTheirFolders DEF Kept
  <2> QED BY <2>1, <2>2 DEF Kept
<1>3. /\ rows1 \in [DOMAIN s.messages -> MessageRow]
      /\ rows2 \in [DOMAIN s.messages -> MessageRow]
      /\ rows3 \in [DOMAIN s.messages -> MessageRow]
    BY <1>1
<1>4. s = Written(s.messages)
    BY TablesType DEF Kept, Sound
<1>5. /\ WritePendingFlag(s, account, id, flag, value) = Written(rows1)
      /\ SettleFlags(s, account, ids, flag, value) = Written(rows2)
      /\ DropPendingFlags(s, account, ids, flag, value) = Written(rows3)
  <2>1. /\ WritePendingFlag(s, account, id, flag, value) = [s EXCEPT !.messages = rows1]
        /\ SettleFlags(s, account, ids, flag, value) = [s EXCEPT !.messages = rows2]
        /\ DropPendingFlags(s, account, ids, flag, value) = [s EXCEPT !.messages = rows3]
      BY DEF WritePendingFlag, SettleFlags, DropPendingFlags, UpdateMessages
  <2> HIDE DEF rows1, rows2, rows3
  <2> QED BY <2>1, <1>4
<1> HIDE DEF rows1, rows2, rows3, Written
<1> QED BY <1>2, <1>3, <1>5

\* A deletion of one account's memberships followed by the deletion of its
\* messages without folder leaves no orphan: another account's messages keep
\* the folder that held them.
LEMMA DeletionThenCleanup ==
    ASSUME NEW s, Kept(s), NEW t, Sound(t), NEW account,
           DOMAIN t.messages \subseteq DOMAIN s.messages,
           \A m \in s.memberships : m \notin t.memberships => m.folder.account = account
    PROVE  Kept(DeleteMessagesWithoutFolder(t, account))
<1> DEFINE u == DeleteMessagesWithoutFolder(t, account)
<1>1. /\ Sound(u)
      /\ u.memberships = t.memberships
      /\ \A k \in DOMAIN u.messages : k \in DOMAIN t.messages /\ (k.account = account => Held(u, k))
    BY OrphansDeleted
<1> HIDE DEF u
<1>2. ASSUME NEW k \in DOMAIN u.messages, k.account # account
      PROVE  Held(u, k)
  <2>1. PICK m \in s.memberships : m.message = k
      BY <1>1 DEF Kept, NoOrphans, Held
  <2>2. m.folder.account = k.account
      BY <2>1 DEF Kept, Sound, ReferencesHold
  <2>3. m \in u.memberships
      BY <1>1, <1>2, <2>2
  <2> QED BY <2>1, <2>3 DEF Held
<1>3. NoOrphans(u)
    BY <1>1, <1>2 DEF NoOrphans
<1> QED BY <1>1, <1>3 DEF Kept, u

\* A folder list replaces an account's folders; messages left without one go.
LEMMA ReplaceFoldersKept ==
    ASSUME NEW s, Kept(s), NEW account \in Account, NEW listed \in SUBSET FolderId
    PROVE  Kept(ReplaceFolders(s, account, listed))
<1> DEFINE gone == {f \in DOMAIN s.folders : f.account = account /\ f.identity \notin listed}
           t == DeleteUnlistedFolders(s, account, listed)
           u == DeleteMessagesWithoutFolder(t, account)
<1>1. t = WithoutFolders(s, gone)
    BY DEF DeleteUnlistedFolders
<1>2. /\ Sound(t)
      /\ t.messages = s.messages
      /\ t.memberships = {m \in s.memberships : m.folder \notin gone}
  <2> HIDE DEF gone, t
  <2>1. /\ Sound(t)
        /\ t = [folders     |-> [f \in DOMAIN s.folders \ gone |-> s.folders[f]],
                messages    |-> s.messages,
                memberships |-> {m \in s.memberships : m.folder \notin gone}]
      BY <1>1, WithoutFoldersSound DEF Kept
  <2> QED BY <2>1
<1> HIDE DEF t
<1>3. \A m \in s.memberships : m \notin t.memberships => m.folder.account = account
    BY <1>2
<1>4. Kept(u)
    BY <1>1, <1>2, <1>3, DeletionThenCleanup
<1> HIDE DEF u
<1>5. LET v == UpsertFolders(u, account, listed) IN
      Sound(v) /\ v.messages = u.messages /\ v.memberships = u.memberships
    BY <1>4, UpsertFoldersSound DEF Kept
<1>6. Kept(UpsertFolders(u, account, listed))
    BY <1>4, <1>5 DEF Kept, NoOrphans, Held
<1> QED BY <1>6 DEF ReplaceFolders, t, u

\* Messages removed from a folder go with their last membership.
LEMMA RemoveFromFolderKept ==
    ASSUME NEW s, Kept(s), NEW folder \in DOMAIN s.folders, NEW removed
    PROVE  LET t == RemoveFromFolder(s, folder, removed) IN
           Kept(t) /\ t.folders = s.folders
<1> DEFINE t == DeleteMemberships(s, folder, removed)
           u == DeleteMessagesWithoutFolder(t, folder.account)
<1>1. /\ Sound(t)
      /\ t.messages = s.messages
      /\ t.folders = s.folders
      /\ \A m \in s.memberships : m \notin t.memberships => m.folder = folder
    BY DeleteMembershipsSound DEF Kept
<1> HIDE DEF t
<1>2. Kept(u)
    BY <1>1, DeletionThenCleanup
<1>3. u.folders = s.folders
    BY <1>1, OrphansDeleted
<1> HIDE DEF u
<1>4. RemoveFromFolder(s, folder, removed) = IF removed = {} THEN s ELSE u
    BY DEF RemoveFromFolder, t, u
<1> QED BY <1>2, <1>3, <1>4

\* A folder's batch keeps the rows: removals, then the arrived messages.
LEMMA StoreBatchKept ==
    ASSUME NEW s, Kept(s), NEW folder \in DOMAIN s.folders, NEW batch \in FolderBatch
    PROVE  Kept(StoreBatch(s, folder, batch))
<1> DEFINE removed == RemoveFromFolder(s, folder, batch.removed)
           flagged == SetFlagStates(removed, folder.account, batch.flag_states)
           arrived == StoreArrived(flagged, folder, batch.arrived)
           related == RelateKnown(arrived, folder, batch.known_arrived)
           state == CHOOSE st \in batch.state : TRUE
           written == WriteFolderState(related, folder, state)
<1>1. Kept(removed) /\ removed.folders = s.folders
    BY RemoveFromFolderKept
<1> HIDE DEF removed
<1>2. /\ batch.flag_states \in PartialFunctions(MessageId, Flags)
      /\ batch.arrived \in PartialFunctions(MessageId, Arrival)
      /\ batch.known_arrived \in PartialFunctions(MessageId, Flags)
      /\ batch.state # {} => state \in FolderState
    BY DEF FolderBatch
<1>3. Kept(flagged) /\ flagged.folders = s.folders
  <2>1. /\ Sound(flagged)
        /\ DOMAIN flagged.messages = DOMAIN removed.messages
        /\ flagged.memberships = removed.memberships
        /\ flagged.folders = removed.folders
      BY <1>1, <1>2, SetFlagStatesSound DEF Kept
  <2> HIDE DEF flagged
  <2> QED BY <1>1, <2>1, RowsKeepTheirFolders DEF Kept
<1> HIDE DEF flagged
<1>4. Kept(arrived) /\ arrived.folders = s.folders
  <2>1. /\ Sound(arrived)
        /\ arrived.folders = flagged.folders
        /\ flagged.memberships \subseteq arrived.memberships
        /\ \A k \in DOMAIN arrived.messages :
              k \in DOMAIN flagged.messages \/ Held(arrived, k)
      BY <1>2, <1>3, StoreArrivedSound DEF Kept
  <2> HIDE DEF arrived
  <2> QED BY <1>3, <2>1 DEF Kept, NoOrphans, Held
<1> HIDE DEF arrived
<1>5. Kept(related) /\ related.folders = s.folders
  <2>1. /\ Sound(related)
        /\ related.folders = arrived.folders
        /\ arrived.memberships \subseteq related.memberships
        /\ DOMAIN related.messages = DOMAIN arrived.messages
      BY <1>2, <1>4, RelateKnownSound DEF Kept
  <2> HIDE DEF related
  <2> QED BY <1>4, <2>1, RowsKeepTheirFolders DEF Kept
<1> HIDE DEF related, state
<1>6. batch.state # {} => Kept(written)
  <2> SUFFICES ASSUME batch.state # {} PROVE Kept(written)
      OBVIOUS
  <2>1. Sound(written) /\ written.messages = related.messages
        /\ written.memberships = related.memberships
      BY <1>2, <1>5, WriteFolderStateSound DEF Kept
  <2> HIDE DEF written
  <2> QED BY <1>5, <2>1, RowsKeepTheirFolders DEF Kept
<1> HIDE DEF written
<1>7. StoreBatch(s, folder, batch) = IF batch.state = {} THEN related ELSE written
    BY DEF StoreBatch, removed, flagged, arrived, related, state, written
<1> QED BY <1>5, <1>6, <1>7

\* The deletion of other accounts finds every account with a row by its
\* folders, since each message is in a folder of its account.
LEMMA DeleteOtherAccountsKept ==
    ASSUME NEW s, Kept(s), NEW current
    PROVE  LET u == DeleteOtherAccounts(s, current) IN
           /\ Kept(u)
           /\ \A f \in DOMAIN u.folders : f.account \in current
           /\ \A k \in DOMAIN u.messages : k.account \in current
<1> DEFINE removed == {f.account : f \in DOMAIN s.folders} \ current
           lost == {f \in DOMAIN s.folders : f.account \in removed}
           gone == {k \in DOMAIN s.messages : k.account \in removed}
           t == WithoutFolders(s, lost)
           u == WithoutMessages(t, gone)
<1>2. Sound(t)
    BY WithoutFoldersSound DEF Kept
<1>3. t = [folders     |-> [f \in DOMAIN s.folders \ lost |-> s.folders[f]],
           messages    |-> s.messages,
           memberships |-> {m \in s.memberships : m.folder \notin lost}]
    BY WithoutFoldersSound DEF Kept
<1> HIDE DEF t
<1>4. Sound(u)
    BY <1>2, WithoutMessagesSound
<1>5. u = [folders     |-> t.folders,
           messages    |-> [k \in DOMAIN t.messages \ gone |-> t.messages[k]],
           memberships |-> {m \in t.memberships : m.message \notin gone}]
    BY <1>2, WithoutMessagesSound
<1> HIDE DEF u
<1>6. ASSUME NEW k \in DOMAIN u.messages
      PROVE  k.account \in current /\ Held(u, k)
  <2>1. k \in DOMAIN s.messages /\ k.account \notin removed
      BY <1>3, <1>5
  <2>2. PICK m \in s.memberships : m.message = k
      BY <2>1 DEF Kept, NoOrphans, Held
  <2>3. m.folder \in DOMAIN s.folders /\ m.folder.account = k.account
      BY <2>2 DEF Kept, Sound, ReferencesHold
  <2>4. k.account \in current
      BY <2>1, <2>3
  <2>5. m \in u.memberships
      BY <1>3, <1>5, <2>1, <2>2, <2>3
  <2> QED BY <2>2, <2>4, <2>5 DEF Held
<1>7. \A f \in DOMAIN u.folders : f.account \in current
    BY <1>3, <1>5
<1>8. Kept(u)
    BY <1>4, <1>6 DEF Kept, NoOrphans
<1>9. DeleteOtherAccounts(s, current) = u
    BY DEF DeleteOtherAccounts, u, t
<1> QED BY <1>6, <1>7, <1>8, <1>9

\* The empty store, of a fresh or a discarded file.
LEMMA EmptyStoreKept == Kept(EmptyStore)
<1>1. EmptyStore \in Tables
    BY TablesType DEF EmptyStore, NoRows
<1> QED BY <1>1 DEF Kept, Sound, NoOrphans, ReferencesHold, EmptyStore, NoRows

-----------------------------------------------------------------------------
(* Locality: what is the same of every account but one.                    *)

\* The rows of every account but one are the same in two stores.
SameElsewhere(s, t, account) ==
    /\ \A f \in DOMAIN s.folders \union DOMAIN t.folders : f.account # account =>
          /\ f \in DOMAIN s.folders /\ f \in DOMAIN t.folders
          /\ t.folders[f] = s.folders[f]
    /\ \A k \in DOMAIN s.messages \union DOMAIN t.messages : k.account # account =>
          /\ k \in DOMAIN s.messages /\ k \in DOMAIN t.messages
          /\ t.messages[k] = s.messages[k]
    /\ \A m \in s.memberships \union t.memberships : m.folder.account # account =>
          m \in s.memberships /\ m \in t.memberships

\* What is the same through two writes is the same through both.
LEMMA SameThrough ==
    ASSUME NEW s, NEW t, NEW u, NEW account,
           SameElsewhere(s, t, account), SameElsewhere(t, u, account)
    PROVE  SameElsewhere(s, u, account)
    BY DEF SameElsewhere

\* A store is the same as itself.
LEMMA SameAsItself ==
    ASSUME NEW s, NEW account
    PROVE  SameElsewhere(s, s, account)
    BY DEF SameElsewhere

-----------------------------------------------------------------------------
(* Locality of the table operations and the transactions.                  *)

\* Deleting folders of an account, with their memberships.
LEMMA WithoutFoldersLocal ==
    ASSUME NEW s, Sound(s), NEW account, NEW gone, \A f \in gone : f.account = account
    PROVE  SameElsewhere(s, WithoutFolders(s, gone), account)
<1> DEFINE t == WithoutFolders(s, gone)
<1>1. t = [folders     |-> [f \in DOMAIN s.folders \ gone |-> s.folders[f]],
           messages    |-> s.messages,
           memberships |-> {m \in s.memberships : m.folder \notin gone}]
    BY WithoutFoldersSound
<1> HIDE DEF t
<1>2. SameElsewhere(s, t, account)
    BY <1>1 DEF SameElsewhere
<1> QED BY <1>2 DEF t

\* Deleting an account's messages without folder.
LEMMA CleanupLocal ==
    ASSUME NEW s, Sound(s), NEW account
    PROVE  SameElsewhere(s, DeleteMessagesWithoutFolder(s, account), account)
<1> DEFINE gone == {k \in DOMAIN s.messages : k.account = account /\ ~Held(s, k)}
           t == WithoutMessages(s, gone)
<1>1. t = [folders     |-> s.folders,
           messages    |-> [k \in DOMAIN s.messages \ gone |-> s.messages[k]],
           memberships |-> {m \in s.memberships : m.message \notin gone}]
    BY WithoutMessagesSound
<1>2. \A m \in s.memberships : m.message \notin gone
    BY DEF Held
<1>3. \A k \in gone : k.account = account
    OBVIOUS
<1> HIDE DEF t, gone
<1>4. SameElsewhere(s, t, account)
    BY <1>1, <1>2, <1>3 DEF SameElsewhere
<1> QED BY <1>4 DEF t, gone, DeleteMessagesWithoutFolder

\* Listing an account's folders.
LEMMA UpsertFoldersLocal ==
    ASSUME NEW s, Sound(s), NEW account, NEW listed
    PROVE  SameElsewhere(s, UpsertFolders(s, account, listed), account)
<1> DEFINE new == {Ref(account, i) : i \in listed}
           D == DOMAIN s.folders \union new
           t == UpsertFolders(s, account, listed)
<1>1. t = [folders     |-> [f \in D |-> IF f \in DOMAIN s.folders THEN s.folders[f]
                                        ELSE NeverSynchronized],
           messages    |-> s.messages,
           memberships |-> s.memberships]
    BY TablesType DEF Sound, UpsertFolders
<1>2. \A f \in new : f.account = account
    BY DEF Ref
<1> HIDE DEF t, new
<1>3. SameElsewhere(s, t, account)
    BY <1>1, <1>2 DEF SameElsewhere
<1> QED BY <1>3 DEF t

\* Dropping a folder's memberships.
LEMMA DeleteMembershipsLocal ==
    ASSUME NEW s, Sound(s), NEW folder, NEW removed
    PROVE  SameElsewhere(s, DeleteMemberships(s, folder, removed), folder.account)
<1> DEFINE t == DeleteMemberships(s, folder, removed)
           lost == {m \in s.memberships :
                       m.folder = folder /\ m.message \in KeysOf(folder.account, removed)}
<1>1. t = [folders     |-> s.folders,
           messages    |-> s.messages,
           memberships |-> s.memberships \ lost]
    BY TablesType DEF Sound, DeleteMemberships
<1>2. \A m \in lost : m.folder = folder
    OBVIOUS
<1> HIDE DEF t, lost
<1>3. SameElsewhere(s, t, folder.account)
    BY <1>1, <1>2 DEF SameElsewhere
<1> QED BY <1>3 DEF t

\* An UPDATE of an account's messages.
LEMMA UpdateLocal ==
    ASSUME NEW s, Sound(s), NEW account, NEW rows, DOMAIN rows = DOMAIN s.messages,
           \A k \in DOMAIN s.messages : k.account # account => rows[k] = s.messages[k]
    PROVE  SameElsewhere(s, [s EXCEPT !.messages = rows], account)
<1>1. [s EXCEPT !.messages = rows]
          = [folders |-> s.folders, messages |-> rows, memberships |-> s.memberships]
    BY TablesType DEF Sound
<1> QED BY <1>1 DEF SameElsewhere

\* The server's flags.
LEMMA SetFlagStatesLocal ==
    ASSUME NEW s, Sound(s), NEW account, NEW flag_states
    PROVE  SameElsewhere(s, SetFlagStates(s, account, flag_states), account)
<1> DEFINE row(k) == IF k \in KeysOf(account, DOMAIN flag_states)
                     THEN [s.messages[k] EXCEPT !.server = flag_states[k.identity]]
                     ELSE s.messages[k]
           rows == [k \in DOMAIN s.messages |-> row(k)]
<1>1. \A k \in DOMAIN s.messages : k.account # account => rows[k] = s.messages[k]
    BY DEF KeysOf, Key
<1>2. SetFlagStates(s, account, flag_states) = [s EXCEPT !.messages = rows]
    BY DEF SetFlagStates
<1>3. DOMAIN rows = DOMAIN s.messages
    OBVIOUS
<1> HIDE DEF rows
<1> QED BY <1>1, <1>2, <1>3, UpdateLocal

\* Full records of a folder.
LEMMA StoreArrivedLocal ==
    ASSUME NEW s, Sound(s), NEW folder, NEW arrived
    PROVE  SameElsewhere(s, StoreArrived(s, folder, arrived), folder.account)
<1> DEFINE keys == KeysOf(folder.account, DOMAIN arrived)
           row(k) == IF k \notin keys THEN s.messages[k]
                     ELSE IF k \in DOMAIN s.messages
                     THEN UpsertedRow(s.messages[k], arrived[k.identity])
                     ELSE NewRow(arrived[k.identity])
           rows == [k \in DOMAIN s.messages \union keys |-> row(k)]
           related == {[folder |-> folder, message |-> k] : k \in keys}
           t == StoreArrived(s, folder, arrived)
<1>1. t = [folders |-> s.folders, messages |-> rows,
           memberships |-> s.memberships \union related]
  <2>1. t = [s EXCEPT !.messages = rows, !.memberships = s.memberships \union related]
      BY DEF StoreArrived
  <2> HIDE DEF t, rows, related
  <2> QED BY <2>1, TablesWritten DEF Sound
<1>2. \A k \in keys : k.account = folder.account
    BY DEF KeysOf, Key
<1>3. \A m \in related : m.folder = folder
    OBVIOUS
<1>4. /\ DOMAIN rows = DOMAIN s.messages \union keys
      /\ \A k \in DOMAIN s.messages \ keys : rows[k] = s.messages[k]
    OBVIOUS
<1> HIDE DEF t, rows, related, keys
<1>5. SameElsewhere(s, t, folder.account)
    BY <1>1, <1>2, <1>3, <1>4 DEF SameElsewhere
<1> QED BY <1>5 DEF t

\* Known messages related to a folder, with their flags.
LEMMA RelateKnownLocal ==
    ASSUME NEW s, Sound(s), NEW folder \in DOMAIN s.folders,
           NEW known \in PartialFunctions(MessageId, Flags)
    PROVE  SameElsewhere(s, RelateKnown(s, folder, known), folder.account)
<1> DEFINE held == KeysOf(folder.account, DOMAIN known) \intersect DOMAIN s.messages
           related == {[folder |-> folder, message |-> k] : k \in held}
           u == [s EXCEPT !.memberships = s.memberships \union related]
<1>1. u = [folders |-> s.folders, messages |-> s.messages,
           memberships |-> s.memberships \union related]
  <2> HIDE DEF related
  <2> QED BY TablesWritten DEF Sound
<1>2. \A m \in related : m.folder = folder
    OBVIOUS
<1>3. \A m \in related : /\ m \in Membership
                         /\ m.message \in DOMAIN s.messages
                         /\ m.message.account = folder.account
  <2>1. folder \in FolderRef /\ DOMAIN s.messages \subseteq MessageKey
      BY TablesType DEF Sound
  <2> QED BY <2>1 DEF Membership, KeysOf, Key
<1>4. RelateKnown(s, folder, known) = SetFlagStates(u, folder.account, known)
    BY DEF RelateKnown
<1> HIDE DEF u, related
<1>5. SameElsewhere(s, u, folder.account)
    BY <1>1, <1>2 DEF SameElsewhere
<1>6. Sound(u)
  <2>1. u \in Tables
      BY <1>1, <1>3, TablesType DEF Sound
  <2>2. ReferencesHold(u)
      BY <1>1, <1>2, <1>3 DEF Sound, ReferencesHold
  <2> QED BY <2>1, <2>2 DEF Sound
<1>7. SameElsewhere(u, SetFlagStates(u, folder.account, known), folder.account)
    BY <1>6, SetFlagStatesLocal
<1> QED BY <1>4, <1>5, <1>7, SameThrough

\* A folder's state.
LEMMA WriteFolderStateLocal ==
    ASSUME NEW s, Sound(s), NEW folder, NEW state
    PROVE  SameElsewhere(s, WriteFolderState(s, folder, state), folder.account)
<1> DEFINE rows == [s.folders EXCEPT ![folder] = state]
           t == WriteFolderState(s, folder, state)
<1>1. t = [folders     |-> rows,
           messages    |-> s.messages,
           memberships |-> s.memberships]
    BY TablesType DEF Sound, WriteFolderState
<1>2. /\ DOMAIN rows = DOMAIN s.folders
      /\ \A f \in DOMAIN s.folders : f # folder => rows[f] = s.folders[f]
    OBVIOUS
<1> HIDE DEF t, rows
<1>3. SameElsewhere(s, t, folder.account)
    BY <1>1, <1>2 DEF SameElsewhere
<1> QED BY <1>3 DEF t

-----------------------------------------------------------------------------
(* The transactions.                                                       *)

\* The wish, the agreement and the refusal.
LEMMA WishesLocal ==
    ASSUME NEW s, Sound(s), NEW account, NEW ids, NEW id, NEW flag, NEW value
    PROVE  /\ SameElsewhere(s, WritePendingFlag(s, account, id, flag, value), account)
           /\ SameElsewhere(s, SettleFlags(s, account, ids, flag, value), account)
           /\ SameElsewhere(s, DropPendingFlags(s, account, ids, flag, value), account)
<1> DEFINE wanted(k) == [s.messages[k] EXCEPT !.pending[flag] = {value}]
           settled(k) == [s.messages[k] EXCEPT !.server[flag] = value,
                                               !.pending[flag] = @ \ {value}]
           dropped(k) == [s.messages[k] EXCEPT !.pending[flag] = @ \ {value}]
           rows1 == [k \in DOMAIN s.messages |->
                        IF k \in KeysOf(account, {id}) THEN wanted(k) ELSE s.messages[k]]
           rows2 == [k \in DOMAIN s.messages |->
                        IF k \in KeysOf(account, ids) THEN settled(k) ELSE s.messages[k]]
           rows3 == [k \in DOMAIN s.messages |->
                        IF k \in KeysOf(account, ids) THEN dropped(k) ELSE s.messages[k]]
<1>1. \A k \in DOMAIN s.messages : k.account # account =>
         k \notin KeysOf(account, {id}) /\ k \notin KeysOf(account, ids)
    BY DEF KeysOf, Key
<1>2. \A k \in DOMAIN s.messages : k.account # account =>
         rows1[k] = s.messages[k] /\ rows2[k] = s.messages[k] /\ rows3[k] = s.messages[k]
  <2> HIDE DEF wanted, settled, dropped
  <2> QED BY <1>1
<1>3. /\ DOMAIN rows1 = DOMAIN s.messages
      /\ DOMAIN rows2 = DOMAIN s.messages
      /\ DOMAIN rows3 = DOMAIN s.messages
  <2> HIDE DEF wanted, settled, dropped
  <2> QED OBVIOUS
<1>4. /\ WritePendingFlag(s, account, id, flag, value) = [s EXCEPT !.messages = rows1]
      /\ SettleFlags(s, account, ids, flag, value) = [s EXCEPT !.messages = rows2]
      /\ DropPendingFlags(s, account, ids, flag, value) = [s EXCEPT !.messages = rows3]
    BY DEF WritePendingFlag, SettleFlags, DropPendingFlags, UpdateMessages
<1> HIDE DEF rows1, rows2, rows3
<1>5. /\ SameElsewhere(s, [s EXCEPT !.messages = rows1], account)
      /\ SameElsewhere(s, [s EXCEPT !.messages = rows2], account)
      /\ SameElsewhere(s, [s EXCEPT !.messages = rows3], account)
    BY <1>2, <1>3, UpdateLocal
<1> QED BY <1>4, <1>5

\* An account's folder list.
LEMMA ReplaceFoldersLocal ==
    ASSUME NEW s, Kept(s), NEW account \in Account, NEW listed \in SUBSET FolderId
    PROVE  SameElsewhere(s, ReplaceFolders(s, account, listed), account)
<1> DEFINE gone == {f \in DOMAIN s.folders : f.account = account /\ f.identity \notin listed}
           t == DeleteUnlistedFolders(s, account, listed)
           u == DeleteMessagesWithoutFolder(t, account)
           v == UpsertFolders(u, account, listed)
<1>1. t = WithoutFolders(s, gone)
    BY DEF DeleteUnlistedFolders
<1>2. \A f \in gone : f.account = account
    OBVIOUS
<1> HIDE DEF gone, t
<1>3. Sound(t) /\ SameElsewhere(s, t, account)
    BY <1>1, <1>2, WithoutFoldersSound, WithoutFoldersLocal DEF Kept
<1>4. Sound(u) /\ SameElsewhere(t, u, account)
    BY <1>3, OrphansDeleted, CleanupLocal
<1> HIDE DEF u
<1>5. SameElsewhere(u, v, account)
    BY <1>4, UpsertFoldersLocal
<1> HIDE DEF v
<1>6. SameElsewhere(s, v, account)
    BY <1>3, <1>4, <1>5, SameThrough
<1> QED BY <1>6 DEF ReplaceFolders, t, u, v

\* A folder's batch.
LEMMA StoreBatchLocal ==
    ASSUME NEW s, Kept(s), NEW folder \in DOMAIN s.folders, NEW batch \in FolderBatch
    PROVE  SameElsewhere(s, StoreBatch(s, folder, batch), folder.account)
<1> DEFINE account == folder.account
           deleted == DeleteMemberships(s, folder, batch.removed)
           cleaned == DeleteMessagesWithoutFolder(deleted, account)
           removed == RemoveFromFolder(s, folder, batch.removed)
           flagged == SetFlagStates(removed, account, batch.flag_states)
           arrived == StoreArrived(flagged, folder, batch.arrived)
           related == RelateKnown(arrived, folder, batch.known_arrived)
           state == CHOOSE st \in batch.state : TRUE
           written == WriteFolderState(related, folder, state)
<1>1. /\ batch.flag_states \in PartialFunctions(MessageId, Flags)
      /\ batch.arrived \in PartialFunctions(MessageId, Arrival)
      /\ batch.known_arrived \in PartialFunctions(MessageId, Flags)
    BY DEF FolderBatch
<1>2. Sound(removed) /\ removed.folders = s.folders /\ SameElsewhere(s, removed, account)
  <2>1. Sound(removed) /\ removed.folders = s.folders
      BY RemoveFromFolderKept DEF Kept
  <2>2. Sound(deleted) /\ SameElsewhere(s, deleted, account)
      BY DeleteMembershipsSound, DeleteMembershipsLocal DEF Kept
  <2> HIDE DEF deleted
  <2>3. SameElsewhere(deleted, cleaned, account)
      BY <2>2, CleanupLocal
  <2> HIDE DEF cleaned, account
  <2>4. SameElsewhere(s, cleaned, account) /\ SameElsewhere(s, s, account)
      BY <2>2, <2>3, SameThrough, SameAsItself
  <2>5. removed = IF batch.removed = {} THEN s ELSE cleaned
      BY DEF RemoveFromFolder, cleaned, deleted, account
  <2> HIDE DEF removed
  <2> QED BY <2>1, <2>4, <2>5
<1> HIDE DEF removed
<1>3. Sound(flagged) /\ flagged.folders = s.folders /\ SameElsewhere(removed, flagged, account)
    BY <1>1, <1>2, SetFlagStatesSound, SetFlagStatesLocal
<1> HIDE DEF flagged
<1>4. Sound(arrived) /\ arrived.folders = s.folders /\ SameElsewhere(flagged, arrived, account)
    BY <1>1, <1>3, StoreArrivedSound, StoreArrivedLocal
<1> HIDE DEF arrived
<1>5. Sound(related) /\ SameElsewhere(arrived, related, account)
    BY <1>1, <1>4, RelateKnownSound, RelateKnownLocal
<1> HIDE DEF related, state
<1>6. SameElsewhere(related, written, account)
    BY <1>5, WriteFolderStateLocal
<1> HIDE DEF written
<1>7. SameElsewhere(s, related, account) /\ SameElsewhere(s, written, account)
  <2> HIDE DEF account
  <2>1. SameElsewhere(s, flagged, account)
      BY <1>2, <1>3, SameThrough
  <2>2. SameElsewhere(s, arrived, account)
      BY <2>1, <1>4, SameThrough
  <2>3. SameElsewhere(s, related, account)
      BY <2>2, <1>5, SameThrough
  <2>4. SameElsewhere(s, written, account)
      BY <2>3, <1>6, SameThrough
  <2> QED BY <2>3, <2>4
<1>8. StoreBatch(s, folder, batch) = IF batch.state = {} THEN related ELSE written
    BY DEF StoreBatch, removed, flagged, arrived, related, state, written
<1> QED BY <1>7, <1>8

-----------------------------------------------------------------------------
(* What stays of the rows from step to step.                               *)

\* Rows may go, and those that stay keep their wishes and content.
KeepsRows(s, t) ==
    /\ DOMAIN t.messages \subseteq DOMAIN s.messages
    /\ \A k \in DOMAIN t.messages :
          /\ t.messages[k].pending = s.messages[k].pending
          /\ t.messages[k].content = s.messages[k].content

\* What another content may replace (the upsert's CASE).
ContentStays(before, after) ==
    /\ before # "not_downloaded" => after # "not_downloaded"
    /\ before = "text" => after \in {"text", "explained"}

\* The rows of both stores keep their wishes, and what was downloaded.
RowsGoOn(s, t) ==
    \A k \in DOMAIN s.messages \intersect DOMAIN t.messages :
        /\ t.messages[k].pending = s.messages[k].pending
        /\ ContentStays(s.messages[k].content, t.messages[k].content)

\* Folders that stay lose no message, but for one of them.
LosesFromOne(s, t) ==
    \A m, n \in s.memberships \ t.memberships :
        {m.folder, n.folder} \subseteq DOMAIN t.folders => m.folder = n.folder

\* What two operations in turn keep of the rows.
LEMMA KeepsThrough ==
    ASSUME NEW s, NEW t, NEW u, KeepsRows(s, t), KeepsRows(t, u)
    PROVE  KeepsRows(s, u)
    BY DEF KeepsRows

\* A row kept as it was keeps its wishes and what was downloaded.
LEMMA KeptRowsGoOn ==
    ASSUME NEW s, NEW t, KeepsRows(s, t)
    PROVE  RowsGoOn(s, t)
    BY DEF KeepsRows, RowsGoOn, ContentStays

-----------------------------------------------------------------------------
(* What the table operations keep of the rows.                             *)

\* The cleanup deletes an account's messages without folder, and no other.
LEMMA CleanupKeepsRows ==
    ASSUME NEW s, Sound(s), NEW account
    PROVE  LET t == DeleteMessagesWithoutFolder(s, account) IN
           /\ KeepsRows(s, t)
           /\ \A k \in DOMAIN s.messages \ DOMAIN t.messages :
                 k.account = account /\ ~Held(s, k)
<1> DEFINE gone == {k \in DOMAIN s.messages : k.account = account /\ ~Held(s, k)}
           t == WithoutMessages(s, gone)
<1>1. t = [folders     |-> s.folders,
           messages    |-> [k \in DOMAIN s.messages \ gone |-> s.messages[k]],
           memberships |-> {m \in s.memberships : m.message \notin gone}]
    BY WithoutMessagesSound
<1>2. \A k \in gone : k.account = account /\ ~Held(s, k)
    OBVIOUS
<1> HIDE DEF t, gone
<1>3. KeepsRows(s, t)
    BY <1>1 DEF KeepsRows
<1>4. \A k \in DOMAIN s.messages \ DOMAIN t.messages : k \in gone
    BY <1>1
<1> QED BY <1>2, <1>3, <1>4 DEF t, gone, DeleteMessagesWithoutFolder

\* The server's flags are written beside the wishes.
LEMMA SetFlagStatesKeepsRows ==
    ASSUME NEW s, Sound(s), NEW account, NEW flag_states
    PROVE  KeepsRows(s, SetFlagStates(s, account, flag_states))
<1> DEFINE row(k) == IF k \in KeysOf(account, DOMAIN flag_states)
                     THEN [s.messages[k] EXCEPT !.server = flag_states[k.identity]]
                     ELSE s.messages[k]
           rows == [k \in DOMAIN s.messages |-> row(k)]
           t == SetFlagStates(s, account, flag_states)
<1>1. ASSUME NEW k \in DOMAIN s.messages
      PROVE  row(k).pending = s.messages[k].pending /\ row(k).content = s.messages[k].content
  <2>1. s.messages[k] \in MessageRow
      BY TablesType DEF Sound
  <2> QED BY <2>1 DEF MessageRow
<1>2. t = [s EXCEPT !.messages = rows]
    BY DEF SetFlagStates
<1> HIDE DEF row
<1>3. DOMAIN rows = DOMAIN s.messages /\ \A k \in DOMAIN s.messages : rows[k] = row(k)
    OBVIOUS
<1> HIDE DEF rows, t
<1>4. t.messages = rows
    BY <1>2, TablesType DEF Sound
<1> QED BY <1>1, <1>3, <1>4 DEF KeepsRows, t

\* The upsert keeps the wishes and, of the contents, what is worth more; the
\* rows it adds are the batch's.
LEMMA StoreArrivedRows ==
    ASSUME NEW s, Sound(s), NEW folder,
           NEW arrived \in PartialFunctions(MessageId, Arrival)
    PROVE  LET t == StoreArrived(s, folder, arrived) IN
           /\ RowsGoOn(s, t)
           /\ \A k \in DOMAIN t.messages \ DOMAIN s.messages :
                 k \in KeysOf(folder.account, DOMAIN arrived)
<1> DEFINE keys == KeysOf(folder.account, DOMAIN arrived)
           row(k) == IF k \notin keys THEN s.messages[k]
                     ELSE IF k \in DOMAIN s.messages
                     THEN UpsertedRow(s.messages[k], arrived[k.identity])
                     ELSE NewRow(arrived[k.identity])
           rows == [k \in DOMAIN s.messages \union keys |-> row(k)]
           related == {[folder |-> folder, message |-> k] : k \in keys}
           t == StoreArrived(s, folder, arrived)
<1>1. t.messages = rows
  <2>1. t = [s EXCEPT !.messages = rows, !.memberships = s.memberships \union related]
      BY DEF StoreArrived
  <2> HIDE DEF t, rows, related
  <2> QED BY <2>1, TablesWritten DEF Sound
<1>2. ASSUME NEW k \in DOMAIN s.messages
      PROVE  /\ row(k).pending = s.messages[k].pending
             /\ ContentStays(s.messages[k].content, row(k).content)
  <2>1. CASE k \notin keys
      BY <2>1 DEF ContentStays
  <2>2. CASE k \in keys
    <3>1. row(k) = UpsertedRow(s.messages[k], arrived[k.identity])
        BY <2>2
    <3>2. arrived[k.identity].content \in ContentKind
      <4>1. \A i \in keys : i.identity \in DOMAIN arrived /\ arrived[i.identity] \in Arrival
          BY PartialFunctionType DEF KeysOf, Key
      <4> HIDE DEF keys
      <4> QED BY <2>2, <4>1 DEF Arrival
    <3> HIDE DEF row
    <3>3. /\ row(k).pending = s.messages[k].pending
          /\ row(k).content = ContentAfter(s.messages[k].content, arrived[k.identity].content)
        BY <3>1 DEF UpsertedRow
    <3> QED BY <3>2, <3>3 DEF ContentAfter, ContentStays, ContentKind
  <2> QED BY <2>1, <2>2
<1> HIDE DEF row, keys
<1>3. /\ DOMAIN rows = DOMAIN s.messages \union keys
      /\ \A k \in DOMAIN s.messages : rows[k] = row(k)
    OBVIOUS
<1> HIDE DEF rows, t
<1>4. RowsGoOn(s, t)
    BY <1>1, <1>2, <1>3 DEF RowsGoOn
<1>5. \A k \in DOMAIN t.messages \ DOMAIN s.messages : k \in keys
    BY <1>1, <1>3
<1> QED BY <1>4, <1>5 DEF t, keys

\* A message the account holds already keeps its wishes and content.
LEMMA RelateKnownKeepsRows ==
    ASSUME NEW s, Sound(s), NEW folder \in DOMAIN s.folders,
           NEW known \in PartialFunctions(MessageId, Flags)
    PROVE  KeepsRows(s, RelateKnown(s, folder, known))
<1> DEFINE held == KeysOf(folder.account, DOMAIN known) \intersect DOMAIN s.messages
           related == {[folder |-> folder, message |-> k] : k \in held}
           u == [s EXCEPT !.memberships = s.memberships \union related]
<1>1. u = [folders |-> s.folders, messages |-> s.messages,
           memberships |-> s.memberships \union related]
  <2> HIDE DEF related
  <2> QED BY TablesWritten DEF Sound
<1>2. \A m \in related : /\ m \in Membership
                         /\ m.folder = folder
                         /\ m.message \in DOMAIN s.messages
                         /\ m.message.account = folder.account
  <2>1. folder \in FolderRef /\ DOMAIN s.messages \subseteq MessageKey
      BY TablesType DEF Sound
  <2> QED BY <2>1 DEF Membership, KeysOf, Key
<1>3. RelateKnown(s, folder, known) = SetFlagStates(u, folder.account, known)
    BY DEF RelateKnown
<1> HIDE DEF u, related
<1>4. Sound(u)
  <2>1. u \in Tables
      BY <1>1, <1>2, TablesType DEF Sound
  <2>2. ReferencesHold(u)
      BY <1>1, <1>2 DEF Sound, ReferencesHold
  <2> QED BY <2>1, <2>2 DEF Sound
<1>5. KeepsRows(s, u)
    BY <1>1 DEF KeepsRows
<1>6. KeepsRows(u, SetFlagStates(u, folder.account, known))
    BY <1>4, SetFlagStatesKeepsRows
<1> QED BY <1>3, <1>5, <1>6, KeepsThrough

-----------------------------------------------------------------------------
(* The transactions.                                                       *)

\* A removal takes messages from the folder alone, and the rows it deletes
\* are of messages it names: no other message is without folder.
LEMMA RemoveFromFolderRows ==
    ASSUME NEW s, Kept(s), NEW folder \in DOMAIN s.folders, NEW removed
    PROVE  LET t == RemoveFromFolder(s, folder, removed) IN
           /\ KeepsRows(s, t)
           /\ \A k \in DOMAIN s.messages \ DOMAIN t.messages :
                 k \in KeysOf(folder.account, removed)
           /\ \A m \in s.memberships \ t.memberships : m.folder = folder
<1> DEFINE keys == KeysOf(folder.account, removed)
           t == DeleteMemberships(s, folder, removed)
           u == DeleteMessagesWithoutFolder(t, folder.account)
<1>1. /\ Sound(t)
      /\ t.messages = s.messages
      /\ \A m \in s.memberships : m \notin t.memberships => m.folder = folder
    BY DeleteMembershipsSound DEF Kept
<1>2. \A m \in s.memberships : m.message \notin keys => m \in t.memberships
    BY TablesType DEF DeleteMemberships, Kept, Sound
<1> HIDE DEF t, keys
<1>3. /\ KeepsRows(t, u)
      /\ \A k \in DOMAIN t.messages \ DOMAIN u.messages : ~Held(t, k)
    BY <1>1, CleanupKeepsRows
<1>4. u.memberships = t.memberships
    BY <1>1, OrphansDeleted
<1> HIDE DEF u
<1>5. ASSUME NEW k \in DOMAIN s.messages \ DOMAIN u.messages
      PROVE  k \in keys
  <2>1. ~Held(t, k)
      BY <1>1, <1>3
  <2>2. PICK m \in s.memberships : m.message = k
      BY DEF Kept, NoOrphans, Held
  <2> QED BY <1>2, <2>1, <2>2 DEF Held
<1>6. KeepsRows(s, u)
    BY <1>1, <1>3 DEF KeepsRows
<1>7. KeepsRows(s, s)
    BY DEF KeepsRows
<1>8. RemoveFromFolder(s, folder, removed) = IF removed = {} THEN s ELSE u
    BY DEF RemoveFromFolder, t, u
<1> QED BY <1>1, <1>4, <1>5, <1>6, <1>7, <1>8 DEF keys

\* A batch writes no wish, keeps what was downloaded, and takes messages from
\* its own folder only.
LEMMA StoreBatchRows ==
    ASSUME NEW s, Kept(s), NEW folder \in DOMAIN s.folders, NEW batch \in FolderBatch,
           batch.removed \intersect DOMAIN batch.arrived = {}
    PROVE  LET t == StoreBatch(s, folder, batch) IN
           /\ RowsGoOn(s, t)
           /\ \A m \in s.memberships \ t.memberships : m.folder = folder
<1> DEFINE account == folder.account
           removed == RemoveFromFolder(s, folder, batch.removed)
           flagged == SetFlagStates(removed, account, batch.flag_states)
           arrived == StoreArrived(flagged, folder, batch.arrived)
           related == RelateKnown(arrived, folder, batch.known_arrived)
           state == CHOOSE st \in batch.state : TRUE
           written == WriteFolderState(related, folder, state)
           gone == KeysOf(account, batch.removed)
           new == KeysOf(account, DOMAIN batch.arrived)
<1>1. /\ batch.flag_states \in PartialFunctions(MessageId, Flags)
      /\ batch.arrived \in PartialFunctions(MessageId, Arrival)
      /\ batch.known_arrived \in PartialFunctions(MessageId, Flags)
    BY DEF FolderBatch
<1>2. gone \intersect new = {}
    BY DEF KeysOf, Key
<1>3. /\ Sound(removed) /\ removed.folders = s.folders
      /\ KeepsRows(s, removed)
      /\ \A k \in DOMAIN s.messages \ DOMAIN removed.messages : k \in gone
      /\ \A m \in s.memberships \ removed.memberships : m.folder = folder
  <2>1. Sound(removed) /\ removed.folders = s.folders
      BY RemoveFromFolderKept DEF Kept
  <2>2. /\ KeepsRows(s, removed)
        /\ \A k \in DOMAIN s.messages \ DOMAIN removed.messages : k \in gone
        /\ \A m \in s.memberships \ removed.memberships : m.folder = folder
      BY RemoveFromFolderRows
  <2> QED BY <2>1, <2>2
<1> HIDE DEF removed, gone
<1>4. /\ Sound(flagged) /\ flagged.folders = s.folders
      /\ DOMAIN flagged.messages = DOMAIN removed.messages
      /\ flagged.memberships = removed.memberships
      /\ KeepsRows(removed, flagged)
    BY <1>1, <1>3, SetFlagStatesSound, SetFlagStatesKeepsRows
<1> HIDE DEF flagged
<1>5. /\ Sound(arrived) /\ arrived.folders = s.folders
      /\ flagged.memberships \subseteq arrived.memberships
    BY <1>1, <1>4, StoreArrivedSound
<1>6. /\ RowsGoOn(flagged, arrived)
      /\ \A k \in DOMAIN arrived.messages \ DOMAIN flagged.messages : k \in new
    BY <1>1, <1>4, StoreArrivedRows
<1> HIDE DEF arrived, new
<1>7. /\ Sound(related)
      /\ arrived.memberships \subseteq related.memberships
      /\ KeepsRows(arrived, related)
    BY <1>1, <1>5, RelateKnownSound, RelateKnownKeepsRows
<1> HIDE DEF related, state
<1>8. ASSUME NEW k \in DOMAIN s.messages \intersect DOMAIN related.messages
      PROVE  /\ related.messages[k].pending = s.messages[k].pending
             /\ ContentStays(s.messages[k].content, related.messages[k].content)
  <2>1. k \in DOMAIN arrived.messages
      BY <1>7 DEF KeepsRows
  <2>2. k \in DOMAIN flagged.messages
      BY <1>2, <1>3, <1>4, <1>6, <2>1
  <2>3. /\ flagged.messages[k].pending = s.messages[k].pending
        /\ flagged.messages[k].content = s.messages[k].content
      BY <1>3, <1>4, <2>2 DEF KeepsRows
  <2>4. /\ arrived.messages[k].pending = flagged.messages[k].pending
        /\ ContentStays(flagged.messages[k].content, arrived.messages[k].content)
      BY <1>6, <2>1, <2>2 DEF RowsGoOn
  <2>5. /\ related.messages[k].pending = arrived.messages[k].pending
        /\ related.messages[k].content = arrived.messages[k].content
      BY <1>7 DEF KeepsRows
  <2> QED BY <2>3, <2>4, <2>5
<1>9. RowsGoOn(s, related) /\ \A m \in s.memberships \ related.memberships : m.folder = folder
    BY <1>3, <1>4, <1>5, <1>7, <1>8 DEF RowsGoOn
<1>10. written.messages = related.messages /\ written.memberships = related.memberships
    BY <1>7, TablesType DEF Sound, WriteFolderState
<1> HIDE DEF written
<1>11. RowsGoOn(s, written) /\ \A m \in s.memberships \ written.memberships : m.folder = folder
    BY <1>9, <1>10 DEF RowsGoOn
<1>12. StoreBatch(s, folder, batch) = IF batch.state = {} THEN related ELSE written
    BY DEF StoreBatch, removed, flagged, arrived, related, state, written
<1> QED BY <1>9, <1>11, <1>12

\* A folder list takes messages from folders it does not list, which go.
LEMMA ReplaceFoldersRows ==
    ASSUME NEW s, Kept(s), NEW account \in Account, NEW listed \in SUBSET FolderId
    PROVE  LET t == ReplaceFolders(s, account, listed) IN
           /\ KeepsRows(s, t)
           /\ \A m \in s.memberships \ t.memberships : m.folder \notin DOMAIN t.folders
<1> DEFINE gone == {f \in DOMAIN s.folders : f.account = account /\ f.identity \notin listed}
           new == {Ref(account, i) : i \in listed}
           t == DeleteUnlistedFolders(s, account, listed)
           u == DeleteMessagesWithoutFolder(t, account)
           v == UpsertFolders(u, account, listed)
<1>1. gone \intersect new = {}
    BY DEF Ref
<1>2. t = WithoutFolders(s, gone)
    BY DEF DeleteUnlistedFolders
<1> HIDE DEF gone, new, t
<1>3. /\ Sound(t)
      /\ t = [folders     |-> [f \in DOMAIN s.folders \ gone |-> s.folders[f]],
              messages    |-> s.messages,
              memberships |-> {m \in s.memberships : m.folder \notin gone}]
    BY <1>2, WithoutFoldersSound DEF Kept
<1>4. Sound(u) /\ u.memberships = t.memberships /\ u.folders = t.folders /\ KeepsRows(t, u)
  <2>1. Sound(t)
      BY <1>3
  <2>2. Sound(u) /\ u.memberships = t.memberships /\ u.folders = t.folders
      BY <2>1, OrphansDeleted
  <2>3. KeepsRows(t, u)
      BY <2>1, CleanupKeepsRows
  <2> QED BY <2>2, <2>3
<1> HIDE DEF u
<1>5. /\ v.messages = u.messages /\ v.memberships = u.memberships
      /\ DOMAIN v.folders = DOMAIN u.folders \union new
  <2>1. v.messages = u.messages /\ v.memberships = u.memberships
      BY <1>4, UpsertFoldersSound
  <2>2. v = [u EXCEPT !.folders = [f \in DOMAIN u.folders \union new |->
                IF f \in DOMAIN u.folders THEN u.folders[f] ELSE NeverSynchronized]]
      BY DEF UpsertFolders, new
  <2> HIDE DEF v
  <2>3. DOMAIN v.folders = DOMAIN u.folders \union new
      BY <2>2, <1>4, TablesType DEF Sound
  <2> QED BY <2>1, <2>3
<1> HIDE DEF v
<1>6. KeepsRows(s, v)
    BY <1>3, <1>4, <1>5 DEF KeepsRows
<1>7. ASSUME NEW m \in s.memberships \ v.memberships
      PROVE  m.folder \notin DOMAIN v.folders
  <2>1. m.folder \in gone
      BY <1>3, <1>4, <1>5
  <2> QED BY <1>1, <1>3, <1>4, <1>5, <2>1
<1> QED BY <1>6, <1>7 DEF ReplaceFolders, t, u, v

\* The deletion of accounts takes messages from their folders, which go.
LEMMA DeleteOtherAccountsRows ==
    ASSUME NEW s, Kept(s), NEW current
    PROVE  LET t == DeleteOtherAccounts(s, current) IN
           /\ KeepsRows(s, t)
           /\ \A m \in s.memberships \ t.memberships : m.folder \notin DOMAIN t.folders
<1> DEFINE removed == {f.account : f \in DOMAIN s.folders} \ current
           lost == {f \in DOMAIN s.folders : f.account \in removed}
           gone == {k \in DOMAIN s.messages : k.account \in removed}
           t == WithoutFolders(s, lost)
           u == WithoutMessages(t, gone)
<1>1. \A m \in s.memberships : m.message \in gone => m.folder \in lost
    BY DEF Kept, Sound, ReferencesHold
<1> HIDE DEF lost, gone, t
<1>2. /\ Sound(t)
      /\ t = [folders     |-> [f \in DOMAIN s.folders \ lost |-> s.folders[f]],
              messages    |-> s.messages,
              memberships |-> {m \in s.memberships : m.folder \notin lost}]
    BY WithoutFoldersSound DEF Kept, t
<1>3. u = [folders     |-> t.folders,
           messages    |-> [k \in DOMAIN t.messages \ gone |-> t.messages[k]],
           memberships |-> {m \in t.memberships : m.message \notin gone}]
    BY <1>2, WithoutMessagesSound
<1> HIDE DEF u
<1>4. KeepsRows(s, u)
    BY <1>2, <1>3 DEF KeepsRows
<1>5. \A m \in s.memberships \ u.memberships : m.folder \in lost
    BY <1>1, <1>2, <1>3
<1>6. \A f \in DOMAIN u.folders : f \notin lost
    BY <1>2, <1>3
<1> QED BY <1>4, <1>5, <1>6 DEF DeleteOtherAccounts, t, u, lost, gone

\* A row loses a wish.
LosesWish(s, t, k, f, v) ==
    v \in s.messages[k].pending[f] /\ v \notin t.messages[k].pending[f]

\* The wishes that go are those of the messages `keys` for that value.
LosesOnly(s, t, keys, flag, value) ==
    \A k \in DOMAIN s.messages, f \in MessageFlag, v \in BOOLEAN :
        LosesWish(s, t, k, f, v) => k \in keys /\ f = flag /\ v = value

\* The only wish that goes is the message's other one for that flag.
LosesTheOther(s, t, key, flag, value) ==
    \A k \in DOMAIN s.messages, f \in MessageFlag, v \in BOOLEAN :
        LosesWish(s, t, k, f, v) => k = key /\ f = flag /\ v # value

\* The same messages in the same folders with the same contents.
SameButFlags(s, t) ==
    /\ DOMAIN t.messages = DOMAIN s.messages
    /\ t.memberships = s.memberships
    /\ \A k \in DOMAIN s.messages : t.messages[k].content = s.messages[k].content

\* A change of the user replaces the wish of one message for one flag.
LEMMA WishRows ==
    ASSUME NEW s, Sound(s), NEW account, NEW id, NEW flag \in MessageFlag, NEW value,
           NEW t, t = WritePendingFlag(s, account, id, flag, value)
    PROVE  SameButFlags(s, t) /\ LosesTheOther(s, t, Key(account, id), flag, value)
<1> DEFINE changed(k) == [s.messages[k] EXCEPT !.pending[flag] = {value}]
           row(k) == IF k \in KeysOf(account, {id}) THEN changed(k) ELSE s.messages[k]
           rows == [k \in DOMAIN s.messages |-> row(k)]
<1>1. ASSUME NEW k \in DOMAIN s.messages
      PROVE  /\ row(k).content = s.messages[k].content
             /\ \A f \in MessageFlag : row(k).pending[f] =
                   IF k \in KeysOf(account, {id}) /\ f = flag THEN {value}
                   ELSE s.messages[k].pending[f]
  <2>1. s.messages[k] \in MessageRow
      BY TablesType DEF Sound
  <2>2. /\ changed(k).content = s.messages[k].content
        /\ \A f \in MessageFlag : changed(k).pending[f] =
              IF f = flag THEN {value} ELSE s.messages[k].pending[f]
      BY <2>1 DEF MessageRow
  <2> HIDE DEF changed
  <2> QED BY <2>2
<1>2. t = [s EXCEPT !.messages = rows]
    BY DEF WritePendingFlag, UpdateMessages
<1> HIDE DEF row
<1>3. DOMAIN rows = DOMAIN s.messages /\ \A k \in DOMAIN s.messages : rows[k] = row(k)
    OBVIOUS
<1> HIDE DEF rows
<1>4. t.messages = rows /\ t.memberships = s.memberships
    BY <1>2, TablesType DEF Sound
<1>5. SameButFlags(s, t)
    BY <1>1, <1>3, <1>4 DEF SameButFlags
<1>6. ASSUME NEW k \in DOMAIN s.messages, NEW f \in MessageFlag, NEW v \in BOOLEAN,
             LosesWish(s, t, k, f, v)
      PROVE  k = Key(account, id) /\ f = flag /\ v # value
  <2>1. k \in KeysOf(account, {id}) /\ f = flag /\ v \notin {value}
      BY <1>1, <1>3, <1>4, <1>6 DEF LosesWish
  <2> QED BY <2>1 DEF KeysOf
<1> QED BY <1>5, <1>6 DEF LosesTheOther

\* The server's answer about a value ends the wishes for that value only.
LEMMA AnswerRows ==
    ASSUME NEW s, Sound(s), NEW account, NEW ids, NEW flag \in MessageFlag, NEW value,
           NEW t, t \in {SettleFlags(s, account, ids, flag, value),
                         DropPendingFlags(s, account, ids, flag, value)}
    PROVE  /\ SameButFlags(s, t)
           /\ LosesOnly(s, t, KeysOf(account, ids), flag, value)
<1> DEFINE settled(k) == [s.messages[k] EXCEPT !.server[flag] = value,
                                               !.pending[flag] = @ \ {value}]
           dropped(k) == [s.messages[k] EXCEPT !.pending[flag] = @ \ {value}]
           rows2 == [k \in DOMAIN s.messages |->
                        IF k \in KeysOf(account, ids) THEN settled(k) ELSE s.messages[k]]
           rows3 == [k \in DOMAIN s.messages |->
                        IF k \in KeysOf(account, ids) THEN dropped(k) ELSE s.messages[k]]
<1>1. ASSUME NEW k \in DOMAIN s.messages, NEW new, new \in {settled(k), dropped(k)}
      PROVE  /\ new.content = s.messages[k].content
             /\ \A f \in MessageFlag : new.pending[f] =
                   IF f = flag THEN s.messages[k].pending[f] \ {value}
                   ELSE s.messages[k].pending[f]
  <2>1. s.messages[k] \in MessageRow
      BY TablesType DEF Sound
  <2>2. DOMAIN s.messages[k].pending = MessageFlag
      BY <2>1 DEF MessageRow
  <2>3. CASE new = dropped(k)
      BY <2>1, <2>2, <2>3 DEF MessageRow
  <2>4. CASE new = settled(k)
    <3> DEFINE agreed == [s.messages[k] EXCEPT !.server[flag] = value]
    <3>1. new = [agreed EXCEPT !.pending[flag] = @ \ {value}]
        BY <2>4
    <3>2. /\ agreed = [server |-> agreed.server, pending |-> s.messages[k].pending,
                       content |-> s.messages[k].content]
        BY <2>1 DEF MessageRow
    <3> HIDE DEF agreed
    <3> QED BY <2>2, <3>1, <3>2
  <2> QED BY <1>1, <2>3, <2>4
<1>2. t \in {[s EXCEPT !.messages = rows2], [s EXCEPT !.messages = rows3]}
    BY DEF SettleFlags, DropPendingFlags, UpdateMessages
<1> HIDE DEF settled, dropped
<1>3. PICK rows : /\ t = [s EXCEPT !.messages = rows]
                  /\ DOMAIN rows = DOMAIN s.messages
                  /\ \A k \in DOMAIN s.messages :
                        /\ k \in KeysOf(account, ids) => rows[k] \in {settled(k), dropped(k)}
                        /\ k \notin KeysOf(account, ids) => rows[k] = s.messages[k]
  <2>1. CASE t = [s EXCEPT !.messages = rows2]
    <3>1. /\ DOMAIN rows2 = DOMAIN s.messages
          /\ \A k \in DOMAIN s.messages :
                /\ k \in KeysOf(account, ids) => rows2[k] \in {settled(k), dropped(k)}
                /\ k \notin KeysOf(account, ids) => rows2[k] = s.messages[k]
        OBVIOUS
    <3> HIDE DEF rows2
    <3> QED BY <2>1, <3>1
  <2>2. CASE t = [s EXCEPT !.messages = rows3]
    <3>1. /\ DOMAIN rows3 = DOMAIN s.messages
          /\ \A k \in DOMAIN s.messages :
                /\ k \in KeysOf(account, ids) => rows3[k] \in {settled(k), dropped(k)}
                /\ k \notin KeysOf(account, ids) => rows3[k] = s.messages[k]
        OBVIOUS
    <3> HIDE DEF rows3
    <3> QED BY <2>2, <3>1
  <2> QED BY <1>2, <2>1, <2>2
<1> HIDE DEF rows2, rows3
<1>4. t.messages = rows /\ t.memberships = s.memberships
    BY <1>3, TablesType DEF Sound
<1>5. ASSUME NEW k \in DOMAIN s.messages
      PROVE  /\ rows[k].content = s.messages[k].content
             /\ \A f \in MessageFlag : rows[k].pending[f] =
                   IF k \in KeysOf(account, ids) /\ f = flag
                   THEN s.messages[k].pending[f] \ {value} ELSE s.messages[k].pending[f]
  <2>1. CASE k \in KeysOf(account, ids)
      BY <1>1, <1>3, <2>1
  <2>2. CASE k \notin KeysOf(account, ids)
      BY <1>3, <2>2
  <2> QED BY <2>1, <2>2
<1>6. SameButFlags(s, t)
    BY <1>3, <1>4, <1>5 DEF SameButFlags
<1>7. ASSUME NEW k \in DOMAIN s.messages, NEW f \in MessageFlag, NEW v \in BOOLEAN,
             LosesWish(s, t, k, f, v)
      PROVE  k \in KeysOf(account, ids) /\ f = flag /\ v = value
    BY <1>4, <1>5, <1>7 DEF LosesWish
<1> QED BY <1>6, <1>7 DEF LosesOnly

-----------------------------------------------------------------------------
(* What the transactions leave in each folder.                             *)

\* A folder holds a message by one membership of the folder's own account.
LEMMA HeldInMeans ==
    ASSUME NEW s, Sound(s), NEW folder \in FolderRef, NEW id
    PROVE  id \in HeldIn(s, folder)
             <=> [folder |-> folder, message |-> Key(folder.account, id)] \in s.memberships
<1>1. ASSUME id \in HeldIn(s, folder)
      PROVE  [folder |-> folder, message |-> Key(folder.account, id)] \in s.memberships
  <2>1. PICK m \in s.memberships : m.folder = folder /\ m.message.identity = id
      BY <1>1 DEF HeldIn
  <2>2. m.message.account = folder.account
      BY <2>1 DEF Sound, ReferencesHold
  <2>3. m \in Membership
      BY TablesType DEF Sound
  <2>4. m.message = Key(folder.account, id)
      BY <2>1, <2>2, <2>3 DEF Membership, MessageKey, Key
  <2>5. m = [folder |-> folder, message |-> Key(folder.account, id)]
      BY <2>1, <2>3, <2>4 DEF Membership
  <2> QED BY <2>5
<1>2. ASSUME [folder |-> folder, message |-> Key(folder.account, id)] \in s.memberships
      PROVE  id \in HeldIn(s, folder)
    BY <1>2 DEF HeldIn, Key
<1> QED BY <1>1, <1>2

\* A message a folder holds is stored.
LEMMA HeldIsStored ==
    ASSUME NEW s, Sound(s), NEW folder \in FolderRef, NEW id \in HeldIn(s, folder)
    PROVE  /\ id \in MessageId
           /\ Key(folder.account, id) \in DOMAIN s.messages
           /\ s.messages[Key(folder.account, id)] \in MessageRow
           /\ Held(s, Key(folder.account, id))
<1>1. [folder |-> folder, message |-> Key(folder.account, id)] \in s.memberships
    BY HeldInMeans
<1>2. Key(folder.account, id) \in DOMAIN s.messages
    BY <1>1 DEF Sound, ReferencesHold
<1>3. Key(folder.account, id) \in MessageKey
    BY <1>2, TablesType DEF Sound
<1>4. id \in MessageId
    BY <1>3 DEF MessageKey, Key
<1>5. s.messages[Key(folder.account, id)] \in MessageRow
    BY <1>2, TablesType DEF Sound
<1>6. Held(s, Key(folder.account, id))
    BY <1>1 DEF Held
<1> QED BY <1>2, <1>4, <1>5, <1>6

\* An update of rows leaves every folder the messages it holds.
LEMMA SameMemberships ==
    ASSUME NEW s, NEW t, t.memberships = s.memberships
    PROVE  \A folder : HeldIn(t, folder) = HeldIn(s, folder)
    BY DEF HeldIn

\* The rows a removal leaves are as they were.
LEMMA RemoveFromFolderEffect ==
    ASSUME NEW s, Kept(s), NEW folder \in DOMAIN s.folders, NEW removed
    PROVE  LET t == RemoveFromFolder(s, folder, removed) IN
           /\ Kept(t) /\ t.folders = s.folders
           /\ t.memberships = {m \in s.memberships :
                                  ~(m.folder = folder
                                    /\ m.message \in KeysOf(folder.account, removed))}
           /\ \A k \in DOMAIN t.messages :
                 k \in DOMAIN s.messages /\ t.messages[k] = s.messages[k]
<1> DEFINE t == DeleteMemberships(s, folder, removed)
           gone == {k \in DOMAIN t.messages : k.account = folder.account /\ ~Held(t, k)}
           u == DeleteMessagesWithoutFolder(t, folder.account)
           kept == {m \in s.memberships :
                       ~(m.folder = folder /\ m.message \in KeysOf(folder.account, removed))}
           r == RemoveFromFolder(s, folder, removed)
<1>1. Kept(r) /\ r.folders = s.folders
    BY RemoveFromFolderKept
<1>2. /\ Sound(t) /\ t.messages = s.messages
    BY DeleteMembershipsSound DEF Kept
<1>3. t.memberships = kept
    BY TablesType DEF DeleteMemberships, Kept, Sound
<1>4. u.memberships = t.memberships
    BY <1>2, OrphansDeleted
<1>5. u.messages = [k \in DOMAIN t.messages \ gone |-> t.messages[k]]
  <2> HIDE DEF t
  <2>1. u = WithoutMessages(t, gone)
      BY DEF DeleteMessagesWithoutFolder
  <2> HIDE DEF u, gone
  <2>2. u = [folders     |-> t.folders,
             messages    |-> [k \in DOMAIN t.messages \ gone |-> t.messages[k]],
             memberships |-> {m \in t.memberships : m.message \notin gone}]
      BY <1>2, <2>1, WithoutMessagesSound
  <2> QED BY <2>2
<1>6. \A k \in DOMAIN u.messages : k \in DOMAIN s.messages /\ u.messages[k] = s.messages[k]
  <2> HIDE DEF t, u, gone
  <2> QED BY <1>2, <1>5
<1>7. removed = {} => kept = s.memberships
    BY DEF KeysOf
<1>8. r = IF removed = {} THEN s ELSE u
    BY DEF RemoveFromFolder
<1> HIDE DEF r, t, u, kept, gone
<1>9. r.memberships = kept
    BY <1>3, <1>4, <1>7, <1>8
<1>10. \A k \in DOMAIN r.messages : k \in DOMAIN s.messages /\ r.messages[k] = s.messages[k]
    BY <1>6, <1>8
<1> QED BY <1>1, <1>9, <1>10 DEF r, kept

\* What a batch leaves of the other folders, and shows of the messages.
OthersHoldTheSame(s, t, folder) ==
    \A g \in FolderRef \ {folder} : HeldIn(t, g) = HeldIn(s, g)

ShowsTheArrived(s, t, account, arrived) ==
    \A k \in DOMAIN t.messages :
        IF k \in KeysOf(account, DOMAIN arrived)
        THEN t.messages[k].server = arrived[k.identity].flags
        ELSE k \in DOMAIN s.messages /\ t.messages[k] = s.messages[k]

\* A batch that names no flags and no known messages leaves its folder what
\* it held, without the removed and with the arrived messages, every other
\* folder what it held, and every row but the arrived ones as it was.
LEMMA StoreBatchEffect ==
    ASSUME NEW s, Kept(s), NEW folder \in DOMAIN s.folders, NEW batch \in FolderBatch,
           batch.flag_states = NoRows, batch.known_arrived = NoRows,
           NEW st \in FolderState, batch.state = {st},
           batch.removed \intersect DOMAIN batch.arrived = {},
           NEW t, t = StoreBatch(s, folder, batch)
    PROVE  /\ Kept(t)
           /\ t.folders = [s.folders EXCEPT ![folder] = st]
           /\ HeldIn(t, folder) =
                 (HeldIn(s, folder) \ batch.removed) \union DOMAIN batch.arrived
           /\ OthersHoldTheSame(s, t, folder)
           /\ ShowsTheArrived(s, t, folder.account, batch.arrived)
<1> DEFINE account == folder.account
           new == KeysOf(account, DOMAIN batch.arrived)
           removed == RemoveFromFolder(s, folder, batch.removed)
           flagged == SetFlagStates(removed, account, batch.flag_states)
           arrived == StoreArrived(flagged, folder, batch.arrived)
           related == RelateKnown(arrived, folder, batch.known_arrived)
<1>1. /\ Kept(removed) /\ removed.folders = s.folders
      /\ removed.memberships = {m \in s.memberships :
                                   ~(m.folder = folder
                                     /\ m.message \in KeysOf(account, batch.removed))}
      /\ \A k \in DOMAIN removed.messages :
            k \in DOMAIN s.messages /\ removed.messages[k] = s.messages[k]
    BY RemoveFromFolderEffect
<1> HIDE DEF removed
<1>2. ASSUME NEW v, Sound(v)
      PROVE  SetFlagStates(v, account, NoRows) = v
  <2>1. KeysOf(account, DOMAIN NoRows) = {}
      BY DEF KeysOf, NoRows
  <2>2. SetFlagStates(v, account, NoRows)
           = [v EXCEPT !.messages = [k \in DOMAIN v.messages |-> v.messages[k]]]
      BY <2>1 DEF SetFlagStates
  <2>3. v.messages = [k \in DOMAIN v.messages |-> v.messages[k]]
      BY <1>2, TablesType DEF Sound
  <2>4. v = [folders |-> v.folders, messages |-> v.messages, memberships |-> v.memberships]
      BY <1>2, TablesType DEF Sound
  <2> QED BY <2>2, <2>3, <2>4
<1>3. flagged = removed
    BY <1>1, <1>2 DEF Kept
<1>4. batch.arrived \in PartialFunctions(MessageId, Arrival)
    BY DEF FolderBatch
<1>5. Sound(arrived) /\ arrived.folders = s.folders
    BY <1>1, <1>3, <1>4, StoreArrivedSound DEF Kept
<1>6. /\ arrived.memberships = removed.memberships
                               \union {[folder |-> folder, message |-> k] : k \in new}
      /\ \A k \in DOMAIN arrived.messages :
            IF k \in new THEN arrived.messages[k].server = batch.arrived[k.identity].flags
            ELSE k \in DOMAIN removed.messages /\ arrived.messages[k] = removed.messages[k]
  <2> DEFINE row(k) == IF k \notin new THEN removed.messages[k]
                       ELSE IF k \in DOMAIN removed.messages
                       THEN UpsertedRow(removed.messages[k], batch.arrived[k.identity])
                       ELSE NewRow(batch.arrived[k.identity])
             rows == [k \in DOMAIN removed.messages \union new |-> row(k)]
             grown == removed.memberships \union {[folder |-> folder, message |-> k] : k \in new}
  <2>1. arrived = [removed EXCEPT !.messages = rows, !.memberships = grown]
      BY <1>3 DEF StoreArrived
  <2>2. \A k \in new : row(k).server = batch.arrived[k.identity].flags
      BY DEF UpsertedRow, NewRow
  <2> HIDE DEF arrived, grown
  <2>3. arrived.messages = rows /\ arrived.memberships = grown
    <3> HIDE DEF rows
    <3> QED BY <1>1, <2>1, TablesWritten DEF Kept, Sound
  <2> HIDE DEF new
  <2>4. \A k \in DOMAIN arrived.messages :
           IF k \in new THEN arrived.messages[k] = row(k)
           ELSE k \in DOMAIN removed.messages /\ arrived.messages[k] = removed.messages[k]
      BY <2>3
  <2> HIDE DEF row, rows
  <2> QED BY <2>2, <2>3, <2>4 DEF grown
<1> HIDE DEF arrived
<1>7. related = arrived
  <2>1. KeysOf(account, DOMAIN NoRows) = {}
      BY DEF KeysOf, NoRows
  <2> DEFINE u == [arrived EXCEPT !.memberships = @ \union {}]
  <2>2. {[folder |-> folder, message |-> k] :
            k \in KeysOf(account, DOMAIN NoRows) \intersect DOMAIN arrived.messages} = {}
      BY <2>1
  <2>3. RelateKnown(arrived, folder, NoRows) = SetFlagStates(u, account, NoRows)
      BY <2>2 DEF RelateKnown
  <2>4. u = arrived
    <3>1. arrived = [folders |-> arrived.folders, messages |-> arrived.messages,
                     memberships |-> arrived.memberships]
        BY <1>5, TablesType DEF Sound
    <3>2. arrived.memberships \union {} = arrived.memberships
        OBVIOUS
    <3> QED BY <3>1, <3>2
  <2> QED BY <1>2, <1>5, <2>3, <2>4
<1> HIDE DEF related, flagged
<1>8. t = WriteFolderState(arrived, folder, st)
  <2>1. (CHOOSE x \in batch.state : TRUE) = st
      OBVIOUS
  <2>2. t = WriteFolderState(related, folder, CHOOSE x \in batch.state : TRUE)
      BY DEF StoreBatch, removed, flagged, arrived, related
  <2> QED BY <1>7, <2>1, <2>2
<1>9. Kept(t)
    BY StoreBatchKept
<1>10. /\ t.folders = [s.folders EXCEPT ![folder] = st]
       /\ t.messages = arrived.messages
       /\ t.memberships = arrived.memberships
    BY <1>5, <1>8, TablesType DEF WriteFolderState, Sound
<1>11. \A k \in DOMAIN t.messages :
          IF k \in new THEN t.messages[k].server = batch.arrived[k.identity].flags
          ELSE k \in DOMAIN s.messages /\ t.messages[k] = s.messages[k]
  <2> HIDE DEF new
  <2> QED BY <1>1, <1>6, <1>10
<1>12. folder \in FolderRef
    BY TablesType DEF Kept, Sound
<1>13. ASSUME NEW id
       PROVE  id \in HeldIn(t, folder)
                <=> id \in (HeldIn(s, folder) \ batch.removed) \union DOMAIN batch.arrived
  <2> DEFINE m == [folder |-> folder, message |-> Key(account, id)]
  <2>1. /\ id \in HeldIn(t, folder) <=> m \in t.memberships
        /\ id \in HeldIn(s, folder) <=> m \in s.memberships
      BY <1>9, <1>12, HeldInMeans DEF Kept
  <2>2. /\ Key(account, id) \in KeysOf(account, batch.removed) <=> id \in batch.removed
        /\ Key(account, id) \in new <=> id \in DOMAIN batch.arrived
      BY DEF KeysOf, Key
  <2>3. m \in {[folder |-> folder, message |-> k] : k \in new} <=> Key(account, id) \in new
    <3> HIDE DEF new
    <3> QED OBVIOUS
  <2>4. m \in t.memberships <=> \/ m \in s.memberships /\ id \notin batch.removed
                                \/ id \in DOMAIN batch.arrived
    <3> HIDE DEF new
    <3> QED BY <1>1, <1>6, <1>10, <2>2, <2>3
  <2> QED BY <2>1, <2>4
<1>14. ASSUME NEW g \in FolderRef \ {folder}, NEW id
       PROVE  id \in HeldIn(t, g) <=> id \in HeldIn(s, g)
  <2> DEFINE m == [folder |-> g, message |-> Key(g.account, id)]
  <2>1. /\ id \in HeldIn(t, g) <=> m \in t.memberships
        /\ id \in HeldIn(s, g) <=> m \in s.memberships
      BY <1>9, HeldInMeans DEF Kept
  <2>2. m \notin {[folder |-> folder, message |-> k] : k \in new}
      OBVIOUS
  <2>3. m \in t.memberships <=> m \in s.memberships
      BY <1>1, <1>6, <1>10, <2>2
  <2> QED BY <2>1, <2>3
<1>15. HeldIn(t, folder) = (HeldIn(s, folder) \ batch.removed) \union DOMAIN batch.arrived
    BY <1>13
<1>16. \A g \in FolderRef \ {folder} : HeldIn(t, g) = HeldIn(s, g)
    BY <1>14
<1> QED BY <1>9, <1>10, <1>11, <1>15, <1>16 DEF OthersHoldTheSame, ShowsTheArrived

\* Each row's flags are as the server was last known to hold them, but for
\* one that is known better.
SameServerFlags(s, t) ==
    \A k \in DOMAIN s.messages : t.messages[k].server = s.messages[k].server

ServerFlagSet(s, t, keys, flag, value) ==
    \A k \in DOMAIN s.messages :
        t.messages[k].server = IF k \in keys THEN [s.messages[k].server EXCEPT ![flag] = value]
                               ELSE s.messages[k].server

\* A change of the user, and the end of those that were refused, leave the
\* folders, the memberships and the server's flags.
LEMMA WishedRows ==
    ASSUME NEW s, Kept(s), NEW account, NEW id,
           NEW flag \in MessageFlag, NEW value \in BOOLEAN, NEW t,
           t = WritePendingFlag(s, account, id, flag, value)
    PROVE  /\ Kept(t)
           /\ t.folders = s.folders /\ t.memberships = s.memberships
           /\ DOMAIN t.messages = DOMAIN s.messages
           /\ SameServerFlags(s, t)
<1> DEFINE wanted(k) == [s.messages[k] EXCEPT !.pending[flag] = {value}]
           named(k) == k \in KeysOf(account, {id})
           rows == [k \in DOMAIN s.messages |-> IF named(k) THEN wanted(k) ELSE s.messages[k]]
<1>1. ASSUME NEW k \in DOMAIN s.messages
      PROVE  wanted(k).server = s.messages[k].server
  <2>1. s.messages[k] \in MessageRow
      BY TablesType DEF Kept, Sound
  <2> QED BY <2>1 DEF MessageRow
<1>2. t = [s EXCEPT !.messages = rows]
    BY DEF WritePendingFlag, UpdateMessages
<1>3. ASSUME NEW k \in DOMAIN s.messages
      PROVE  rows[k].server = s.messages[k].server
  <2> HIDE DEF wanted, named
  <2> QED BY <1>1
<1>4. DOMAIN rows = DOMAIN s.messages
    OBVIOUS
<1>5. Kept(t)
    BY WishesKept
<1> HIDE DEF rows
<1>6. s = [folders |-> s.folders, messages |-> s.messages, memberships |-> s.memberships]
    BY TablesType DEF Kept, Sound
<1>7. t = [folders |-> s.folders, messages |-> rows, memberships |-> s.memberships]
    BY <1>2, <1>6
<1> QED BY <1>3, <1>4, <1>5, <1>7 DEF SameServerFlags

LEMMA DroppedRows ==
    ASSUME NEW s, Kept(s), NEW account, NEW ids,
           NEW flag \in MessageFlag, NEW value \in BOOLEAN, NEW t,
           t = DropPendingFlags(s, account, ids, flag, value)
    PROVE  /\ Kept(t)
           /\ t.folders = s.folders /\ t.memberships = s.memberships
           /\ DOMAIN t.messages = DOMAIN s.messages
           /\ SameServerFlags(s, t)
<1> DEFINE refused(k) == [s.messages[k] EXCEPT !.pending[flag] = @ \ {value}]
           named(k) == k \in KeysOf(account, ids)
           rows == [k \in DOMAIN s.messages |-> IF named(k) THEN refused(k) ELSE s.messages[k]]
<1>1. ASSUME NEW k \in DOMAIN s.messages
      PROVE  refused(k).server = s.messages[k].server
  <2>1. s.messages[k] \in MessageRow
      BY TablesType DEF Kept, Sound
  <2> QED BY <2>1 DEF MessageRow
<1>2. t = [s EXCEPT !.messages = rows]
    BY DEF DropPendingFlags, UpdateMessages
<1>3. ASSUME NEW k \in DOMAIN s.messages
      PROVE  rows[k].server = s.messages[k].server
  <2> HIDE DEF refused, named
  <2> QED BY <1>1
<1>4. DOMAIN rows = DOMAIN s.messages
    OBVIOUS
<1>5. Kept(t)
    BY WishesKept
<1> HIDE DEF rows
<1>6. s = [folders |-> s.folders, messages |-> s.messages, memberships |-> s.memberships]
    BY TablesType DEF Kept, Sound
<1>7. t = [folders |-> s.folders, messages |-> rows, memberships |-> s.memberships]
    BY <1>2, <1>6
<1> QED BY <1>3, <1>4, <1>5, <1>7 DEF SameServerFlags

\* A value the server accepted is the rows' from then on.
LEMMA SettledRows ==
    ASSUME NEW s, Kept(s), NEW account, NEW ids,
           NEW flag \in MessageFlag, NEW value \in BOOLEAN, NEW t,
           t = SettleFlags(s, account, ids, flag, value)
    PROVE  /\ Kept(t)
           /\ t.folders = s.folders /\ t.memberships = s.memberships
           /\ DOMAIN t.messages = DOMAIN s.messages
           /\ ServerFlagSet(s, t, KeysOf(account, ids), flag, value)
<1> DEFINE accepted(k) == [s.messages[k] EXCEPT !.server[flag] = value,
                                                !.pending[flag] = @ \ {value}]
           named(k) == k \in KeysOf(account, ids)
           rows == [k \in DOMAIN s.messages |-> IF named(k) THEN accepted(k) ELSE s.messages[k]]
<1>1. ASSUME NEW k \in DOMAIN s.messages
      PROVE  accepted(k).server = [s.messages[k].server EXCEPT ![flag] = value]
  <2>1. s.messages[k] \in MessageRow
      BY TablesType DEF Kept, Sound
  <2> DEFINE agreed == [s.messages[k] EXCEPT !.server[flag] = value]
  <2>2. accepted(k) = [agreed EXCEPT !.pending[flag] = @ \ {value}]
      OBVIOUS
  <2>3. agreed = [server  |-> [s.messages[k].server EXCEPT ![flag] = value],
                  pending |-> s.messages[k].pending, content |-> s.messages[k].content]
      BY <2>1 DEF MessageRow
  <2> HIDE DEF agreed
  <2> QED BY <2>2, <2>3
<1>2. t = [s EXCEPT !.messages = rows]
    BY DEF SettleFlags, UpdateMessages
<1>3. ASSUME NEW k \in DOMAIN s.messages
      PROVE  rows[k].server = IF k \in KeysOf(account, ids)
                              THEN [s.messages[k].server EXCEPT ![flag] = value]
                              ELSE s.messages[k].server
  <2> HIDE DEF accepted
  <2> QED BY <1>1
<1>4. DOMAIN rows = DOMAIN s.messages
    OBVIOUS
<1>5. Kept(t)
    BY WishesKept
<1> HIDE DEF rows
<1>6. s = [folders |-> s.folders, messages |-> s.messages, memberships |-> s.memberships]
    BY TablesType DEF Kept, Sound
<1>7. t = [folders |-> s.folders, messages |-> rows, memberships |-> s.memberships]
    BY <1>2, <1>6
<1> QED BY <1>3, <1>4, <1>5, <1>7 DEF ServerFlagSet

\* The server's flags that a batch leaves in a row: what it says last of the
\* message, or what the row had.
FlagsAfter(s, account, batch, k) ==
    IF k \in KeysOf(account, DOMAIN batch.known_arrived) THEN batch.known_arrived[k.identity]
    ELSE IF k \in KeysOf(account, DOMAIN batch.arrived) THEN batch.arrived[k.identity].flags
    ELSE IF k \in KeysOf(account, DOMAIN batch.flag_states)
         THEN batch.flag_states[k.identity]
    ELSE s.messages[k].server

\* The flags written into the rows, and nothing else of them.
LEMMA SetFlagStatesFlags ==
    ASSUME NEW s, Sound(s), NEW account,
           NEW flag_states \in PartialFunctions(MessageId, Flags)
    PROVE  LET t == SetFlagStates(s, account, flag_states) IN
           \A k \in DOMAIN s.messages :
              t.messages[k].server = IF k \in KeysOf(account, DOMAIN flag_states)
                                     THEN flag_states[k.identity] ELSE s.messages[k].server
<1> DEFINE t == SetFlagStates(s, account, flag_states)
           told(k) == [s.messages[k] EXCEPT !.server = flag_states[k.identity]]
           rows == [k \in DOMAIN s.messages |->
                       IF k \in KeysOf(account, DOMAIN flag_states) THEN told(k)
                       ELSE s.messages[k]]
<1>1. ASSUME NEW k \in DOMAIN s.messages
      PROVE  told(k).server = flag_states[k.identity]
  <2>1. s.messages[k] \in MessageRow
      BY TablesType DEF Sound
  <2> QED BY <2>1 DEF MessageRow
<1>2. t = [s EXCEPT !.messages = rows]
    BY DEF SetFlagStates
<1> HIDE DEF told
<1>3. ASSUME NEW k \in DOMAIN s.messages
      PROVE  rows[k].server = IF k \in KeysOf(account, DOMAIN flag_states)
                              THEN flag_states[k.identity] ELSE s.messages[k].server
    BY <1>1
<1>4. s = [folders |-> s.folders, messages |-> s.messages, memberships |-> s.memberships]
    BY TablesType DEF Sound
<1> HIDE DEF rows
<1>5. t.messages = rows
    BY <1>2, <1>4
<1> QED BY <1>3, <1>5

\* A batch leaves its folder what it held, without the removed and with the
\* arrived messages, known or not; every other folder what it held; and each
\* row the flags the batch says last.
LEMMA StoreBatchFlags ==
    ASSUME NEW s, Kept(s), NEW folder \in DOMAIN s.folders, NEW batch \in FolderBatch,
           KeysOf(folder.account, DOMAIN batch.known_arrived) \subseteq DOMAIN s.messages,
           batch.removed = {} \/ batch.known_arrived = NoRows,
           batch.removed \intersect DOMAIN batch.arrived = {},
           NEW t, t = StoreBatch(s, folder, batch)
    PROVE  /\ Kept(t)
           /\ DOMAIN t.folders = DOMAIN s.folders
           /\ \A g \in DOMAIN s.folders :
                 g # folder \/ batch.state = {} => t.folders[g] = s.folders[g]
           /\ \A st \in batch.state : t.folders[folder] = st
           /\ HeldIn(t, folder) = (HeldIn(s, folder) \ batch.removed)
                 \union DOMAIN batch.arrived \union DOMAIN batch.known_arrived
           /\ OthersHoldTheSame(s, t, folder)
           /\ \A k \in DOMAIN t.messages :
                 /\ t.messages[k].server = FlagsAfter(s, folder.account, batch, k)
                 /\ k \notin DOMAIN s.messages
                       => k \in KeysOf(folder.account, DOMAIN batch.arrived)
<1> DEFINE account == folder.account
           told == KeysOf(account, DOMAIN batch.flag_states)
           new == KeysOf(account, DOMAIN batch.arrived)
           known == KeysOf(account, DOMAIN batch.known_arrived)
           removed == RemoveFromFolder(s, folder, batch.removed)
           flagged == SetFlagStates(removed, account, batch.flag_states)
           arrived == StoreArrived(flagged, folder, batch.arrived)
           related == RelateKnown(arrived, folder, batch.known_arrived)
<1>1. /\ Kept(removed) /\ removed.folders = s.folders
      /\ removed.memberships = {m \in s.memberships :
                                   ~(m.folder = folder
                                     /\ m.message \in KeysOf(account, batch.removed))}
      /\ \A k \in DOMAIN removed.messages :
            k \in DOMAIN s.messages /\ removed.messages[k] = s.messages[k]
    BY RemoveFromFolderEffect
<1>2. batch.removed = {} => removed = s
    BY DEF RemoveFromFolder
<1> HIDE DEF removed
<1>3. /\ batch.flag_states \in PartialFunctions(MessageId, Flags)
      /\ batch.arrived \in PartialFunctions(MessageId, Arrival)
      /\ batch.known_arrived \in PartialFunctions(MessageId, Flags)
      /\ batch.state = {} \/ \E st \in FolderState : batch.state = {st}
    BY DEF FolderBatch
<1>4. /\ Sound(flagged)
      /\ DOMAIN flagged.messages = DOMAIN removed.messages
      /\ flagged.memberships = removed.memberships
      /\ flagged.folders = s.folders
      /\ \A k \in DOMAIN removed.messages :
            flagged.messages[k].server = IF k \in told THEN batch.flag_states[k.identity]
                                         ELSE removed.messages[k].server
  <2> HIDE DEF flagged
  <2>1. Sound(removed)
      BY <1>1 DEF Kept
  <2> QED BY <1>1, <1>3, <2>1, SetFlagStatesSound, SetFlagStatesFlags DEF flagged
<1> HIDE DEF flagged
<1>5. Sound(arrived) /\ arrived.folders = s.folders
    BY <1>3, <1>4, StoreArrivedSound
<1>6. /\ arrived.memberships = flagged.memberships
                               \union {[folder |-> folder, message |-> k] : k \in new}
      /\ DOMAIN arrived.messages = DOMAIN flagged.messages \union new
      /\ \A k \in DOMAIN arrived.messages :
            arrived.messages[k].server = IF k \in new THEN batch.arrived[k.identity].flags
                                         ELSE flagged.messages[k].server
  <2> DEFINE row(k) == IF k \notin new THEN flagged.messages[k]
                       ELSE IF k \in DOMAIN flagged.messages
                       THEN UpsertedRow(flagged.messages[k], batch.arrived[k.identity])
                       ELSE NewRow(batch.arrived[k.identity])
             rows == [k \in DOMAIN flagged.messages \union new |-> row(k)]
             grown == flagged.memberships \union {[folder |-> folder, message |-> k] : k \in new}
  <2>1. arrived = [flagged EXCEPT !.messages = rows, !.memberships = grown]
      BY DEF StoreArrived
  <2>2. \A k : row(k).server = IF k \in new THEN batch.arrived[k.identity].flags
                              ELSE flagged.messages[k].server
      BY DEF UpsertedRow, NewRow
  <2> HIDE DEF arrived, grown
  <2>3. arrived.messages = rows /\ arrived.memberships = grown
    <3> HIDE DEF rows
    <3> QED BY <1>4, <2>1, TablesWritten DEF Sound
  <2> HIDE DEF new, row
  <2> QED BY <2>2, <2>3 DEF grown
<1> HIDE DEF arrived
<1> DEFINE grown == arrived.memberships \union {[folder |-> folder, message |-> k] : k \in known}
           u == [arrived EXCEPT !.memberships = grown]
<1>7. known \subseteq DOMAIN arrived.messages
  <2>1. batch.known_arrived = NoRows => known = {}
      BY DEF NoRows, KeysOf
  <2>2. batch.removed = {} => known \subseteq DOMAIN removed.messages
      BY <1>2
  <2> HIDE DEF known, new
  <2> QED BY <1>4, <1>6, <2>1, <2>2
<1>8. related = SetFlagStates(u, account, batch.known_arrived)
  <2>1. known \intersect DOMAIN arrived.messages = known
    <3> HIDE DEF known
    <3> QED BY <1>7
  <2> QED BY <2>1 DEF RelateKnown
<1> HIDE DEF related
<1>9. u = [folders |-> arrived.folders, messages |-> arrived.messages, memberships |-> grown]
  <2> HIDE DEF grown
  <2> QED BY <1>5, TablesWritten DEF Sound
<1> HIDE DEF u
<1>10. Sound(u)
  <2>1. \A k \in known : [folder |-> folder, message |-> k] \in Membership
                         /\ k.account = folder.account
    <3>1. folder \in FolderRef /\ DOMAIN arrived.messages \subseteq MessageKey
        BY <1>5, TablesType DEF Kept, Sound
    <3>2. \A k \in known : k.account = folder.account
        BY DEF KeysOf, Key
    <3> HIDE DEF known
    <3> QED BY <1>7, <3>1, <3>2 DEF Membership
  <2> HIDE DEF known
  <2>2. grown \subseteq Membership
      BY <1>5, <2>1, TablesType DEF Sound
  <2>3. folder \in DOMAIN arrived.folders
      BY <1>5
  <2>4. \A m \in grown : /\ m.folder \in DOMAIN arrived.folders
                         /\ m.message \in DOMAIN arrived.messages
                         /\ m.folder.account = m.message.account
      BY <1>5, <1>7, <2>1, <2>3 DEF Sound, ReferencesHold
  <2> HIDE DEF grown
  <2>5. u \in Tables
      BY <1>5, <1>9, <2>2, TablesType DEF Sound
  <2> QED BY <1>9, <2>4, <2>5 DEF Sound, ReferencesHold
<1>11. /\ Sound(related) /\ related.folders = s.folders
       /\ related.memberships = grown
       /\ DOMAIN related.messages = DOMAIN arrived.messages
       /\ \A k \in DOMAIN arrived.messages :
             related.messages[k].server = IF k \in known THEN batch.known_arrived[k.identity]
                                          ELSE arrived.messages[k].server
  <2>1. \A k \in DOMAIN u.messages :
           related.messages[k].server = IF k \in known THEN batch.known_arrived[k.identity]
                                        ELSE u.messages[k].server
      BY <1>3, <1>8, <1>10, SetFlagStatesFlags
  <2>2. /\ Sound(related)
        /\ DOMAIN related.messages = DOMAIN u.messages
        /\ related.memberships = u.memberships
        /\ related.folders = u.folders
      BY <1>3, <1>8, <1>10, SetFlagStatesSound
  <2> HIDE DEF grown, known
  <2> QED BY <1>5, <1>9, <2>1, <2>2
<1>12. /\ batch.state = {} => t = related
       /\ \A st : batch.state = {st} => t = WriteFolderState(related, folder, st)
  <2>1. \A st : batch.state = {st} => (CHOOSE x \in batch.state : TRUE) = st
      OBVIOUS
  <2>2. t = IF batch.state = {} THEN related
            ELSE WriteFolderState(related, folder, CHOOSE x \in batch.state : TRUE)
      BY DEF StoreBatch, removed, flagged, arrived, related
  <2> QED BY <2>1, <2>2
<1>13. /\ t.messages = related.messages /\ t.memberships = related.memberships
       /\ DOMAIN t.folders = DOMAIN s.folders
       /\ \A g \in DOMAIN s.folders :
             g # folder \/ batch.state = {} => t.folders[g] = s.folders[g]
       /\ \A st \in batch.state : t.folders[folder] = st
  <2>1. related = [folders |-> related.folders, messages |-> related.messages,
                   memberships |-> related.memberships]
      BY <1>11, TablesType DEF Sound
  <2>2. ASSUME NEW st, batch.state = {st}
        PROVE  /\ t.messages = related.messages /\ t.memberships = related.memberships
               /\ t.folders = [s.folders EXCEPT ![folder] = st]
    <3>1. t = [related EXCEPT !.folders[folder] = st]
        BY <1>12, <2>2 DEF WriteFolderState
    <3> QED BY <1>11, <2>1, <3>1
  <2>3. ASSUME batch.state = {}
        PROVE  t = related
      BY <1>12, <2>3
  <2>4. CASE batch.state = {}
      BY <1>11, <2>3, <2>4
  <2>5. ASSUME NEW st, batch.state = {st}
        PROVE  /\ t.messages = related.messages /\ t.memberships = related.memberships
               /\ DOMAIN t.folders = DOMAIN s.folders
               /\ \A g \in DOMAIN s.folders :
                     g # folder \/ batch.state = {} => t.folders[g] = s.folders[g]
               /\ \A x \in batch.state : t.folders[folder] = x
    <3>1. /\ t.messages = related.messages /\ t.memberships = related.memberships
          /\ t.folders = [s.folders EXCEPT ![folder] = st]
        BY <2>2, <2>5
    <3>2. /\ DOMAIN t.folders = DOMAIN s.folders /\ t.folders[folder] = st
          /\ \A g \in DOMAIN s.folders : g # folder => t.folders[g] = s.folders[g]
        BY <3>1
    <3> QED BY <2>5, <3>1, <3>2
  <2>6. batch.state = {} \/ \E st : batch.state = {st}
      BY <1>3
  <2> QED BY <2>4, <2>5, <2>6
<1>14. Kept(t)
    BY StoreBatchKept
<1>15. folder \in FolderRef
    BY TablesType DEF Kept, Sound
<1>16. ASSUME NEW id
       PROVE  id \in HeldIn(t, folder)
                <=> id \in (HeldIn(s, folder) \ batch.removed)
                       \union DOMAIN batch.arrived \union DOMAIN batch.known_arrived
  <2> DEFINE m == [folder |-> folder, message |-> Key(account, id)]
  <2>1. /\ id \in HeldIn(t, folder) <=> m \in t.memberships
        /\ id \in HeldIn(s, folder) <=> m \in s.memberships
      BY <1>14, <1>15, HeldInMeans DEF Kept
  <2>2. /\ Key(account, id) \in KeysOf(account, batch.removed) <=> id \in batch.removed
        /\ Key(account, id) \in new <=> id \in DOMAIN batch.arrived
        /\ Key(account, id) \in known <=> id \in DOMAIN batch.known_arrived
      BY DEF KeysOf, Key
  <2> HIDE DEF new, known
  <2>3. /\ m \in {[folder |-> folder, message |-> k] : k \in new} <=> Key(account, id) \in new
        /\ m \in {[folder |-> folder, message |-> k] : k \in known}
              <=> Key(account, id) \in known
      OBVIOUS
  <2>4. m \in t.memberships <=> \/ m \in s.memberships /\ id \notin batch.removed
                                \/ id \in DOMAIN batch.arrived
                                \/ id \in DOMAIN batch.known_arrived
      BY <1>1, <1>4, <1>6, <1>11, <1>13, <2>2, <2>3
  <2> QED BY <2>1, <2>4
<1>17. ASSUME NEW g \in FolderRef \ {folder}, NEW id
       PROVE  id \in HeldIn(t, g) <=> id \in HeldIn(s, g)
  <2> DEFINE m == [folder |-> g, message |-> Key(g.account, id)]
  <2>1. /\ id \in HeldIn(t, g) <=> m \in t.memberships
        /\ id \in HeldIn(s, g) <=> m \in s.memberships
      BY <1>14, HeldInMeans DEF Kept
  <2>2. /\ m \notin {[folder |-> folder, message |-> k] : k \in new}
        /\ m \notin {[folder |-> folder, message |-> k] : k \in known}
      OBVIOUS
  <2>3. m \in t.memberships <=> m \in s.memberships
      BY <1>1, <1>4, <1>6, <1>11, <1>13, <2>2
  <2> QED BY <2>1, <2>3
<1>18. HeldIn(t, folder) = (HeldIn(s, folder) \ batch.removed)
          \union DOMAIN batch.arrived \union DOMAIN batch.known_arrived
    BY <1>16
<1>19. OthersHoldTheSame(s, t, folder)
    BY <1>17 DEF OthersHoldTheSame
<1>20. ASSUME NEW k \in DOMAIN t.messages
       PROVE  /\ t.messages[k].server = FlagsAfter(s, account, batch, k)
              /\ k \notin DOMAIN s.messages => k \in new
  <2> HIDE DEF new, known, told, account
  <2>1. k \in DOMAIN arrived.messages /\ t.messages[k] = related.messages[k]
      BY <1>11, <1>13
  <2>2. k \notin new => /\ k \in DOMAIN removed.messages /\ k \in DOMAIN s.messages
                        /\ removed.messages[k] = s.messages[k]
      BY <1>1, <1>4, <1>6, <2>1
  <2>3. t.messages[k].server = IF k \in known THEN batch.known_arrived[k.identity]
                               ELSE IF k \in new THEN batch.arrived[k.identity].flags
                               ELSE IF k \in told THEN batch.flag_states[k.identity]
                               ELSE s.messages[k].server
      BY <1>4, <1>6, <1>11, <2>1, <2>2
  <2> QED BY <2>2, <2>3 DEF FlagsAfter, new, known, told, account
<1> HIDE DEF new, known
<1> QED BY <1>13, <1>14, <1>18, <1>19, <1>20 DEF new
=============================================================================
