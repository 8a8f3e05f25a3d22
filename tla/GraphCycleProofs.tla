--------------------------- MODULE GraphCycleProofs ---------------------------
(***************************************************************************)
(* What a Microsoft 365 cycle keeps, for every set of accounts, folders    *)
(* and messages, every page size and every bound.  A page, a batch and an  *)
(* answer are each taken at one moment and stored at a later one, with     *)
(* other clients' changes in between; so the invariant says of each what   *)
(* it proves of the messages that have not changed since the link the      *)
(* reading goes on from.                                                   *)
(***************************************************************************)
EXTENDS GraphCycle, StoreRowsProofs

-----------------------------------------------------------------------------
(* Types.                                                                  *)

Positions == [kind : {"position"}, since : Nat]
Pages     == [kind : {"page"}, since : Nat, left : SUBSET MessageId, first : BOOLEAN]
Links     == Positions \union Pages

\* What the folder's saved state may say: every link the service gives, and
\* the absence of one, which is no link.
LinksArePlaces == Links \subseteq Place /\ NoPlace \notin Links

ServiceTypes ==
    /\ where \in [MessageId -> FolderRef \union {Nowhere}]
    /\ flags \in [MessageId -> Flags]
    /\ changed \in [FolderRef -> [MessageId -> Nat]]
    /\ clock \in Nat
    /\ \A f \in FolderRef, m \in MessageId : changed[f][m] <= clock

SavedPlace(f) == store.folders[f].place

\* A saved place is no link, a position, or the next page of a first reading;
\* a synchronized folder has a position.
StoreTypes ==
    /\ Kept(store)
    /\ outdated \in PartialFunctions(MessageKey, Flags)
    /\ DOMAIN store.folders = FolderRef
    /\ \A f \in FolderRef :
          /\ SavedPlace(f) \in {NoPlace} \union Positions \union {p \in Pages : p.first}
          /\ store.folders[f].synchronized => SavedPlace(f) \in Positions

CycleFields ==
    {"phase", "folder", "from", "reading", "stored", "round_start", "named", "listed",
     "next", "again", "batch", "outdated", "completes", "changes", "command", "answer"}

BatchTypes(batch) ==
    /\ batch = [removed |-> batch.removed, flag_states |-> NoRows, arrived |-> batch.arrived,
                known_arrived |-> NoRows, state |-> {}]
    /\ batch.removed \subseteq MessageId
    /\ batch.arrived \in PartialFunctions(MessageId, Arrival)
    /\ batch.removed \intersect DOMAIN batch.arrived = {}

\* What is known of the batch's outdated messages.
OutdatedTypes(batch, rows) ==
    rows \in PartialFunctions(MessageId, Flags) /\ DOMAIN rows \subseteq DOMAIN batch.arrived

\* The local variables of a running cycle.
CycleRecord(c) ==
    /\ DOMAIN c = CycleFields
    /\ c.phase \in Phases \ {"idle"}
    /\ c.folder \in FolderRef
    /\ c.from \in {FirstReading} \union Links
    /\ c.reading \in Readings
    /\ c.stored \subseteq MessageId
    /\ c.listed \subseteq MessageId
    /\ c.round_start \in {NoPlace} \union Positions
    /\ c.again \subseteq MessageId
    /\ BatchTypes(c.batch)
    /\ OutdatedTypes(c.batch, c.outdated)
    /\ c.again \intersect (c.batch.removed \union DOMAIN c.batch.arrived) = {}
    /\ c.completes \in BOOLEAN
    /\ c.changes \subseteq PendingChange
    /\ c.command \subseteq PendingChange
    /\ c.answer \in {"2xx", "4xx", "none"}
    /\ c.phase = "page" => c.next \in Links
    /\ c.phase # "page" => c.again = {} /\ c.batch = EmptyBatch

CycleTypes == Running => CycleRecord(cycle)

CounterTypes ==
    faults \in Nat /\ faults <= MaxFaults /\ wishes \in Nat /\ wishes <= MaxWishes

-----------------------------------------------------------------------------
(* What a link proves.                                                     *)

\* The link the reading goes on from, and the messages it has yet to report.
Onward     == IF cycle.phase = "page" THEN cycle.next ELSE cycle.from
Left(link) == IF link.kind = "page" THEN link.left ELSE {}

\* The message did not change in the folder since the link, which does not
\* report it.
Covered(f, link, m) == m \notin Left(link) /\ changed[f][m] <= link.since

\* What a first reading has yet to list and did not change is in the folder.
LeftIsThere(f, link) ==
    link.kind = "page" /\ link.first =>
        \A m \in link.left : changed[f][m] <= link.since => where[m] = f

SavedProves ==
    \A f \in FolderRef : SavedPlace(f) # NoPlace =>
        /\ SavedPlace(f).since <= clock
        /\ LeftIsThere(f, SavedPlace(f))
        /\ \A m \in MessageId : Covered(f, SavedPlace(f), m) => Agrees(f, m)

\* A reading compared with the stored rows at its end only.
Rereading == cycle.reading = "FullRereading" /\ ~cycle.completes

InBatch(m) == m \in cycle.batch.removed \union DOMAIN cycle.batch.arrived

\* What the row of a message the batch brings will show; of an outdated one,
\* what the page's current entry gave instead.
BatchFlags(m) ==
    IF m \in DOMAIN cycle.outdated THEN cycle.outdated[m] ELSE cycle.batch.arrived[m].flags

\* Once the page is stored, the store shows the message as the service has it,
\* or it is one a full reading does not list.
PageProves(f, m) ==
    /\ m \in DOMAIN cycle.batch.arrived => where[m] = f /\ BatchFlags(m) = flags[m]
    /\ m \in cycle.batch.removed => where[m] # f
    /\ ~InBatch(m) /\ m \notin cycle.again => Agrees(f, m) \/ (Rereading /\ where[m] # f)
    /\ Rereading => (where[m] = f <=> m \in cycle.listed)

OnwardProves(f) ==
    Onward.kind # "first" =>
        /\ Onward.since <= clock
        /\ LeftIsThere(f, Onward)
        /\ \A m \in MessageId : Covered(f, Onward, m) => PageProves(f, m)

\* A message of the batch is in no other folder that has not seen it change:
\* its stored flags may be replaced.
ArrivedFromNowhere(f) ==
    \A m \in DOMAIN cycle.batch.arrived, g \in FolderRef :
        /\ g # f /\ g.account = f.account
        /\ SavedPlace(g) # NoPlace /\ Covered(g, SavedPlace(g), m)
        => where[m] # g

\* Where each reading goes on, and what it keeps of the folder's saved place.
ReadingsGoOn(f) ==
    /\ Onward.kind = "first" =>
          cycle.phase = "reading" /\ cycle.reading \in {"FirstFill", "FullRereading"}
    /\ Onward.kind = "position" => cycle.phase = "page" \/ cycle.completes
                                   \/ cycle.reading = "Round"
    /\ Onward.kind = "page" => (Onward.first <=> cycle.reading # "Round")
    /\ Onward.kind = "page" /\ Onward.first =>
          \A m \in Onward.left : ~InBatch(m) /\ m \notin cycle.again
    /\ cycle.phase \in {"reading", "page"} => ~cycle.completes
    /\ cycle.completes => Onward.kind = "position"
    /\ cycle.reading \in {"FirstFill", "ContinuedFill"} => cycle.round_start = NoPlace
    /\ ~cycle.completes =>
          /\ cycle.round_start \in {NoPlace, SavedPlace(f)}
          /\ cycle.round_start # NoPlace /\ Onward.kind # "first" =>
                cycle.round_start.since <= Onward.since
          /\ cycle.reading = "Round" =>
                /\ cycle.round_start # NoPlace
                /\ \A m \in Left(Onward) : changed[f][m] > cycle.round_start.since

\* What is stored in the folder at the start of a first reading, and what a
\* full reading compares it with.
ReadingsCompare(f) ==
    /\ Onward.kind = "first" /\ cycle.reading = "FirstFill" => HeldIn(store, f) = {}
    /\ Rereading =>
          /\ Onward.kind = "first" => cycle.stored = HeldIn(store, f) /\ cycle.listed = {}
          /\ HeldIn(store, f) \subseteq cycle.stored \union cycle.listed
          /\ cycle.again \union DOMAIN cycle.batch.arrived \subseteq cycle.listed

\* The value the service accepted is the message's own wherever a link covers
\* it: storing it breaks no link's proof.
AcceptedIsHeld(f) ==
    cycle.phase = "answered" /\ cycle.answer = "2xx" =>
        \A c \in cycle.command, g \in FolderRef :
            /\ where[c.identity] = g
            /\ \/ SavedPlace(g) # NoPlace /\ changed[g][c.identity] <= SavedPlace(g).since
               \/ g = f /\ changed[g][c.identity] <= Onward.since
            => flags[c.identity][c.flag] = c.wanted

CycleProves ==
    \A f \in FolderRef : Running /\ cycle.folder = f =>
        /\ OnwardProves(f)
        /\ ArrivedFromNowhere(f)
        /\ ReadingsGoOn(f)
        /\ ReadingsCompare(f)
        /\ AcceptedIsHeld(f)

Types == ServiceTypes /\ StoreTypes /\ CycleTypes /\ CounterTypes

Invariant == Types /\ SavedProves /\ CycleProves
-----------------------------------------------------------------------------
(* The service's mail.                                                     *)

\* What the other clients, or the cycle's own changes, do to a message as a
\* folder shows it: it changes there, now, or stays as it is.
ServiceMoves ==
    /\ clock' \in Nat /\ clock <= clock'
    /\ \A f \in FolderRef, m \in MessageId :
          \/ /\ changed'[f][m] = clock' /\ clock < clock'
             /\ where[m] = f \/ where'[m] = f
          \/ /\ changed'[f][m] = changed[f][m]
             /\ where'[m] = f <=> where[m] = f
             /\ where[m] = f => flags'[m] = flags[m]

\* The service that rests.
LEMMA ServiceRests ==
    ASSUME ServiceTypes, UNCHANGED serviceVars
    PROVE  ServiceTypes' /\ ServiceMoves
<1> USE DEF serviceVars
<1>1. ServiceTypes'
    BY DEF ServiceTypes
<1>2. ServiceMoves
    BY DEF ServiceTypes, ServiceMoves
<1> QED BY <1>1, <1>2

\* The message is touched in the folders that lose, get or show it.
LEMMA TouchTypes ==
    ASSUME ServiceTypes, NEW m \in MessageId, NEW folders, Touch(m, folders)
    PROVE  /\ clock' = clock + 1
           /\ changed' \in [FolderRef -> [MessageId -> Nat]]
           /\ \A f \in FolderRef, i \in MessageId :
                 changed'[f][i] = IF f \in folders /\ i = m THEN clock' ELSE changed[f][i]
           /\ \A f \in FolderRef, i \in MessageId : changed'[f][i] <= clock'
<1> USE DEF ServiceTypes, Touch
<1>1. clock' = clock + 1 /\ clock' \in Nat
    OBVIOUS
<1>2. changed' = [f \in FolderRef |-> IF f \in folders THEN [changed[f] EXCEPT ![m] = clock']
                                      ELSE changed[f]]
    OBVIOUS
<1>3. ASSUME NEW f \in FolderRef
      PROVE  changed[f] \in [MessageId -> Nat]
    OBVIOUS
<1>4. changed' \in [FolderRef -> [MessageId -> Nat]]
    BY <1>1, <1>2, <1>3
<1>5. \A f \in FolderRef, i \in MessageId :
         changed'[f][i] = IF f \in folders /\ i = m THEN clock' ELSE changed[f][i]
    BY <1>2, <1>3
<1>6. \A f \in FolderRef, i \in MessageId : changed'[f][i] <= clock'
    BY <1>1, <1>5
<1> QED BY <1>1, <1>4, <1>5, <1>6

\* A message moved.
LEMMA MoveMoves ==
    ASSUME ServiceTypes, NEW m \in MessageId, NEW to \in FolderRef \union {Nowhere}, Move(m, to)
    PROVE  ServiceTypes' /\ ServiceMoves
<1>1. Touch(m, {where[m], to}) /\ where' = [where EXCEPT ![m] = to] /\ UNCHANGED flags
    BY DEF Move
<1>2. /\ clock' = clock + 1
      /\ changed' \in [FolderRef -> [MessageId -> Nat]]
      /\ \A f \in FolderRef, i \in MessageId :
            changed'[f][i] = IF f \in {where[m], to} /\ i = m THEN clock' ELSE changed[f][i]
      /\ \A f \in FolderRef, i \in MessageId : changed'[f][i] <= clock'
    BY <1>1, TouchTypes
<1>3. ServiceTypes'
    BY <1>1, <1>2 DEF ServiceTypes
<1>4. ServiceMoves
    BY <1>1, <1>2 DEF ServiceTypes, ServiceMoves
<1> QED BY <1>3, <1>4

\* A flag set, which may change nothing.
LEMMA SetFlagMoves ==
    ASSUME ServiceTypes, NEW m \in MessageId, NEW flag \in MessageFlag, NEW value \in BOOLEAN,
           SetFlag(m, flag, value)
    PROVE  /\ ServiceTypes' /\ ServiceMoves
           /\ where' = where /\ flags'[m][flag] = value
<1>1. where' = where /\ flags' = [flags EXCEPT ![m][flag] = value]
    BY DEF SetFlag
<1>2. /\ flags' \in [MessageId -> Flags]
      /\ flags'[m][flag] = value
      /\ \A i \in MessageId : i # m => flags'[i] = flags[i]
    BY <1>1 DEF ServiceTypes, Flags
<1>3. CASE flags[m][flag] = value
  <2>1. UNCHANGED <<changed, clock>>
      BY <1>3 DEF SetFlag
  <2>2. flags'[m] = flags[m]
      BY <1>1, <1>3 DEF ServiceTypes, Flags
  <2>3. flags' = flags
      BY <1>1, <1>2, <2>2 DEF ServiceTypes
  <2> QED BY <1>1, <1>2, <2>1, <2>3, ServiceRests DEF serviceVars
<1>4. CASE flags[m][flag] # value
  <2>1. /\ clock' = clock + 1
        /\ changed' \in [FolderRef -> [MessageId -> Nat]]
        /\ \A f \in FolderRef, i \in MessageId :
              changed'[f][i] = IF f \in {where[m]} /\ i = m THEN clock' ELSE changed[f][i]
        /\ \A f \in FolderRef, i \in MessageId : changed'[f][i] <= clock'
      BY <1>4, TouchTypes DEF SetFlag
  <2>2. ServiceTypes'
      BY <1>1, <1>2, <2>1 DEF ServiceTypes
  <2>3. ServiceMoves
      BY <1>1, <1>2, <2>1 DEF ServiceTypes, ServiceMoves
  <2> QED BY <1>1, <1>2, <2>2, <2>3
<1> QED BY <1>3, <1>4

\* Whatever the step, the mail moves so, and the cycle's own change is applied.
LEMMA EveryStepMoves ==
    ASSUME ServiceTypes, CycleTypes, [Next]_vars
    PROVE  ServiceTypes' /\ ServiceMoves
<1>1. CASE UNCHANGED serviceVars
    BY <1>1, ServiceRests
<1>2. ASSUME MailChanges
      PROVE  ServiceTypes' /\ ServiceMoves
  <2>1. ASSUME NEW m \in MessageId, NEW to \in FolderRef \union {Nowhere}, Move(m, to)
        PROVE  ServiceTypes' /\ ServiceMoves
      BY <2>1, MoveMoves
  <2>2. ASSUME NEW m \in MessageId, NEW g \in MessageFlag, FlagElsewhere(m, g)
        PROVE  ServiceTypes' /\ ServiceMoves
    <3>1. SetFlag(m, g, ~flags[m][g]) /\ (~flags[m][g]) \in BOOLEAN
        BY <2>2 DEF FlagElsewhere
    <3> QED BY <3>1, SetFlagMoves
  <2> QED BY <1>2, <2>1, <2>2 DEF MailChanges
<1>3. ASSUME SendChange
      PROVE  ServiceTypes' /\ ServiceMoves
  <2>1. cycle.changes \subseteq PendingChange
      BY <1>3 DEF CycleTypes, CycleRecord, SendChange, Running, Idle
  <2>2. PICK c \in cycle.changes :
           SetFlag(c.identity, c.flag, c.wanted) \/ UNCHANGED serviceVars
      BY <1>3 DEF SendChange
  <2>3. c \in PendingChange
      BY <2>1
  <2>4. c.identity \in MessageId /\ c.flag \in MessageFlag /\ c.wanted \in BOOLEAN
      BY <2>3 DEF PendingChange
  <2> QED BY <1>1, <2>2, <2>4, SetFlagMoves
<1>4. ASSUME [Next]_vars, ~MailChanges, ~SendChange
      PROVE  UNCHANGED serviceVars
    BY <1>4 DEF Next, CycleStep, vars, Start, PositionRejected, ReadChanges, StorePage,
                ReadInFolder, TakeAnswer, GoOn, Finish, EndEarly, UserWishes
<1> QED BY <1>1, <1>2, <1>3, <1>4

-----------------------------------------------------------------------------
(* What a request for a page brings.                                       *)

\* What the entries `changes` of one page come to: every message of the page
\* is named, or left the folder before a first reading could list it; a
\* message is read again, gone, or listed with the flags of some entry, which
\* may be an older one; but one the page does not report as it is now is one
\* the round reports later or need not report.
PageBrings(f, reading, page, changes) ==
    /\ DOMAIN changes \subseteq MessageId
    /\ page \subseteq reading.left
    /\ \A m \in page : m \in DOMAIN changes \/ (reading.first /\ where[m] # f)
    /\ reading.first => DOMAIN changes \subseteq page
    /\ \A m \in DOMAIN changes :
          \/ changes[m] = SomeChange
          \/ changes[m] = Removed /\ where[m] # f
          \/ /\ \E values \in Flags : changes[m] = Listed(values)
             /\ \/ m \in Reports(f, reading, page) /\ where[m] = f
                \/ /\ ~reading.first /\ m \notin page
                   /\ m \in reading.left \/ where[m] = f

\* The reading a request goes on with.
LEMMA ReadingTypes ==
    ASSUME ServiceTypes, NEW f \in FolderRef, NEW from \in {FirstReading} \union Links
    PROVE  LET reading == ReadingAt(f, from) IN
           /\ reading \in Pages
           /\ from.kind = "first" =>
                 reading.since = clock /\ reading.first /\ reading.left = InFolder(f)
           /\ from.kind = "position" =>
                 /\ reading.since = clock /\ ~reading.first
                 /\ reading.left = {m \in MessageId : changed[f][m] > from.since}
           /\ from.kind = "page" => reading = from
<1>1. from = FirstReading \/ from \in Positions \/ from \in Pages
    BY DEF Links
<1>2. CASE from = FirstReading
  <2>1. ReadingAt(f, from) = NextPage(clock, InFolder(f), TRUE)
      BY <1>2 DEF ReadingAt, FirstReading
  <2>2. InFolder(f) \subseteq MessageId
      BY DEF InFolder
  <2>3. NextPage(clock, InFolder(f), TRUE) \in Pages
      BY <2>2 DEF NextPage, Pages, ServiceTypes
  <2> QED BY <1>2, <2>1, <2>3 DEF FirstReading, NextPage
<1>3. CASE from \in Positions
  <2> DEFINE left == {m \in MessageId : changed[f][m] > from.since}
  <2>1. ReadingAt(f, from) = NextPage(clock, left, FALSE)
      BY <1>3 DEF ReadingAt, Positions
  <2>2. left \subseteq MessageId
      OBVIOUS
  <2> HIDE DEF left
  <2>3. NextPage(clock, left, FALSE) \in Pages
      BY <2>2 DEF NextPage, Pages, ServiceTypes
  <2>4. from.kind = "position"
      BY <1>3 DEF Positions
  <2> QED BY <2>1, <2>3, <2>4 DEF NextPage, left
<1>4. CASE from \in Pages
  <2>1. from.kind = "page"
      BY <1>4 DEF Pages
  <2>2. ReadingAt(f, from) = from
      BY <2>1 DEF ReadingAt
  <2> QED BY <1>4, <2>1, <2>2
<1> QED BY <1>1, <1>2, <1>3, <1>4

\* The link after a page: a position once nothing is left to report.
LEMMA LinkTypes ==
    ASSUME NEW reading \in Pages, NEW page \in SUBSET reading.left
    PROVE  LET link == Link(reading, page) IN
           /\ link \in Links
           /\ link.since = reading.since
           /\ Left(link) = reading.left \ page
           /\ link.kind = "page" => link.first = reading.first
           /\ link.kind = "position" => Left(link) = {}
<1>1. CASE reading.left = page
  <2>1. Link(reading, page) = Position(reading.since)
      BY <1>1 DEF Link
  <2> QED BY <1>1, <2>1 DEF Position, Links, Positions, Pages, Left
<1>2. CASE reading.left # page
  <2>1. Link(reading, page) = NextPage(reading.since, reading.left \ page, reading.first)
      BY <1>2 DEF Link
  <2>2. /\ reading.since \in Nat /\ reading.first \in BOOLEAN
        /\ reading.left \ page \subseteq MessageId
      BY DEF Pages
  <2>3. NextPage(reading.since, reading.left \ page, reading.first) \in Pages
      BY <2>2 DEF NextPage, Pages
  <2> QED BY <2>1, <2>3 DEF NextPage, Links, Left
<1> QED BY <1>1, <1>2

\* The entries a page may have of a message, and what is told of them apart.
Entries == {Removed} \union ListedEntries \union PartialEntries

LEMMA EntryKinds ==
    ASSUME NEW entry \in Entries
    PROVE  \/ entry = Removed /\ entry.kind = "Removed"
           \/ \E values \in Flags :
                 entry = Listed(values) /\ entry.kind = "Listed" /\ entry.flags = values
           \/ /\ \E values, other : entry = Changed(values, other)
              /\ entry.kind = "Changed"
              /\ \A g \in DOMAIN entry.flags : entry.flags[g] \in BOOLEAN
<1>1. CASE entry = Removed
    BY <1>1 DEF Removed
<1>2. CASE entry \in ListedEntries
    BY <1>2 DEF ListedEntries, Listed
<1>3. CASE entry \in PartialEntries
  <2>1. PICK named \in SUBSET MessageFlag : \E values \in [named -> BOOLEAN], other \in BOOLEAN :
           entry = Changed(values, other)
      BY <1>3 DEF PartialEntries
  <2>2. PICK values \in [named -> BOOLEAN], other \in BOOLEAN : entry = Changed(values, other)
      BY <2>1
  <2>3. entry.kind = "Changed" /\ entry.flags = values
      BY <2>2 DEF Changed
  <2> QED BY <2>2, <2>3
<1> QED BY <1>1, <1>2, <1>3 DEF Entries

\* What an entry comes to: the message is read again, gone, or listed.
LEMMA NamedKinds ==
    ASSUME NEW entry \in Entries
    PROVE  \/ Named(entry) = SomeChange
           \/ Named(entry) = Removed /\ entry = Removed
           \/ \E values \in Flags : Named(entry) = Listed(values) /\ entry = Listed(values)
    BY EntryKinds DEF Named

\* Two entries of one message, in either order: a removal beside another entry
\* is not trusted.
LEMMA MergedKinds ==
    ASSUME NEW earlier \in Entries, NEW later \in Entries
    PROVE  LET merged == Named(MergePerMessage(earlier, later)) IN
           \/ merged = SomeChange
           \/ merged = Removed /\ earlier = Removed /\ later = Removed
           \/ /\ \E values \in Flags : merged = Listed(values)
              /\ earlier # Removed /\ later # Removed
<1>1. Named(SomeChange) = SomeChange
    BY DEF Named, SomeChange, Changed
<1>2. CASE (earlier = Removed) # (later = Removed)
  <2>1. ~(earlier.kind = "Listed" /\ later.kind = "Changed" /\ ~later.other_fields)
        /\ ~(earlier.kind = "Changed" /\ later.kind = "Changed")
      BY <1>2 DEF Removed
  <2>2. MergePerMessage(earlier, later) = SomeChange
      BY <1>2, <2>1 DEF MergePerMessage
  <2> QED BY <1>1, <2>2
<1>3. CASE /\ ~((earlier = Removed) # (later = Removed))
           /\ earlier.kind = "Listed" /\ later.kind = "Changed" /\ ~later.other_fields
  <2> DEFINE values == [g \in MessageFlag |->
                           IF g \in DOMAIN later.flags THEN later.flags[g] ELSE earlier.flags[g]]
  <2>1. MergePerMessage(earlier, later) = Listed(values)
      BY <1>3 DEF MergePerMessage
  <2>2. values \in Flags
    <3>1. earlier.flags \in Flags
        BY <1>3, EntryKinds
    <3>2. \A g \in DOMAIN later.flags : later.flags[g] \in BOOLEAN
        BY <1>3, EntryKinds
    <3> QED BY <3>1, <3>2 DEF Flags
  <2> HIDE DEF values
  <2>3. Named(Listed(values)) = Listed(values)
      BY DEF Named, Listed
  <2>4. earlier # Removed /\ later # Removed
      BY <1>3 DEF Removed
  <2> QED BY <2>1, <2>2, <2>3, <2>4
<1>4. CASE /\ ~((earlier = Removed) # (later = Removed))
           /\ ~(earlier.kind = "Listed" /\ later.kind = "Changed" /\ ~later.other_fields)
           /\ earlier.kind = "Changed" /\ later.kind = "Changed"
    BY <1>4 DEF MergePerMessage, Named, Changed
<1>5. CASE /\ ~((earlier = Removed) # (later = Removed))
           /\ ~(earlier.kind = "Listed" /\ later.kind = "Changed" /\ ~later.other_fields)
           /\ ~(earlier.kind = "Changed" /\ later.kind = "Changed")
  <2>1. MergePerMessage(earlier, later) = later
      BY <1>5 DEF MergePerMessage
  <2>2. \A values : Listed(values) # Removed
      BY DEF Listed, Removed
  <2> QED BY <1>5, <2>1, <2>2, NamedKinds
<1> QED BY <1>2, <1>3, <1>4, <1>5, Zenon

\* The entries that report a message as it is now.
LEMMA EntriesNowKinds ==
    ASSUME ServiceTypes, NEW f, NEW m \in MessageId, NEW first,
           NEW entry \in EntriesNow(f, m, first)
    PROVE  /\ entry \in Entries
           /\ entry = Removed <=> where[m] # f
           /\ \A values : entry = Listed(values) => values = flags[m]
<1>1. CASE where[m] # f
  <2>1. entry = Removed
      BY <1>1 DEF EntriesNow
  <2>2. \A values : Listed(values) # Removed
      BY DEF Listed, Removed
  <2> QED BY <1>1, <2>1, <2>2 DEF Entries
<1>2. CASE where[m] = f /\ entry = Listed(flags[m])
    BY <1>2 DEF Entries, ListedEntries, ServiceTypes, Listed, Removed
<1>3. CASE where[m] = f /\ entry \in PartialEntries
  <2>1. entry \in Entries
      BY <1>3 DEF Entries
  <2>2. PICK values, other : entry = Changed(values, other)
      BY <1>3 DEF PartialEntries
  <2> QED BY <1>3, <2>1, <2>2 DEF Changed, Listed, Removed
<1> QED BY <1>1, <1>2, <1>3 DEF EntriesNow

\* Alone, such an entry says what the service holds, or has the message read.
LEMMA CurrentSays ==
    ASSUME ServiceTypes, NEW f, NEW m \in MessageId, NEW first,
           NEW entry \in CurrentAlone(f, m, first)
    PROVE  \/ entry = SomeChange
           \/ entry = Removed /\ where[m] # f
           \/ entry = Listed(flags[m]) /\ where[m] = f
<1>1. PICK now \in EntriesNow(f, m, first) : entry = Named(now)
    BY DEF CurrentAlone
<1>2. /\ now \in Entries
      /\ now = Removed <=> where[m] # f
      /\ \A values : now = Listed(values) => values = flags[m]
    BY EntriesNowKinds
<1>3. \A values : Listed(values) # Removed
    BY DEF Listed, Removed
<1> QED BY <1>1, <1>2, <1>3, NamedKinds

\* With an older entry beside it, in either order: the message is read again,
\* is gone as the service says, or is listed with some entry's flags.
LEMMA OlderSays ==
    ASSUME ServiceTypes, NEW f, NEW m \in MessageId, NEW first,
           NEW entry \in WithOlder(f, m, first)
    PROVE  \/ entry = SomeChange
           \/ entry = Removed /\ where[m] # f
           \/ (\E values \in Flags : entry = Listed(values)) /\ where[m] = f
<1>1. PICK now \in EntriesNow(f, m, first), older \in Entries :
         \/ entry = Named(MergePerMessage(now, older))
         \/ entry = Named(MergePerMessage(older, now))
  <2> DEFINE pair(now, older) == {Named(MergePerMessage(now, older)),
                                  Named(MergePerMessage(older, now))}
  <2>1. entry \in UNION {pair(now, older) : now \in EntriesNow(f, m, first), older \in Entries}
      BY DEF WithOlder, Entries
  <2> HIDE DEF pair
  <2>2. PICK now \in EntriesNow(f, m, first), older \in Entries : entry \in pair(now, older)
      BY <2>1
  <2> QED BY <2>2 DEF pair
<1>2. now \in Entries /\ (now = Removed <=> where[m] # f)
    BY EntriesNowKinds
<1>3. CASE entry = Named(MergePerMessage(now, older))
    BY <1>2, <1>3, MergedKinds
<1>4. CASE entry = Named(MergePerMessage(older, now))
    BY <1>2, <1>4, MergedKinds
<1> QED BY <1>1, <1>3, <1>4

\* A request that reads a page takes what it brings.
LEMMA PageIsRead ==
    ASSUME ServiceTypes, cycle.folder \in FolderRef,
           cycle.from \in {FirstReading} \union Links, ReadChanges
    PROVE  LET reading == ReadingAt(cycle.folder, cycle.from) IN
           \E page \in SUBSET reading.left : \E changes :
               /\ PageBrings(cycle.folder, reading, page, changes)
               /\ TakePage(changes, Reports(cycle.folder, reading, page), Link(reading, page))
<1> DEFINE f == cycle.folder
           reading == ReadingAt(f, cycle.from)
           now(page) == Reports(f, reading, page)
<1>1. reading \in Pages
    BY ReadingTypes
<1>2. PICK page \in PageOf(reading.left) :
        \/ \E changes \in Reported(f, now(page), reading.first) :
              TakePage(changes, now(page), Link(reading, page))
        \/ \E old \in Replayable(f, reading, page) :
           \E changes \in Reported(f, now(page) \ {old}, reading.first),
              entry \in IF old \in now(page) THEN WithOlder(f, old, reading.first)
                        ELSE OlderAlone :
              TakePage(AlsoSaying(changes, old, entry), now(page), Link(reading, page))
    BY Zenon DEF ReadChanges
<1>3. /\ page \subseteq reading.left /\ reading.left \subseteq MessageId
      /\ now(page) \subseteq page /\ now(page) \subseteq MessageId
      /\ \A m \in page : m \in now(page) \/ (reading.first /\ where[m] # f)
      /\ reading.first => now(page) = page \intersect InFolder(f)
      /\ ~reading.first => now(page) = page
      /\ now(page) = Reports(f, reading, page)
    BY <1>1 DEF PageOf, Pages, InFolder, Reports
<1> HIDE DEF f, reading, now
<1>4. ASSUME NEW changes \in Reported(f, now(page), reading.first),
             TakePage(changes, now(page), Link(reading, page))
      PROVE  \E p \in SUBSET reading.left : \E c :
                PageBrings(f, reading, p, c)
                /\ TakePage(c, Reports(f, reading, p), Link(reading, p))
  <2>1. /\ DOMAIN changes = now(page)
        /\ \A m \in now(page) : changes[m] \in CurrentAlone(f, m, reading.first)
      BY DEF Reported
  <2>2. ASSUME NEW m \in now(page)
        PROVE  \/ changes[m] = SomeChange
               \/ changes[m] = Removed /\ where[m] # f
               \/ (\E values \in Flags : changes[m] = Listed(values)) /\ where[m] = f
    <3>1. m \in MessageId /\ flags[m] \in Flags
        BY <1>3 DEF ServiceTypes
    <3> QED BY <2>1, <3>1, CurrentSays
  <2>3. PageBrings(f, reading, page, changes)
      BY <1>3, <2>1, <2>2 DEF PageBrings
  <2> QED BY <1>3, <1>4, <2>3
<1>5. ASSUME NEW old \in Replayable(f, reading, page),
             NEW changes \in Reported(f, now(page) \ {old}, reading.first),
             NEW entry \in IF old \in now(page) THEN WithOlder(f, old, reading.first)
                           ELSE OlderAlone,
             TakePage(AlsoSaying(changes, old, entry), now(page), Link(reading, page))
      PROVE  \E p \in SUBSET reading.left : \E c :
                PageBrings(f, reading, p, c)
                /\ TakePage(c, Reports(f, reading, p), Link(reading, p))
  <2> DEFINE all == AlsoSaying(changes, old, entry)
  <2>1. /\ DOMAIN all = now(page) \union {old} /\ all[old] = entry
        /\ \A m \in now(page) \ {old} :
              all[m] = changes[m] /\ changes[m] \in CurrentAlone(f, m, reading.first)
      BY DEF Reported, AlsoSaying
  <2>2. TakePage(all, now(page), Link(reading, page))
      BY <1>5
  <2> HIDE DEF all
  <2>3. /\ old \in MessageId
        /\ reading.first => old \in now(page)
        /\ ~reading.first => old \in reading.left \/ where[old] = f
      BY <1>3 DEF Replayable, InFolder
  <2>4. ASSUME NEW m \in now(page) \ {old}
        PROVE  \/ all[m] = SomeChange
               \/ all[m] = Removed /\ where[m] # f
               \/ (\E values \in Flags : all[m] = Listed(values)) /\ where[m] = f
    <3>1. m \in MessageId /\ flags[m] \in Flags
        BY <1>3 DEF ServiceTypes
    <3> QED BY <2>1, <3>1, CurrentSays
  <2>5. ASSUME old \in now(page)
        PROVE  \/ all[old] = SomeChange
               \/ all[old] = Removed /\ where[old] # f
               \/ (\E values \in Flags : all[old] = Listed(values)) /\ where[old] = f
      BY <2>1, <2>3, <2>5, OlderSays
  <2>6. ASSUME old \notin now(page)
        PROVE  all[old] = SomeChange \/ \E values \in Flags : all[old] = Listed(values)
    <3>1. PICK older \in ListedEntries \union PartialEntries : entry = Named(older)
        BY <2>6 DEF OlderAlone
    <3>2. older \in Entries /\ older # Removed
        BY <3>1 DEF Entries, ListedEntries, PartialEntries, Listed, Changed, Removed
    <3> QED BY <2>1, <3>1, <3>2, NamedKinds
  <2>7. PageBrings(f, reading, page, all)
    <3>1. ASSUME NEW m \in DOMAIN all
          PROVE  \/ all[m] = SomeChange
                 \/ all[m] = Removed /\ where[m] # f
                 \/ /\ \E values \in Flags : all[m] = Listed(values)
                    /\ \/ m \in Reports(f, reading, page) /\ where[m] = f
                       \/ /\ ~reading.first /\ m \notin page
                          /\ m \in reading.left \/ where[m] = f
      <4>1. CASE m \in now(page)
          BY <1>3, <2>4, <2>5, <4>1
      <4>2. CASE m = old /\ old \notin now(page)
          BY <1>3, <2>3, <2>6, <4>2
      <4> QED BY <2>1, <4>1, <4>2
    <3>2. /\ DOMAIN all \subseteq MessageId
          /\ \A m \in page : m \in DOMAIN all \/ (reading.first /\ where[m] # f)
          /\ reading.first => DOMAIN all \subseteq page
        BY <1>3, <2>1, <2>3
    <3> QED BY <1>3, <3>1, <3>2 DEF PageBrings
  <2> QED BY <1>3, <2>2, <2>7
<1>6. \E p \in SUBSET reading.left : \E changes :
         PageBrings(f, reading, p, changes)
         /\ TakePage(changes, Reports(f, reading, p), Link(reading, p))
    BY <1>2, <1>4, <1>5
<1> QED BY <1>6 DEF reading, f

\* The batch and the messages to read again that a page's entries give: each
\* named message is in one of the three.
LEMMA BatchOfPage ==
    ASSUME ServiceTypes, NEW f \in FolderRef, NEW reading, NEW page, NEW changes,
           PageBrings(f, reading, page, changes)
    PROVE  LET batch == BatchFromChanges(f, changes)
               again == {m \in DOMAIN changes : IsReadAgain(f, m, changes[m])}
           IN  /\ BatchTypes(batch)
               /\ again \subseteq MessageId
               /\ again \intersect (batch.removed \union DOMAIN batch.arrived) = {}
               /\ again \union batch.removed \union DOMAIN batch.arrived = DOMAIN changes
               /\ \A m \in batch.removed : where[m] # f
               /\ \A m \in DOMAIN batch.arrived :
                     /\ changes[m] = Listed(batch.arrived[m].flags)
                     /\ ~IsReadAgain(f, m, changes[m])
<1> DEFINE batch == BatchFromChanges(f, changes)
           again == {m \in DOMAIN changes : IsReadAgain(f, m, changes[m])}
           gone == {m \in DOMAIN changes : changes[m].kind = "Removed"}
           told == {m \in DOMAIN changes : changes[m].kind = "Listed"
                                           /\ ~IsReadAgain(f, m, changes[m])}
           rows == [m \in told |-> [flags |-> changes[m].flags, content |-> "text"]]
<1>1. batch = [removed |-> gone, flag_states |-> NoRows, arrived |-> rows,
               known_arrived |-> NoRows, state |-> {}]
  <2>1. batch = [EmptyBatch EXCEPT !.removed = gone, !.arrived = rows]
      BY DEF BatchFromChanges
  <2> HIDE DEF batch, gone, rows
  <2> QED BY <2>1 DEF EmptyBatch
<1>2. ASSUME NEW m \in DOMAIN changes
      PROVE  /\ m \in MessageId
             /\ \/ changes[m] = SomeChange /\ changes[m].kind = "Changed"
                \/ changes[m] = Removed /\ changes[m].kind = "Removed" /\ where[m] # f
                \/ /\ changes[m] = Listed(changes[m].flags) /\ changes[m].kind = "Listed"
                   /\ changes[m].flags \in Flags
  <2>1. m \in MessageId
      BY DEF PageBrings
  <2>2. \/ changes[m] = SomeChange
        \/ changes[m] = Removed /\ where[m] # f
        \/ \E values \in Flags : changes[m] = Listed(values)
      BY DEF PageBrings
  <2> QED BY <2>1, <2>2 DEF SomeChange, Changed, Removed, Listed
<1>3. /\ again \subseteq MessageId /\ gone \subseteq MessageId /\ told \subseteq MessageId
      /\ gone \intersect told = {}
      /\ \A m \in gone : where[m] # f
    BY <1>2
<1>4. again \intersect gone = {} /\ again \intersect told = {}
      /\ again \union gone \union told = DOMAIN changes
    BY <1>2 DEF IsReadAgain
<1>5. \A m \in told : [flags |-> changes[m].flags, content |-> "text"] \in Arrival
    BY <1>2 DEF Arrival, ContentKind
<1>6. rows \in PartialFunctions(MessageId, Arrival)
  <2>1. rows \in [told -> Arrival]
      BY <1>5
  <2> HIDE DEF rows, told
  <2> QED BY <1>3, <2>1, PartialFunctionType
<1>7. \A m \in told : /\ changes[m] = Listed(rows[m].flags)
                      /\ ~IsReadAgain(f, m, changes[m])
    BY <1>2
<1>8. DOMAIN rows = told
    OBVIOUS
<1> HIDE DEF rows, told, gone, batch, again
<1>9. batch.removed = gone /\ batch.arrived = rows
    BY <1>1
<1>10. BatchTypes(batch)
    BY <1>1, <1>3, <1>6, <1>8, <1>9 DEF BatchTypes
<1> QED BY <1>3, <1>4, <1>7, <1>8, <1>9, <1>10 DEF batch, again

\* What is kept of a page's current entries: whatever entry of a message it
\* reports as it is now was the last, the current flags are known.
LEMMA OutdatedOfPage ==
    ASSUME ServiceTypes, NEW batch, BatchTypes(batch), NEW now,
           NEW rows, rows = StoredOutdated(batch, now)
    PROVE  /\ OutdatedTypes(batch, rows) /\ DOMAIN rows \subseteq now
           /\ \A m \in DOMAIN batch.arrived \intersect now :
                 (IF m \in DOMAIN rows THEN rows[m] ELSE batch.arrived[m].flags) = flags[m]
<1> DEFINE older == {m \in now \intersect DOMAIN batch.arrived :
                        batch.arrived[m].flags # flags[m]}
<1>1. rows = [m \in older |-> flags[m]]
    BY DEF StoredOutdated
<1>2. DOMAIN batch.arrived \subseteq MessageId
    BY PartialFunctionType DEF BatchTypes
<1>3. DOMAIN rows = older /\ \A m \in older : rows[m] = flags[m]
    BY <1>1
<1>4. rows \in PartialFunctions(MessageId, Flags)
  <2>1. older \subseteq MessageId
      BY <1>2
  <2> HIDE DEF older
  <2>2. rows \in [older -> Flags]
      BY <1>1, <2>1 DEF ServiceTypes
  <2> QED BY <1>3, <2>1, <2>2, PartialFunctionType
<1>5. \A m \in DOMAIN batch.arrived \intersect now :
         (IF m \in DOMAIN rows THEN rows[m] ELSE batch.arrived[m].flags) = flags[m]
    BY <1>3
<1> QED BY <1>3, <1>4, <1>5 DEF OutdatedTypes

-----------------------------------------------------------------------------
(* Types.                                                                  *)

\* The empty batch, and no batch's effect on the rows' types.
LEMMA EmptyBatchTypes == BatchTypes(EmptyBatch) /\ OutdatedTypes(EmptyBatch, NoRows)
<1>1. \A T : NoRows \in PartialFunctions(MessageId, T)
  <2>1. \A T : DOMAIN NoRows \subseteq MessageId /\ NoRows \in [DOMAIN NoRows -> T]
      BY DEF NoRows
  <2> QED BY <2>1, PartialFunctionType
<1> QED BY <1>1 DEF BatchTypes, OutdatedTypes, EmptyBatch, NoRows

\* A running cycle is in one of its phases.
LEMMA PhasesRun ==
    ASSUME cycle.phase \in Phases \ {"idle"}
    PROVE  Running
    BY DEF Running, Idle, Phases

\* What a cycle holds when it starts.
LEMMA StartTypes ==
    ASSUME LinksArePlaces, StoreTypes, NEW f \in FolderRef, Start(f)
    PROVE  CycleRecord(cycle')
<1> DEFINE state == store.folders[f]
           start == WhereToStart(state, HeldIn(store, f))
<1>1. /\ state.place \in {NoPlace} \union Positions \union Pages
      /\ HeldIn(store, f) \subseteq MessageId
    BY HeldIsStored DEF StoreTypes, SavedPlace, Kept
<1>2. start.from \in {FirstReading} \union Links /\ start.reading \in Readings
    BY <1>1 DEF WhereToStart, Links, Readings
<1>3. RoundStart(state) \in {NoPlace} \union Positions
    BY <1>1 DEF RoundStart, Positions, Pages
<1>4. cycle' = [phase |-> "reading", folder |-> f,
                from |-> start.from, reading |-> start.reading,
                stored |-> HeldIn(store, f), round_start |-> RoundStart(state),
                named |-> 0, listed |-> {}, next |-> start.from,
                again |-> {}, batch |-> EmptyBatch, outdated |-> NoRows,
                completes |-> FALSE,
                changes |-> {}, command |-> {}, answer |-> "none"]
    BY DEF Start
<1> HIDE DEF state, start
<1> QED BY <1>1, <1>2, <1>3, <1>4, EmptyBatchTypes DEF CycleRecord, CycleFields, Phases

\* A reading that begins again from the folder's first page.
LEMMA RereadTypes ==
    ASSUME StoreTypes, CycleTypes, Running, cycle.phase = "reading", cycle' = FullRereading
    PROVE  CycleRecord(cycle')
<1>1. CycleRecord(cycle) /\ HeldIn(store, cycle.folder) \subseteq MessageId
    BY HeldIsStored DEF StoreTypes, Kept, CycleTypes, CycleRecord
<1> QED BY <1>1 DEF FullRereading, CycleRecord, CycleFields, Readings, Phases

\* A page taken.
LEMMA PageTypes ==
    ASSUME ServiceTypes, StoreTypes, CycleTypes, cycle.phase = "reading", Running,
           NEW reading \in Pages, NEW page \in SUBSET reading.left, NEW changes,
           PageBrings(cycle.folder, reading, page, changes),
           TakePage(changes, Reports(cycle.folder, reading, page), Link(reading, page))
    PROVE  CycleRecord(cycle')
<1>1. CASE cycle' = FullRereading
    BY <1>1, RereadTypes
<1>2. CASE cycle' # FullRereading
  <2> DEFINE f == cycle.folder
             next == Link(reading, page)
             batch == BatchFromChanges(f, changes)
             again == {m \in DOMAIN changes : IsReadAgain(f, m, changes[m])}
             rows == StoredOutdated(batch, Reports(f, reading, page))
             named == IF cycle.reading = "Round" THEN NamedInRound(changes) ELSE cycle.named
             listed == IF cycle.reading = "FullRereading" THEN cycle.listed \union DOMAIN changes
                       ELSE cycle.listed
  <2>1. cycle' = [cycle EXCEPT !.phase = "page", !.named = named, !.listed = listed,
                               !.next = next, !.again = again, !.batch = batch,
                               !.outdated = rows]
      BY <1>2, Zenon DEF TakePage
  <2>2. CycleRecord(cycle)
      BY DEF CycleTypes
  <2>3. next \in Links
      BY LinkTypes
  <2>4. f \in FolderRef /\ DOMAIN changes \subseteq MessageId
      BY <2>2 DEF CycleRecord, PageBrings
  <2>5. /\ BatchTypes(batch) /\ again \subseteq MessageId
        /\ again \intersect (batch.removed \union DOMAIN batch.arrived) = {}
      BY <2>4, BatchOfPage, Zenon
  <2>6. listed \subseteq MessageId
      BY <2>2, <2>4 DEF CycleRecord
  <2> HIDE DEF next, batch, again, named, listed, f
  <2>7. OutdatedTypes(batch, rows)
      BY <2>5, OutdatedOfPage
  <2> HIDE DEF rows
  <2> QED BY <2>1, <2>2, <2>3, <2>5, <2>6, <2>7 DEF CycleRecord, CycleFields, Phases
<1> QED BY <1>1, <1>2

\* One message read again.
LEMMA ReadAgainTypes ==
    ASSUME ServiceTypes, CycleTypes, NEW m \in MessageId, ReadInFolder(m)
    PROVE  /\ CycleRecord(cycle')
           /\ cycle'.phase = "page" /\ cycle'.again = cycle.again \ {m}
           /\ \A i \in CycleFields \ {"again", "batch"} : cycle'[i] = cycle[i]
           /\ where[m] = cycle.folder =>
                 /\ cycle'.batch.removed = cycle.batch.removed
                 /\ DOMAIN cycle'.batch.arrived = DOMAIN cycle.batch.arrived \union {m}
                 /\ cycle'.batch.arrived[m].flags = flags[m]
                 /\ \A i \in DOMAIN cycle.batch.arrived :
                       cycle'.batch.arrived[i] = cycle.batch.arrived[i]
           /\ where[m] # cycle.folder =>
                 /\ cycle'.batch.removed = cycle.batch.removed \union {m}
                 /\ cycle'.batch.arrived = cycle.batch.arrived
<1>1. cycle.phase = "page" /\ m \in cycle.again /\ Running
    BY DEF ReadInFolder, Running, Idle
<1>2. CycleRecord(cycle)
    BY <1>1 DEF CycleTypes
<1> DEFINE batch == cycle.batch
           row == [flags |-> flags[m], content |-> "text"]
           rows == [i \in DOMAIN batch.arrived \union {m} |->
                       IF i = m THEN row ELSE batch.arrived[i]]
           more == IF where[m] = cycle.folder THEN [batch EXCEPT !.arrived = rows]
                   ELSE [batch EXCEPT !.removed = batch.removed \union {m}]
<1>3. cycle' = [cycle EXCEPT !.again = @ \ {m}, !.batch = more]
    BY DEF ReadInFolder
<1>4. /\ BatchTypes(batch) /\ m \notin batch.removed /\ m \notin DOMAIN batch.arrived
    BY <1>1, <1>2 DEF CycleRecord
<1>5. row \in Arrival
    BY DEF Arrival, ServiceTypes, ContentKind
<1>6. rows \in PartialFunctions(MessageId, Arrival)
  <2>1. /\ DOMAIN batch.arrived \subseteq MessageId
        /\ batch.arrived \in [DOMAIN batch.arrived -> Arrival]
      BY <1>4, PartialFunctionType DEF BatchTypes
  <2> HIDE DEF row, batch
  <2>2. rows \in [DOMAIN batch.arrived \union {m} -> Arrival]
      BY <1>5, <2>1
  <2> HIDE DEF rows
  <2> QED BY <2>1, <2>2, PartialFunctionType
<1>7. /\ DOMAIN rows = DOMAIN batch.arrived \union {m} /\ rows[m].flags = flags[m]
      /\ \A i \in DOMAIN batch.arrived : rows[i] = batch.arrived[i]
    BY <1>4
<1> HIDE DEF rows, row
<1>8. /\ BatchTypes(more)
      /\ where[m] = cycle.folder => more.removed = batch.removed /\ more.arrived = rows
      /\ where[m] # cycle.folder =>
            more.removed = batch.removed \union {m} /\ more.arrived = batch.arrived
  <2> HIDE DEF batch
  <2> QED BY <1>4, <1>6, <1>7 DEF BatchTypes
<1> HIDE DEF more
<1>9. /\ cycle'.batch = more /\ cycle'.again = cycle.again \ {m} /\ cycle'.phase = "page"
      /\ DOMAIN cycle' = CycleFields
      /\ \A i \in CycleFields \ {"again", "batch"} : cycle'[i] = cycle[i]
    BY <1>1, <1>2, <1>3 DEF CycleRecord, CycleFields
<1>10. CycleRecord(cycle')
  <2>0. OutdatedTypes(more, cycle'.outdated)
      BY <1>2, <1>7, <1>8, <1>9 DEF CycleRecord, CycleFields, OutdatedTypes
  <2>1. cycle'.again \intersect (more.removed \union DOMAIN more.arrived) = {}
      BY <1>2, <1>7, <1>8, <1>9 DEF CycleRecord
  <2>2. cycle'.again \subseteq MessageId
      BY <1>2, <1>9 DEF CycleRecord
  <2> QED BY <1>2, <1>8, <1>9, <2>0, <2>1, <2>2 DEF CycleRecord, CycleFields
<1> QED BY <1>7, <1>8, <1>9, <1>10

\* The changes the user wants of the folder's messages.
LEMMA PendingTypes ==
    ASSUME NEW s, Sound(s), NEW f \in FolderRef
    PROVE  ReadPendingChanges(s, f) \subseteq PendingChange
<1> SUFFICES ASSUME NEW i \in HeldIn(s, f), NEW flag \in MessageFlag,
                    NEW v \in s.messages[Key(f.account, i)].pending[flag]
             PROVE  [identity |-> i, flag |-> flag, wanted |-> v] \in PendingChange
    BY DEF ReadPendingChanges
<1>1. i \in MessageId /\ s.messages[Key(f.account, i)] \in MessageRow
    BY HeldIsStored
<1>2. s.messages[Key(f.account, i)].pending[flag] \in Wish
    BY <1>1 DEF MessageRow
<1>3. v \in BOOLEAN
    BY <1>2 DEF Wish
<1> QED BY <1>1, <1>3 DEF PendingChange

\* The batch a page stores.
PageBatch == [cycle.batch EXCEPT !.removed = @ \union Unlisted, !.state = {StateAfterPage}]

\* What is known of it: it names no message twice, for what a full reading
\* does not list it does not bring.
LEMMA PageBatchTypes ==
    ASSUME LinksArePlaces, CycleTypes, Running, cycle.phase = "page",
           Rereading => DOMAIN cycle.batch.arrived \subseteq cycle.listed, ~cycle.completes
    PROVE  /\ PageBatch \in FolderBatch
           /\ PageBatch.flag_states = NoRows /\ PageBatch.known_arrived = NoRows
           /\ PageBatch.state = {StateAfterPage} /\ StateAfterPage \in FolderState
           /\ PageBatch.removed = cycle.batch.removed \union Unlisted
           /\ PageBatch.arrived = cycle.batch.arrived
           /\ PageBatch.removed \intersect DOMAIN PageBatch.arrived = {}
           /\ Completes \in BOOLEAN
<1>1. CycleRecord(cycle)
    BY DEF CycleTypes
<1>2. Completes \in BOOLEAN
    BY DEF Completes, LastPage
<1>3. StateAfterPage \in FolderState
  <2>1. cycle.next \in Place
      BY <1>1 DEF LinksArePlaces, CycleRecord
  <2>2. cycle.round_start \in Place
      BY <1>1, NoPlaceAssumption DEF LinksArePlaces, CycleRecord, Links
  <2> QED BY <1>2, <2>1, <2>2 DEF StateAfterPage, FolderState
<1> DEFINE b == cycle.batch
<1>4. /\ b = [removed |-> b.removed, flag_states |-> NoRows, arrived |-> b.arrived,
              known_arrived |-> NoRows, state |-> {}]
      /\ b.removed \subseteq MessageId
      /\ b.arrived \in PartialFunctions(MessageId, Arrival)
      /\ b.removed \intersect DOMAIN b.arrived = {}
    BY <1>1 DEF CycleRecord, BatchTypes
<1>5. Unlisted \subseteq MessageId /\ Unlisted \intersect DOMAIN b.arrived = {}
    BY <1>1 DEF Unlisted, CycleRecord, Rereading
<1> HIDE DEF b
<1>6. PageBatch = [removed |-> b.removed \union Unlisted, flag_states |-> NoRows,
                   arrived |-> b.arrived, known_arrived |-> NoRows,
                   state |-> {StateAfterPage}]
  <2> DEFINE c == [b EXCEPT !.removed = b.removed \union Unlisted]
  <2>1. PageBatch = [c EXCEPT !.state = {StateAfterPage}]
      BY DEF PageBatch, b
  <2>2. c = [removed |-> b.removed \union Unlisted, flag_states |-> NoRows,
             arrived |-> b.arrived, known_arrived |-> NoRows, state |-> {}]
      BY <1>4
  <2> HIDE DEF c
  <2> QED BY <2>1, <2>2
<1>7. NoRows \in PartialFunctions(MessageId, Flags)
  <2>1. DOMAIN NoRows \subseteq MessageId /\ NoRows \in [DOMAIN NoRows -> Flags]
      BY DEF NoRows
  <2> QED BY <2>1, PartialFunctionType
<1>8. PageBatch \in FolderBatch
    BY <1>3, <1>4, <1>5, <1>6, <1>7 DEF FolderBatch
<1> QED BY <1>2, <1>3, <1>4, <1>5, <1>6, <1>8 DEF b

-----------------------------------------------------------------------------
(* Steps beside the reading: what the rows show where a link covers it.    *)

\* Nothing is stored or taken out, and where a message did not change since
\* the link, rows that show it go on showing it.
StaysShown(f, link) ==
    \A m \in MessageId :
        m \notin Left(link) /\ changed'[f][m] <= link.since /\ Agrees(f, m) => Agrees(f, m)'

RowsStay ==
    /\ store'.folders = store.folders
    /\ \A f \in FolderRef : HeldIn(store, f)' = HeldIn(store, f)
    /\ \A f \in FolderRef : SavedPlace(f) # NoPlace => StaysShown(f, SavedPlace(f))
    /\ Running /\ Onward.kind # "first" => StaysShown(cycle.folder, Onward)

\* The reading is where it was, and the cycle where it may be with it.
ReadingStays ==
    /\ Running /\ Running'
    /\ \A i \in CycleFields \ {"phase", "changes", "command", "answer"} : cycle'[i] = cycle[i]
    /\ \/ cycle'.phase = cycle.phase
       \/ {cycle.phase, cycle'.phase} \subseteq {"sending", "answered"}
       \/ cycle.phase = "sending" /\ cycle'.phase = "reading" /\ ~cycle.completes

\* A message that did not change in the folder since a moment is where it was.
LEMMA CoveredRests ==
    ASSUME ServiceTypes, ServiceMoves, NEW f \in FolderRef, NEW m \in MessageId,
           NEW since \in Nat, since <= clock, changed'[f][m] <= since
    PROVE  /\ changed[f][m] <= since
           /\ where'[m] = f <=> where[m] = f
           /\ where[m] = f => flags'[m] = flags[m]
<1>1. clock' \in Nat /\ clock \in Nat
    BY DEF ServiceMoves, ServiceTypes
<1>2. ~(changed'[f][m] = clock' /\ clock < clock')
    BY <1>1
<1> QED BY <1>2 DEF ServiceMoves

\* What a link's moment says.
LEMMA SinceTypes ==
    ASSUME NEW link \in Links
    PROVE  link.since \in Nat /\ Left(link) \subseteq MessageId
    BY DEF Links, Positions, Pages, Left

\* Rows that are the same show what they showed.
LEMMA SameRowsStay ==
    ASSUME ServiceTypes, StoreTypes, CycleTypes, SavedProves, CycleProves, LinksArePlaces,
           ServiceMoves, store'.folders = store.folders,
           \A f \in FolderRef : HeldIn(store, f)' = HeldIn(store, f),
           \A f \in FolderRef, m \in MessageId :
              m \in HeldIn(store, f) => StoredFlags(f, m)' = StoredFlags(f, m)
    PROVE  RowsStay
<1>1. ASSUME NEW f \in FolderRef, NEW link \in Links, link.since <= clock
      PROVE  StaysShown(f, link)
  <2> SUFFICES ASSUME NEW m \in MessageId, changed'[f][m] <= link.since, Agrees(f, m)
               PROVE  Agrees(f, m)'
      BY DEF StaysShown
  <2>1. /\ where'[m] = f <=> where[m] = f
        /\ where[m] = f => flags'[m] = flags[m]
      BY <1>1, CoveredRests, SinceTypes
  <2>2. m \in HeldIn(store, f)' <=> where'[m] = f
      BY <2>1 DEF Agrees
  <2>3. where'[m] = f => StoredFlags(f, m)' = flags'[m]
      BY <2>1 DEF Agrees
  <2> QED BY <2>2, <2>3 DEF Agrees
<1>2. ASSUME NEW f \in FolderRef, SavedPlace(f) # NoPlace
      PROVE  StaysShown(f, SavedPlace(f))
  <2>1. SavedPlace(f) \in Links
      BY <1>2 DEF StoreTypes, Links
  <2>2. SavedPlace(f).since <= clock
      BY <1>2 DEF SavedProves
  <2> QED BY <1>1, <2>1, <2>2
<1>3. ASSUME Running, Onward.kind # "first"
      PROVE  StaysShown(cycle.folder, Onward)
  <2>1. Onward \in Links /\ cycle.folder \in FolderRef
      BY <1>3 DEF CycleTypes, CycleRecord, Onward, FirstReading
  <2>2. Onward.since <= clock
      BY <1>3, <2>1 DEF CycleProves, OnwardProves
  <2> QED BY <1>1, <2>1, <2>2
<1> QED BY <1>2, <1>3 DEF RowsStay

\* A saved place proves what it proved.
LEMMA SavedRests ==
    ASSUME ServiceTypes, StoreTypes, SavedProves, LinksArePlaces, ServiceMoves, RowsStay
    PROVE  SavedProves'
<1> SUFFICES ASSUME NEW f \in FolderRef, SavedPlace(f)' # NoPlace
             PROVE  (/\ SavedPlace(f).since <= clock
                     /\ LeftIsThere(f, SavedPlace(f))
                     /\ \A m \in MessageId : Covered(f, SavedPlace(f), m) => Agrees(f, m))'
    BY DEF SavedProves
<1> DEFINE p == SavedPlace(f)
<1>1. p' = p /\ p # NoPlace /\ p \in Links
    BY DEF RowsStay, StoreTypes, SavedPlace, Links
<1>2. p.since \in Nat /\ Left(p) \subseteq MessageId
    BY <1>1, SinceTypes
<1>3. /\ p.since <= clock /\ LeftIsThere(f, p)
      /\ \A m \in MessageId : Covered(f, p, m) => Agrees(f, m)
    BY <1>1 DEF SavedProves
<1>4. StaysShown(f, p)
    BY <1>1 DEF RowsStay
<1> HIDE DEF p
<1>5. p'.since <= clock'
    BY <1>1, <1>2, <1>3 DEF ServiceMoves, ServiceTypes
<1>6. LeftIsThere(f, p)'
  <2> SUFFICES ASSUME p.kind = "page", p.first, NEW m \in p.left, changed'[f][m] <= p.since
               PROVE  where'[m] = f
      BY <1>1 DEF LeftIsThere
  <2>1. m \in MessageId
      BY <1>2 DEF Left
  <2> QED BY <1>2, <1>3, <2>1, CoveredRests DEF LeftIsThere
<1>7. ASSUME NEW m \in MessageId, Covered(f, p, m)'
      PROVE  Agrees(f, m)'
  <2>1. m \notin Left(p) /\ changed'[f][m] <= p.since
      BY <1>1, <1>7 DEF Covered, Left
  <2>2. changed[f][m] <= p.since
      BY <1>2, <1>3, <2>1, CoveredRests
  <2>3. Agrees(f, m)
      BY <1>3, <2>1, <2>2 DEF Covered
  <2> QED BY <1>4, <2>1, <2>3 DEF StaysShown
<1> QED BY <1>5, <1>6, <1>7 DEF p

\* A reading beside which something happens goes on from what it knew.
LEMMA ReadingRests ==
    ASSUME ServiceTypes, StoreTypes, CycleTypes, SavedProves, CycleProves, LinksArePlaces,
           ServiceMoves, RowsStay, ReadingStays, CycleTypes',
           \A f \in FolderRef : cycle'.folder = f => AcceptedIsHeld(f)'
    PROVE  CycleProves'
<1> SUFFICES ASSUME NEW f \in FolderRef, Running', cycle'.folder = f
             PROVE  (/\ OnwardProves(f) /\ ArrivedFromNowhere(f) /\ ReadingsGoOn(f)
                     /\ ReadingsCompare(f) /\ AcceptedIsHeld(f))'
    BY DEF CycleProves
<1> DEFINE link == Onward
<1>1. CycleRecord(cycle) /\ CycleRecord(cycle') /\ cycle.folder = f
    BY DEF CycleTypes, ReadingStays, CycleRecord, CycleFields
<1>2. /\ OnwardProves(f) /\ ArrivedFromNowhere(f) /\ ReadingsGoOn(f) /\ ReadingsCompare(f)
    BY <1>1 DEF CycleProves, ReadingStays
<1>3. /\ cycle'.from = cycle.from /\ cycle'.next = cycle.next
      /\ cycle'.reading = cycle.reading /\ cycle'.stored = cycle.stored
      /\ cycle'.round_start = cycle.round_start /\ cycle'.listed = cycle.listed
      /\ cycle'.again = cycle.again /\ cycle'.batch = cycle.batch
      /\ cycle'.outdated = cycle.outdated /\ cycle'.completes = cycle.completes
    BY DEF ReadingStays, CycleFields
<1>4. link' = link
    BY <1>3 DEF ReadingStays, Onward
<1>5. link \in Links \/ link.kind = "first"
    BY <1>1 DEF Onward, CycleRecord, FirstReading
<1>6. /\ clock' \in Nat /\ clock <= clock' /\ clock \in Nat
    BY DEF ServiceMoves, ServiceTypes
<1>7. Rereading' = Rereading /\ (\A m : InBatch(m)' <=> InBatch(m))
    BY <1>3 DEF Rereading, InBatch
<1>8. OnwardProves(f)'
  <2> SUFFICES ASSUME link.kind # "first"
               PROVE  /\ link.since <= clock'
                      /\ LeftIsThere(f, link)'
                      /\ \A m \in MessageId : Covered(f, link, m)' => PageProves(f, m)'
      BY <1>1, <1>4 DEF OnwardProves
  <2>1. /\ link \in Links /\ link.since \in Nat /\ Left(link) \subseteq MessageId
        /\ link.since <= clock /\ LeftIsThere(f, link)
        /\ \A m \in MessageId : Covered(f, link, m) => PageProves(f, m)
      BY <1>2, <1>5, SinceTypes DEF OnwardProves
  <2>2. StaysShown(f, link)
      BY <1>1 DEF RowsStay, ReadingStays
  <2> HIDE DEF link
  <2>3. LeftIsThere(f, link)'
    <3> SUFFICES ASSUME link.kind = "page", link.first, NEW m \in link.left,
                        changed'[f][m] <= link.since
                 PROVE  where'[m] = f
        BY <1>1, <1>4 DEF LeftIsThere
    <3>1. m \in MessageId
        BY <2>1 DEF Left
    <3> QED BY <1>1, <2>1, <3>1, CoveredRests DEF LeftIsThere
  <2>4. ASSUME NEW m \in MessageId, Covered(f, link, m)'
        PROVE  PageProves(f, m)'
    <3>1. m \notin Left(link) /\ changed'[f][m] <= link.since
        BY <1>1, <1>4, <2>4 DEF Covered, Left
    <3>2. /\ changed[f][m] <= link.since
          /\ where'[m] = f <=> where[m] = f
          /\ where[m] = f => flags'[m] = flags[m]
        BY <1>1, <2>1, <3>1, CoveredRests
    <3>3. PageProves(f, m)
        BY <2>1, <3>1, <3>2 DEF Covered
    <3>4. Agrees(f, m) => Agrees(f, m)'
        BY <2>2, <3>1 DEF StaysShown
    <3>5. BatchFlags(m)' = BatchFlags(m)
        BY <1>3 DEF BatchFlags
    <3> QED BY <1>3, <1>7, <3>2, <3>3, <3>4, <3>5 DEF PageProves
  <2> QED BY <1>6, <2>1, <2>3, <2>4
<1>9. ArrivedFromNowhere(f)'
  <2> SUFFICES ASSUME NEW m \in DOMAIN cycle.batch.arrived, NEW g \in FolderRef,
                      g # f, g.account = f.account,
                      SavedPlace(g)' # NoPlace, Covered(g, SavedPlace(g), m)'
               PROVE  where'[m] # g
      BY <1>1, <1>3 DEF ArrivedFromNowhere
  <2>1. /\ SavedPlace(g)' = SavedPlace(g) /\ SavedPlace(g) \in Links
        /\ SavedPlace(g).since <= clock /\ SavedPlace(g) # NoPlace
      BY DEF RowsStay, SavedPlace, StoreTypes, Links, SavedProves
  <2>2. SavedPlace(g).since \in Nat
      BY <2>1, SinceTypes
  <2>3. m \in MessageId
      BY <1>1, PartialFunctionType DEF CycleRecord, BatchTypes
  <2>4. m \notin Left(SavedPlace(g)) /\ changed'[g][m] <= SavedPlace(g).since
      BY <2>1 DEF Covered, Left
  <2>5. changed[g][m] <= SavedPlace(g).since /\ (where'[m] = g <=> where[m] = g)
      BY <2>1, <2>2, <2>3, <2>4, CoveredRests
  <2> QED BY <1>2, <2>1, <2>4, <2>5 DEF ArrivedFromNowhere, Covered
<1>10. ReadingsGoOn(f)'
  <2>1. \A m \in Left(link) : cycle.round_start # NoPlace
            /\ changed[f][m] > cycle.round_start.since
            => changed'[f][m] > cycle.round_start.since
    <3> SUFFICES ASSUME NEW m \in Left(link), cycle.round_start # NoPlace,
                        changed[f][m] > cycle.round_start.since
                 PROVE  changed'[f][m] > cycle.round_start.since
        OBVIOUS
    <3>1. m \in MessageId
        BY <1>5, SinceTypes DEF Left
    <3>2. cycle.round_start.since \in Nat
        BY <1>1 DEF CycleRecord, Positions
    <3>3. changed'[f][m] = clock' \/ changed'[f][m] = changed[f][m]
        BY <1>1, <3>1 DEF ServiceMoves
    <3>4. changed[f][m] \in Nat /\ changed[f][m] <= clock
        BY <1>1, <3>1 DEF ServiceTypes
    <3> QED BY <1>6, <3>2, <3>3, <3>4
  <2>2. SavedPlace(f)' = SavedPlace(f)
      BY <1>1 DEF RowsStay, SavedPlace
  <2>3. Left(Onward)' = Left(link)
      BY <1>4 DEF Left
  <2>4. cycle'.phase \in {"reading", "page"} => ~cycle.completes
      BY <1>2 DEF ReadingStays, ReadingsGoOn
  <2>5. link.kind = "first" => cycle'.phase = "reading" /\ cycle.phase = "reading"
      BY <1>2 DEF ReadingStays, ReadingsGoOn
  <2>6. link.kind = "position" => cycle'.phase = "page" \/ cycle.completes
                                  \/ cycle.reading = "Round"
      BY <1>2 DEF ReadingStays, ReadingsGoOn
  <2>7. cycle.reading = "Round" /\ ~cycle.completes =>
            \A m \in Left(link) : changed'[f][m] > cycle.round_start.since
      BY <1>2, <2>1 DEF ReadingsGoOn
  <2> QED BY <1>1, <1>2, <1>3, <1>4, <1>7, <2>2, <2>3, <2>4, <2>5, <2>6, <2>7
          DEF ReadingsGoOn
<1>11. ReadingsCompare(f)'
  <2>1. HeldIn(store, f)' = HeldIn(store, f)
      BY <1>1 DEF RowsStay
  <2> QED BY <1>2, <1>3, <1>4, <1>7, <2>1 DEF ReadingsCompare
<1>12. AcceptedIsHeld(f)'
    OBVIOUS
<1> QED BY <1>8, <1>9, <1>10, <1>11, <1>12 DEF CycleProves

-----------------------------------------------------------------------------
(* A reading begins, or begins again.                                      *)

\* Nothing of a page is held before it is taken.
LEMMA NoPageYet ==
    ASSUME CycleRecord(cycle), cycle.phase # "page"
    PROVE  /\ cycle.again = {} /\ cycle.batch = EmptyBatch
           /\ cycle.batch.removed = {} /\ DOMAIN cycle.batch.arrived = {}
           /\ \A m : ~InBatch(m)
    BY DEF CycleRecord, EmptyBatch, NoRows, InBatch

\* A cycle starts from its folder's saved place, and from what it proves.
LEMMA StartProves ==
    ASSUME LinksArePlaces, ServiceTypes, StoreTypes, SavedProves,
           NEW f \in FolderRef, Start(f)
    PROVE  CycleProves'
<1> DEFINE state == store.folders[f]
           start == WhereToStart(state, HeldIn(store, f))
<1>1. /\ cycle'.phase = "reading" /\ cycle'.folder = f /\ cycle'.from = start.from
      /\ cycle'.reading = start.reading /\ cycle'.stored = HeldIn(store, f)
      /\ cycle'.round_start = RoundStart(state) /\ cycle'.listed = {}
      /\ cycle'.again = {} /\ cycle'.batch = EmptyBatch /\ cycle'.completes = FALSE
      /\ UNCHANGED <<serviceVars, store, outdated>>
    BY DEF Start
<1>2. UNCHANGED <<where, flags, changed, clock, store, outdated>>
    BY <1>1 DEF serviceVars
<1>3. Onward' = start.from
    BY <1>1 DEF Onward
<1>4. SavedPlace(f) = state.place /\ SavedPlace(f)' = state.place
    BY <1>2 DEF SavedPlace
<1>5. /\ state.place = NoPlace \/ state.place \in Positions
                               \/ (state.place \in Pages /\ state.place.first)
      /\ NoPlace \notin Positions /\ NoPlace \notin Pages
    BY <1>4 DEF StoreTypes, LinksArePlaces, Links
<1>6. /\ \A m : ~InBatch(m)'
      /\ DOMAIN cycle'.batch.arrived = {}
    BY <1>1 DEF InBatch, EmptyBatch, NoRows
<1>7. \/ /\ state.place # NoPlace /\ start.from = state.place
         /\ start.reading = IF state.place.kind = "page" THEN "ContinuedFill" ELSE "Round"
      \/ /\ state.place = NoPlace /\ start.from = FirstReading /\ start.from.kind = "first"
         /\ start.reading = IF HeldIn(store, f) = {} THEN "FirstFill" ELSE "FullRereading"
    BY DEF WhereToStart, FirstReading
<1> PICK p : p = state.place
    OBVIOUS
<1>8. RoundStart(state) = IF p \in Positions THEN p ELSE NoPlace
    BY <1>5 DEF RoundStart, Positions, Pages
<1> HIDE DEF state, start
<1>9. OnwardProves(f)'
  <2> SUFFICES ASSUME start.from.kind # "first"
               PROVE  (/\ p.since <= clock /\ LeftIsThere(f, p)
                       /\ \A m \in MessageId : Covered(f, p, m) => PageProves(f, m))'
    <3>1. start.from = p \/ start.from.kind = "first"
        BY <1>7
    <3>2. Onward' = p \/ Onward'.kind = "first"
        BY <1>3, <3>1
    <3> QED BY <1>3, <3>2, Zenon DEF OnwardProves, LeftIsThere, Covered
  <2>1. p # NoPlace /\ start.reading # "FullRereading"
      BY <1>7
  <2>2. /\ p.since <= clock /\ LeftIsThere(f, p)
        /\ \A m \in MessageId : Covered(f, p, m) => Agrees(f, m)
      BY <1>4, <2>1 DEF SavedProves
  <2>3. ~Rereading' /\ cycle'.batch.removed = {}
      BY <1>1, <2>1 DEF Rereading, EmptyBatch
  <2>4. ASSUME NEW m, Agrees(f, m)
        PROVE  PageProves(f, m)'
    <3>1. Agrees(f, m)'
        BY <1>2, <2>4 DEF Agrees, StoredFlags
    <3> QED BY <1>6, <2>3, <3>1 DEF PageProves
  <2>5. LeftIsThere(f, p)' /\ p.since <= clock'
      BY <1>2, <2>2 DEF LeftIsThere
  <2>6. \A m \in MessageId : Covered(f, p, m)' => Covered(f, p, m)
      BY <1>2 DEF Covered, Left
  <2> QED BY <2>2, <2>4, <2>5, <2>6
<1>10. ArrivedFromNowhere(f)'
    BY <1>6 DEF ArrivedFromNowhere
<1>11. ReadingsGoOn(f)'
  <2>1. CASE p = NoPlace
      BY <1>1, <1>3, <1>5, <1>7, <1>8, <2>1 DEF ReadingsGoOn
  <2>2. CASE p \in Positions
    <3>1. p.kind = "position" /\ p.since \in Nat /\ Left(p) = {}
        BY <2>2 DEF Positions, Left
    <3>2. cycle'.reading = "Round" /\ cycle'.round_start = p /\ Onward' = p
        BY <1>1, <1>3, <1>5, <1>7, <1>8, <2>2, <3>1
    <3>3. Left(Onward)' = {}
        BY <3>1, <3>2 DEF Left
    <3>4. cycle'.phase = "reading" /\ cycle'.completes = FALSE /\ SavedPlace(f)' = p
          /\ p # NoPlace
        BY <1>1, <1>4, <1>5, <2>2
    <3> QED BY <3>1, <3>2, <3>3, <3>4 DEF ReadingsGoOn
  <2>3. CASE p \in Pages /\ p.first
    <3>1. p.kind = "page" /\ p \notin Positions
        BY <2>3 DEF Positions, Pages
    <3>2. cycle'.reading = "ContinuedFill" /\ cycle'.round_start = NoPlace /\ Onward' = p
        BY <1>1, <1>3, <1>5, <1>7, <1>8, <2>3, <3>1
    <3> QED BY <1>1, <1>6, <2>3, <3>1, <3>2 DEF ReadingsGoOn
  <2> QED BY <1>5, <2>1, <2>2, <2>3
<1>12. ReadingsCompare(f)'
  <2>1. \A m : m \notin {} /\ HeldIn(store', f) = HeldIn(store, f)
      BY <1>2
  <2> QED BY <1>1, <1>3, <1>6, <1>7, <2>1 DEF ReadingsCompare
<1>13. AcceptedIsHeld(f)'
    BY <1>1 DEF AcceptedIsHeld
<1> QED BY <1>1, <1>9, <1>10, <1>11, <1>12, <1>13 DEF CycleProves

\* A reading that begins again proves nothing yet, and keeps the saved place.
LEMMA RereadProves ==
    ASSUME CycleTypes, CycleProves, StoreTypes, Running, cycle.phase = "reading",
           cycle' = FullRereading, UNCHANGED <<serviceVars, store>>
    PROVE  CycleProves'
<1> DEFINE f == cycle.folder
<1>1. CycleRecord(cycle) /\ f \in FolderRef
    BY DEF CycleTypes, CycleRecord
<1>2. /\ cycle'.phase = "reading" /\ cycle'.folder = f /\ cycle'.from = FirstReading
      /\ cycle'.reading = "FullRereading" /\ cycle'.stored = HeldIn(store, f)
      /\ cycle'.round_start = cycle.round_start /\ cycle'.listed = {}
      /\ cycle'.again = {} /\ cycle'.batch = EmptyBatch /\ cycle'.completes = cycle.completes
    BY <1>1, NoPageYet DEF FullRereading, CycleRecord, CycleFields
<1>3. /\ \A m : ~InBatch(m)'
      /\ DOMAIN cycle'.batch.arrived = {}
    BY <1>2 DEF InBatch, EmptyBatch, NoRows
<1>4. Onward' = FirstReading /\ FirstReading.kind = "first"
    BY <1>2 DEF Onward, FirstReading
<1> SUFFICES ASSUME NEW g \in FolderRef, g = cycle.folder
             PROVE  (/\ OnwardProves(g) /\ ArrivedFromNowhere(g) /\ ReadingsGoOn(g)
                     /\ ReadingsCompare(g) /\ AcceptedIsHeld(g))'
    BY <1>2 DEF CycleProves
<1>5. ReadingsGoOn(g)
    BY DEF CycleProves
<1>6. SavedPlace(g)' = SavedPlace(g) /\ HeldIn(store, g)' = HeldIn(store, g)
    BY DEF SavedPlace
<1>7. OnwardProves(g)' /\ ArrivedFromNowhere(g)' /\ AcceptedIsHeld(g)'
    BY <1>2, <1>3, <1>4 DEF OnwardProves, ArrivedFromNowhere, AcceptedIsHeld
<1>8. ReadingsGoOn(g)'
    BY <1>2, <1>4, <1>5, <1>6 DEF ReadingsGoOn
<1>9. ReadingsCompare(g)'
    BY <1>2, <1>3, <1>4, <1>6 DEF ReadingsCompare
<1> QED BY <1>7, <1>8, <1>9

-----------------------------------------------------------------------------
(* A page is taken, and its messages are read again.                       *)

\* What a page taken leaves the cycle with.
LEMMA PageFields ==
    ASSUME ServiceTypes, StoreTypes, CycleTypes, Running, cycle.phase = "reading",
           NEW reading \in Pages, NEW page \in SUBSET reading.left, NEW changes,
           PageBrings(cycle.folder, reading, page, changes),
           TakePage(changes, Reports(cycle.folder, reading, page), Link(reading, page)),
           cycle' # FullRereading
    PROVE  /\ cycle'.phase = "page"
           /\ \A i \in CycleFields \ {"phase", "named", "listed", "next", "again", "batch",
                                       "outdated"} : cycle'[i] = cycle[i]
           /\ cycle'.next = Link(reading, page)
           /\ cycle'.listed = IF cycle.reading = "FullRereading"
                              THEN cycle.listed \union DOMAIN changes ELSE cycle.listed
           /\ cycle'.again = {m \in DOMAIN changes :
                                 IsReadAgain(cycle.folder, m, changes[m])}
           /\ cycle'.batch = BatchFromChanges(cycle.folder, changes)
           /\ cycle'.outdated = StoredOutdated(cycle'.batch,
                                               Reports(cycle.folder, reading, page))
<1> DEFINE f == cycle.folder
           next == Link(reading, page)
           batch == BatchFromChanges(f, changes)
           again == {m \in DOMAIN changes : IsReadAgain(f, m, changes[m])}
           rows == StoredOutdated(batch, Reports(f, reading, page))
           named == IF cycle.reading = "Round" THEN NamedInRound(changes) ELSE cycle.named
           listed == IF cycle.reading = "FullRereading" THEN cycle.listed \union DOMAIN changes
                     ELSE cycle.listed
<1>1. cycle' = [cycle EXCEPT !.phase = "page", !.named = named, !.listed = listed,
                             !.next = next, !.again = again, !.batch = batch,
                             !.outdated = rows]
    BY Zenon DEF TakePage
<1>2. DOMAIN cycle = CycleFields
    BY DEF CycleTypes, CycleRecord
<1> HIDE DEF next, again, named, listed, rows, batch
<1>3. /\ cycle'.phase = "page" /\ cycle'.next = next /\ cycle'.again = again
      /\ cycle'.batch = batch /\ cycle'.listed = listed /\ cycle'.outdated = rows
      /\ \A i \in CycleFields \ {"phase", "named", "listed", "next", "again", "batch",
                                  "outdated"} : cycle'[i] = cycle[i]
    BY <1>1, <1>2 DEF CycleFields
<1>4. rows = StoredOutdated(cycle'.batch, Reports(f, reading, page))
    BY <1>3 DEF rows
<1> QED BY <1>3, <1>4 DEF next, batch, again, listed

\* A page says of each message the reading covers what the service holds now,
\* or has it read again; what the reading covered before is as it was.
LEMMA TakenPageProves ==
    ASSUME LinksArePlaces, ServiceTypes, StoreTypes, CycleTypes, SavedProves, CycleProves,
           ReadChanges
    PROVE  CycleRecord(cycle') /\ CycleProves'
<1>1. Running /\ cycle.phase = "reading" /\ UNCHANGED <<serviceVars, store, outdated>>
    BY DEF ReadChanges, Running, Idle
<1>2. CycleRecord(cycle) /\ cycle.folder \in FolderRef
      /\ cycle.from \in {FirstReading} \union Links
    BY <1>1 DEF CycleTypes, CycleRecord
<1> DEFINE reading == ReadingAt(cycle.folder, cycle.from)
<1>3. PICK page \in SUBSET reading.left : \E changes :
         /\ PageBrings(cycle.folder, reading, page, changes)
         /\ TakePage(changes, Reports(cycle.folder, reading, page), Link(reading, page))
    BY <1>2, PageIsRead
<1>4. PICK changes :
         /\ PageBrings(cycle.folder, reading, page, changes)
         /\ TakePage(changes, Reports(cycle.folder, reading, page), Link(reading, page))
    BY <1>3
<1>5. PICK r : r = reading
    OBVIOUS
<1>6. /\ r \in Pages /\ page \in SUBSET r.left
      /\ PageBrings(cycle.folder, r, page, changes)
      /\ TakePage(changes, Reports(cycle.folder, r, page), Link(r, page))
      /\ cycle.from.kind = "first" =>
            r.since = clock /\ r.first /\ r.left = InFolder(cycle.folder)
      /\ cycle.from.kind = "position" =>
            /\ r.since = clock /\ ~r.first
            /\ r.left = {m \in MessageId : changed[cycle.folder][m] > cycle.from.since}
      /\ cycle.from.kind = "page" => r = cycle.from
    BY <1>2, <1>3, <1>4, <1>5, ReadingTypes
<1> HIDE DEF reading
<1>7. CycleRecord(cycle')
    BY <1>1, <1>6, PageTypes
<1>8. CASE cycle' = FullRereading
    BY <1>1, <1>7, <1>8, RereadProves
<1>9. CASE cycle' # FullRereading
  <2> SUFFICES ASSUME NEW f \in FolderRef, cycle.folder = f
               PROVE  (/\ OnwardProves(f) /\ ArrivedFromNowhere(f) /\ ReadingsGoOn(f)
                       /\ ReadingsCompare(f) /\ AcceptedIsHeld(f))'
    <3>1. cycle'.folder = cycle.folder
        BY <1>1, <1>6, <1>9, PageFields DEF CycleFields
    <3> QED BY <1>7, <3>1 DEF CycleProves
  <2>1. PICK next : next = Link(r, page)
      OBVIOUS
  <2>2. /\ next \in Links /\ next.since = r.since /\ Left(next) = r.left \ page
        /\ next.kind = "page" => next.first = r.first
        /\ next.kind = "position" => Left(next) = {}
      BY <1>6, <2>1, LinkTypes
  <2>3. PICK batch : batch = BatchFromChanges(f, changes)
      OBVIOUS
  <2>4. PICK again : again = {m \in DOMAIN changes : IsReadAgain(f, m, changes[m])}
      OBVIOUS
  <2>5. /\ cycle'.phase = "page" /\ cycle'.folder = f /\ cycle'.next = next
        /\ cycle'.reading = cycle.reading /\ cycle'.stored = cycle.stored
        /\ cycle'.round_start = cycle.round_start /\ cycle'.completes = cycle.completes
        /\ cycle'.listed = IF cycle.reading = "FullRereading"
                           THEN cycle.listed \union DOMAIN changes ELSE cycle.listed
        /\ cycle'.again = again /\ cycle'.batch = batch
        /\ cycle'.outdated = StoredOutdated(batch, Reports(f, r, page))
      BY <1>1, <1>6, <1>9, <2>1, <2>3, <2>4, PageFields DEF CycleFields
  <2>6. /\ BatchTypes(batch) /\ again \subseteq MessageId
        /\ again \intersect (batch.removed \union DOMAIN batch.arrived) = {}
        /\ again \union batch.removed \union DOMAIN batch.arrived = DOMAIN changes
        /\ \A m \in batch.removed : where[m] # f
        /\ \A m \in DOMAIN batch.arrived :
              changes[m] = Listed(batch.arrived[m].flags) /\ ~IsReadAgain(f, m, changes[m])
      BY <1>6, <2>3, <2>4, BatchOfPage, Zenon
  <2>6a. ASSUME NEW m \in DOMAIN batch.arrived
         PROVE  changes[m].kind = "Listed"
    <3>1. changes[m] = Listed(batch.arrived[m].flags)
        BY <2>6
    <3> QED BY <3>1 DEF Listed
  <2>7. /\ DOMAIN changes \subseteq MessageId
        /\ \A m \in page : m \in DOMAIN changes \/ (r.first /\ where[m] # f)
        /\ r.first => DOMAIN changes \subseteq page
      BY <1>6 DEF PageBrings
  <2>8. \A m \in DOMAIN batch.arrived :
            \/ BatchFlags(m)' = flags[m] /\ where[m] = f
            \/ /\ ~r.first /\ m \notin page
               /\ m \in r.left \/ where[m] = f
    <3> SUFFICES ASSUME NEW m \in DOMAIN batch.arrived
                 PROVE  \/ BatchFlags(m)' = flags[m] /\ where[m] = f
                        \/ /\ ~r.first /\ m \notin page
                           /\ m \in r.left \/ where[m] = f
        OBVIOUS
    <3>1. changes[m] = Listed(batch.arrived[m].flags) /\ m \in DOMAIN changes
        BY <2>6
    <3>2. changes[m] # SomeChange /\ changes[m] # Removed
        BY <3>1 DEF Listed, SomeChange, Changed, Removed
    <3>3. CASE m \in Reports(f, r, page) /\ where[m] = f
      <4>1. PICK rows : rows = StoredOutdated(batch, Reports(f, r, page))
          OBVIOUS
      <4>2. (IF m \in DOMAIN rows THEN rows[m] ELSE batch.arrived[m].flags) = flags[m]
          BY <2>6, <3>3, <4>1, OutdatedOfPage
      <4> QED BY <2>5, <3>3, <4>1, <4>2 DEF BatchFlags
    <3> QED BY <1>6, <3>1, <3>2, <3>3 DEF PageBrings
  <2>9. Onward' = next
      BY <2>5 DEF Onward
  <2>10. /\ ReadingsGoOn(f) /\ ReadingsCompare(f) /\ OnwardProves(f)
         /\ \A m : ~InBatch(m) /\ m \notin cycle.again
         /\ Onward = cycle.from /\ cycle.completes = FALSE
    <3>1. /\ ReadingsGoOn(f) /\ ReadingsCompare(f) /\ OnwardProves(f)
        BY <1>1 DEF CycleProves
    <3>2. Onward = cycle.from /\ \A m : ~InBatch(m) /\ m \notin cycle.again
        BY <1>1, <1>2, NoPageYet DEF Onward
    <3>3. cycle.completes \in BOOLEAN
        BY <1>2 DEF CycleRecord
    <3> QED BY <1>1, <3>1, <3>2, <3>3 DEF ReadingsGoOn
  <2>11. /\ r.since \in Nat /\ r.since <= clock /\ clock \in Nat
         /\ r.first \in BOOLEAN /\ r.left \subseteq MessageId
    <3>1. /\ r.since \in Nat /\ r.first \in BOOLEAN /\ r.left \subseteq MessageId
          /\ clock \in Nat
        BY <1>6 DEF Pages, ServiceTypes
    <3>2. cycle.from.kind \in {"first", "position", "page"}
        BY <1>2 DEF FirstReading, Links, Positions, Pages
    <3>3. cycle.from.kind # "first" => cycle.from.since <= clock
        BY <2>10 DEF OnwardProves
    <3> QED BY <1>6, <3>1, <3>2, <3>3
  <2>12. /\ cycle.from.kind = "first" =>
               /\ cycle.from = FirstReading
               /\ cycle.reading \in {"FirstFill", "FullRereading"}
         /\ cycle.from.kind = "position" => cycle.from \in Positions /\ cycle.reading = "Round"
         /\ cycle.from.kind = "page" =>
               /\ cycle.from \in Pages /\ cycle.from = r
               /\ r.first <=> cycle.reading # "Round"
         /\ cycle.from.kind \in {"first", "position", "page"}
      BY <1>1, <1>2, <1>6, <2>10 DEF ReadingsGoOn, FirstReading, Links, Positions, Pages
  <2>13. r.first <=> cycle.reading # "Round"
      BY <1>6, <2>12
  <2>14. r.first => \A m \in r.left : changed[f][m] <= r.since => where[m] = f
    <3>1. CASE cycle.from.kind = "first"
        BY <1>6, <3>1 DEF InFolder
    <3>2. CASE cycle.from.kind = "page"
      <4>1. LeftIsThere(f, cycle.from)
          BY <2>10, <3>2 DEF OnwardProves
      <4> QED BY <2>12, <3>2, <4>1 DEF LeftIsThere
    <3> QED BY <1>6, <2>12, <3>1, <3>2
  <2>15. ASSUME NEW m \in MessageId, m \notin r.left, changed[f][m] <= r.since
         PROVE  /\ Agrees(f, m) \/ (Rereading /\ where[m] # f)
                /\ Rereading => (where[m] = f <=> m \in cycle.listed)
    <3>1. CASE cycle.from.kind = "first"
      <4>1. where[m] # f
          BY <1>6, <2>15, <3>1 DEF InFolder
      <4>2. cycle.reading = "FirstFill" => HeldIn(store, f) = {}
          BY <2>10, <3>1 DEF ReadingsCompare
      <4>3. Rereading => cycle.listed = {}
          BY <2>10, <3>1 DEF ReadingsCompare
      <4> QED BY <2>10, <2>12, <3>1, <4>1, <4>2, <4>3 DEF Agrees, Rereading
    <3>2. CASE cycle.from.kind # "first"
      <4>1. Covered(f, cycle.from, m)
        <5>1. CASE cycle.from.kind = "position"
          <6>1. cycle.from.since \in Nat /\ changed[f][m] \in Nat
              BY <2>12, <5>1 DEF Positions, ServiceTypes
          <6> QED BY <1>6, <2>15, <5>1, <6>1 DEF Covered, Left
        <5>2. CASE cycle.from.kind = "page"
            BY <2>12, <2>15, <5>2 DEF Covered, Left
        <5> QED BY <2>12, <3>2, <5>1, <5>2
      <4>2. PageProves(f, m)
          BY <2>10, <3>2, <4>1 DEF OnwardProves
      <4> QED BY <2>10, <4>2 DEF PageProves
    <3> QED BY <3>1, <3>2
  <2>16. Rereading' <=> Rereading
      BY <2>5 DEF Rereading
  <2>17. UNCHANGED <<where, flags, changed, clock>>
      BY <1>1 DEF serviceVars
  <2>18. ASSUME NEW m
         PROVE  Agrees(f, m)' <=> Agrees(f, m)
      BY <1>1, <2>17 DEF Agrees, StoredFlags
  <2>19. ASSUME NEW m \in MessageId, Covered(f, next, m)
         PROVE  PageProves(f, m)'
    <3>1. m \notin r.left \ page /\ changed[f][m] <= r.since
        BY <2>2, <2>19 DEF Covered
    <3>2. m \in DOMAIN batch.arrived => where[m] = f /\ BatchFlags(m)' = flags[m]
      <4> SUFFICES ASSUME m \in DOMAIN batch.arrived, m \notin page, ~r.first,
                          m \notin r.left, where[m] = f
                   PROVE  FALSE
          BY <2>8, <3>1
      <4>1. Agrees(f, m)
          BY <2>15, <3>1
      <4>2. m \in HeldIn(store, f)
          BY <4>1 DEF Agrees
      <4>3. Key(f.account, m) \in DOMAIN store.messages
          BY <4>2, HeldIsStored DEF StoreTypes, Kept
      <4>4. changes[m].kind = "Listed"
          BY <2>6a
      <4>5. m \in StoredIdentities(store, f.account, {m})
          BY <4>3 DEF StoredIdentities
      <4>6. IsReadAgain(f, m, changes[m])
          BY <2>13, <4>4, <4>5 DEF IsReadAgain
      <4> QED BY <2>6, <4>6
    <3>3. m \notin DOMAIN changes => m \notin r.left
        BY <2>7, <2>14, <3>1
    <3>4. m \notin DOMAIN changes => Agrees(f, m) \/ (Rereading /\ where[m] # f)
        BY <2>15, <3>1, <3>3
    <3>5. Rereading' => (where[m] = f <=> m \in cycle'.listed)
      <4> SUFFICES ASSUME Rereading
                   PROVE  where[m] = f <=> m \in cycle.listed \union DOMAIN changes
          BY <2>5, <2>16 DEF Rereading
      <4>1. r.first
          BY <2>13 DEF Rereading
      <4>2. CASE m \in r.left
        <5>1. where[m] = f /\ m \in page
            BY <2>14, <3>1, <4>1, <4>2
        <5> QED BY <2>7, <5>1
      <4>3. CASE m \notin r.left
        <5>1. m \notin DOMAIN changes
            BY <1>6, <2>7, <4>1, <4>3
        <5> QED BY <2>15, <3>1, <4>3, <5>1
      <4> QED BY <4>2, <4>3
    <3>6. InBatch(m)' <=> m \in batch.removed \union DOMAIN batch.arrived
        BY <2>5 DEF InBatch
    <3> QED BY <2>5, <2>6, <2>16, <2>17, <2>18, <3>2, <3>4, <3>5, <3>6 DEF PageProves
  <2>20. OnwardProves(f)'
    <3>1. LeftIsThere(f, next)'
      <4>1. ASSUME next.kind = "page", next.first, NEW m \in next.left,
                   changed[f][m] <= next.since
            PROVE  where[m] = f
        <5>1. m \in r.left /\ r.first
            BY <2>2, <4>1 DEF Left
        <5> QED BY <2>2, <2>14, <4>1, <5>1
      <4> QED BY <2>17, <4>1 DEF LeftIsThere
    <3>2. \A m \in MessageId : Covered(f, next, m)' => Covered(f, next, m)
        BY <2>17 DEF Covered, Left
    <3>3. next.since <= clock'
        BY <2>2, <2>11, <2>17
    <3>4. LeftIsThere(f, Onward)'
        BY <2>9, <3>1 DEF LeftIsThere
    <3>5. \A m \in MessageId : Covered(f, Onward, m)' => Covered(f, next, m)'
        BY <2>9 DEF Covered, Left
    <3> QED BY <2>9, <2>19, <3>2, <3>3, <3>4, <3>5 DEF OnwardProves
  <2>21. ArrivedFromNowhere(f)'
    <3> SUFFICES ASSUME NEW m \in DOMAIN batch.arrived, NEW g \in FolderRef,
                        g # f, g.account = f.account,
                        SavedPlace(g)' # NoPlace, Covered(g, SavedPlace(g), m)',
                        where[m] = g
                 PROVE  FALSE
        BY <2>5, <2>17 DEF ArrivedFromNowhere
    <3>1. SavedPlace(g) # NoPlace /\ Covered(g, SavedPlace(g), m) /\ m \in MessageId
        BY <1>1, <2>6, <2>7, <2>17 DEF SavedPlace, Covered, Left
    <3>2. m \in HeldIn(store, g)
        BY <3>1 DEF SavedProves, Agrees
    <3>3. [folder |-> g, message |-> Key(f.account, m)] \in store.memberships
        BY <3>2, HeldInMeans DEF StoreTypes, Kept
    <3>4. HeldElsewhere(f, m)
        BY <3>3 DEF HeldElsewhere
    <3>5. changes[m].kind = "Listed"
        BY <2>6a
    <3>6. IsReadAgain(f, m, changes[m])
        BY <3>4, <3>5 DEF IsReadAgain
    <3> QED BY <2>6, <3>6
  <2>22. ReadingsGoOn(f)'
    <3>1. SavedPlace(f)' = SavedPlace(f)
        BY <1>1 DEF SavedPlace
    <3>2. next.kind = "page" /\ next.first =>
              \A m \in next.left : ~InBatch(m)' /\ m \notin again
      <4> SUFFICES ASSUME next.kind = "page", next.first, NEW m \in next.left
                   PROVE  ~InBatch(m)' /\ m \notin again
          OBVIOUS
      <4>1. m \notin DOMAIN changes
          BY <2>2, <2>7 DEF Left
      <4> QED BY <2>5, <2>6, <4>1 DEF InBatch
    <3>3. /\ cycle.round_start \in {NoPlace, SavedPlace(f)}
          /\ cycle.reading \in {"FirstFill", "ContinuedFill"} => cycle.round_start = NoPlace
          /\ cycle.reading = "Round" => cycle.round_start # NoPlace
        BY <2>10 DEF ReadingsGoOn
    <3>4. cycle.round_start # NoPlace => cycle.round_start.since \in Nat
        BY <1>2 DEF CycleRecord, Positions
    <3>5. cycle.round_start # NoPlace => cycle.round_start.since <= next.since
      <4>1. cycle.round_start # NoPlace => cycle.round_start.since <= clock
          BY <3>3 DEF SavedProves
      <4>2. cycle.from.kind = "page" /\ cycle.round_start # NoPlace =>
                cycle.round_start.since <= r.since
          BY <2>10, <2>12 DEF ReadingsGoOn
      <4> QED BY <1>6, <2>2, <2>12, <4>1, <4>2
    <3>6. cycle.reading = "Round" =>
              \A m \in Left(next) : changed[f][m] > cycle.round_start.since
      <4> SUFFICES ASSUME cycle.reading = "Round", NEW m \in r.left
                   PROVE  changed[f][m] > cycle.round_start.since
          BY <2>2
      <4>1. CASE cycle.from.kind = "position"
        <5>1. changed[f][m] > cycle.from.since /\ m \in MessageId
            BY <1>6, <4>1
        <5>2. cycle.round_start.since <= cycle.from.since
            BY <2>10, <3>3, <4>1 DEF ReadingsGoOn
        <5>3. changed[f][m] \in Nat /\ cycle.from.since \in Nat
            BY <2>12, <4>1, <5>1 DEF ServiceTypes, Positions
        <5> QED BY <3>3, <3>4, <5>1, <5>2, <5>3
      <4>2. CASE cycle.from.kind = "page"
          BY <2>10, <2>12, <4>2 DEF ReadingsGoOn, Left
      <4> QED BY <2>12, <4>1, <4>2
    <3>7. next.kind \in {"position", "page"} /\ (next.kind = "page" => next.first = r.first)
        BY <2>2 DEF Links, Positions, Pages
    <3>8. Left(Onward)' = Left(next)
        BY <2>9 DEF Left
    <3> QED BY <2>5, <2>9, <2>10, <2>13, <2>17, <3>1, <3>2, <3>3, <3>5, <3>6, <3>7, <3>8
            DEF ReadingsGoOn
  <2>23. ReadingsCompare(f)'
    <3>1. HeldIn(store, f)' = HeldIn(store, f)
        BY <1>1
    <3>2. next.kind # "first"
        BY <2>2 DEF Links, Positions, Pages
    <3>3. Rereading => HeldIn(store, f) \subseteq cycle.stored \union cycle.listed
        BY <2>10 DEF ReadingsCompare
    <3> QED BY <2>5, <2>6, <2>9, <2>16, <3>1, <3>2, <3>3 DEF ReadingsCompare, Rereading
  <2>24. AcceptedIsHeld(f)'
      BY <2>5 DEF AcceptedIsHeld
  <2> QED BY <2>20, <2>21, <2>22, <2>23, <2>24
<1> QED BY <1>7, <1>8, <1>9

\* A message read again is where the service just said it is, with its flags.
LEMMA ReadAgainProves ==
    ASSUME ServiceTypes, StoreTypes, CycleTypes, CycleProves,
           NEW m \in MessageId, ReadInFolder(m)
    PROVE  CycleProves'
<1>1. /\ cycle.phase = "page" /\ m \in cycle.again /\ Running
      /\ UNCHANGED <<where, flags, changed, clock, store, outdated>>
    BY DEF ReadInFolder, Running, Idle, serviceVars
<1>2. /\ cycle'.phase = "page" /\ cycle'.again = cycle.again \ {m}
      /\ \A i \in CycleFields \ {"again", "batch"} : cycle'[i] = cycle[i]
      /\ where[m] = cycle.folder =>
            /\ cycle'.batch.removed = cycle.batch.removed
            /\ DOMAIN cycle'.batch.arrived = DOMAIN cycle.batch.arrived \union {m}
            /\ cycle'.batch.arrived[m].flags = flags[m]
            /\ \A i \in DOMAIN cycle.batch.arrived :
                  cycle'.batch.arrived[i] = cycle.batch.arrived[i]
      /\ where[m] # cycle.folder =>
            /\ cycle'.batch.removed = cycle.batch.removed \union {m}
            /\ cycle'.batch.arrived = cycle.batch.arrived
    BY ReadAgainTypes
<1>3. /\ cycle'.folder = cycle.folder /\ cycle'.from = cycle.from /\ cycle'.next = cycle.next
      /\ cycle'.reading = cycle.reading /\ cycle'.stored = cycle.stored
      /\ cycle'.round_start = cycle.round_start /\ cycle'.listed = cycle.listed
      /\ cycle'.completes = cycle.completes /\ cycle'.outdated = cycle.outdated
    BY <1>2 DEF CycleFields
<1> SUFFICES ASSUME NEW f \in FolderRef, cycle.folder = f
             PROVE  (/\ OnwardProves(f) /\ ArrivedFromNowhere(f) /\ ReadingsGoOn(f)
                     /\ ReadingsCompare(f) /\ AcceptedIsHeld(f))'
    BY <1>3 DEF CycleProves
<1>4. /\ OnwardProves(f) /\ ArrivedFromNowhere(f) /\ ReadingsGoOn(f) /\ ReadingsCompare(f)
      /\ m \notin DOMAIN cycle.batch.arrived /\ m \notin cycle.batch.removed
      /\ m \notin DOMAIN cycle.outdated
    BY <1>1 DEF CycleProves, CycleTypes, CycleRecord, OutdatedTypes
<1>5. /\ Onward' = Onward /\ (Rereading' <=> Rereading)
      /\ Left(Onward)' = Left(Onward)
    BY <1>1, <1>2, <1>3 DEF Onward, Rereading, Left
<1>6. \A i : InBatch(i)' <=> InBatch(i) \/ i = m
    BY <1>2 DEF InBatch
<1>7. OnwardProves(f)'
  <2>1. ASSUME NEW i \in MessageId, PageProves(f, i)
        PROVE  PageProves(f, i)'
    <3>1. Agrees(f, i)' <=> Agrees(f, i)
        BY <1>1 DEF Agrees, StoredFlags
    <3>2. i \in cycle'.batch.removed => where[i] # f
        BY <1>2, <2>1 DEF PageProves
    <3>3. i \in DOMAIN cycle'.batch.arrived => where[i] = f /\ BatchFlags(i)' = flags[i]
        BY <1>2, <1>3, <1>4, <2>1 DEF PageProves, BatchFlags
    <3> QED BY <1>1, <1>2, <1>3, <1>5, <1>6, <2>1, <3>1, <3>2, <3>3 DEF PageProves
  <2>2. LeftIsThere(f, Onward)' <=> LeftIsThere(f, Onward)
      BY <1>1, <1>5 DEF LeftIsThere
  <2>3. \A i \in MessageId : Covered(f, Onward, i)' => Covered(f, Onward, i)
      BY <1>1, <1>5 DEF Covered
  <2> QED BY <1>1, <1>4, <1>5, <2>1, <2>2, <2>3 DEF OnwardProves
<1>8. ArrivedFromNowhere(f)'
  <2>1. \A g, i : Covered(g, SavedPlace(g), i)' => Covered(g, SavedPlace(g), i)
      BY <1>1 DEF Covered, Left, SavedPlace
  <2>2. \A g : SavedPlace(g)' = SavedPlace(g)
      BY <1>1 DEF SavedPlace
  <2>3. where[m] = f => DOMAIN cycle'.batch.arrived = DOMAIN cycle.batch.arrived \union {m}
      BY <1>2
  <2>4. where[m] # f => DOMAIN cycle'.batch.arrived = DOMAIN cycle.batch.arrived
      BY <1>2
  <2> QED BY <1>1, <1>4, <2>1, <2>2, <2>3, <2>4 DEF ArrivedFromNowhere
<1>9. ReadingsGoOn(f)'
  <2>1. SavedPlace(f)' = SavedPlace(f)
      BY <1>1 DEF SavedPlace
  <2>2. \A i : i \in cycle'.again => i \in cycle.again
      BY <1>2
  <2> QED BY <1>1, <1>2, <1>3, <1>4, <1>5, <1>6, <2>1, <2>2 DEF ReadingsGoOn
<1>10. ReadingsCompare(f)'
  <2>1. HeldIn(store, f)' = HeldIn(store, f)
      BY <1>1
  <2>2. DOMAIN cycle'.batch.arrived \subseteq DOMAIN cycle.batch.arrived \union {m}
      BY <1>2
  <2> QED BY <1>1, <1>2, <1>3, <1>4, <1>5, <2>1, <2>2 DEF ReadingsCompare
<1>11. AcceptedIsHeld(f)'
    BY <1>2 DEF AcceptedIsHeld
<1> QED BY <1>7, <1>8, <1>9, <1>10, <1>11

-----------------------------------------------------------------------------
(* The user's changes are sent and answered.                               *)

\* Steps that leave every row's flags as they are: whatever a link proves
\* stays proved, if what was accepted does.
LEMMA StepBesides ==
    ASSUME LinksArePlaces, Types, SavedProves, CycleProves, [Next]_vars,
           RowsStay, ReadingStays, CycleTypes',
           \A f \in FolderRef : cycle'.folder = f => AcceptedIsHeld(f)'
    PROVE  SavedProves' /\ CycleProves'
    BY EveryStepMoves, SavedRests, ReadingRests DEF Types

\* A message whose change the service accepted has that value now.
LEMMA SendProves ==
    ASSUME LinksArePlaces, Types, SavedProves, CycleProves, SendChange
    PROVE  CycleTypes' /\ SavedProves' /\ CycleProves'
<1>1. cycle.phase = "sending" /\ Running /\ store' = store /\ outdated' = outdated
    BY DEF SendChange, Running, Idle
<1>2. CycleRecord(cycle)
    BY <1>1 DEF Types, CycleTypes
<1>3. PICK c \in cycle.changes, answer \in {"2xx", "4xx", "none"} :
         /\ \/ answer # "4xx" /\ SetFlag(c.identity, c.flag, c.wanted)
            \/ answer # "2xx" /\ UNCHANGED serviceVars
         /\ cycle' = [cycle EXCEPT !.phase = "answered", !.changes = @ \ {c},
                                   !.command = {c}, !.answer = answer]
    BY DEF SendChange
<1>4. /\ c \in PendingChange /\ c.identity \in MessageId /\ c.flag \in MessageFlag
      /\ c.wanted \in BOOLEAN
    BY <1>2 DEF CycleRecord, PendingChange
<1>5. /\ cycle'.phase = "answered" /\ cycle'.changes = cycle.changes \ {c}
      /\ cycle'.command = {c} /\ cycle'.answer = answer
      /\ DOMAIN cycle' = CycleFields
      /\ \A i \in CycleFields \ {"phase", "changes", "command", "answer"} : cycle'[i] = cycle[i]
    BY <1>2, <1>3 DEF CycleRecord, CycleFields
<1>6. CycleRecord(cycle')
    BY <1>1, <1>2, <1>4, <1>5 DEF CycleRecord, CycleFields, Phases
<1>7. ReadingStays
    BY <1>1, <1>5, <1>6 DEF ReadingStays, Running, Idle
<1>8. [Next]_vars
    BY DEF Next, CycleStep
<1>9. ServiceMoves
    BY <1>8, EveryStepMoves DEF Types
<1>10. RowsStay
    BY <1>1, <1>9, SameRowsStay DEF Types, StoredFlags
<1>11. \A f \in FolderRef : cycle'.folder = f => AcceptedIsHeld(f)'
  <2>1. answer = "2xx" => flags'[c.identity][c.flag] = c.wanted
      BY <1>3, <1>4, SetFlagMoves DEF Types
  <2> QED BY <1>5, <2>1 DEF AcceptedIsHeld
<1> QED BY <1>6, <1>7, <1>8, <1>10, <1>11, StepBesides DEF CycleTypes

\* A row a folder lists is there.
LEMMA ListedRow ==
    ASSUME StoreTypes, NEW f \in FolderRef, NEW m \in HeldIn(store, f)
    PROVE  m \in MessageId /\ Key(f.account, m) \in DOMAIN store.messages
    BY HeldIsStored DEF StoreTypes, Kept

\* A change of the user, and the end of one that was refused, leave what the
\* rows show of the service.
LEMMA WishTypes ==
    ASSUME StoreTypes, outdated' = outdated,
           NEW account, NEW id \in MessageId, NEW flag \in MessageFlag, NEW value \in BOOLEAN,
           \/ store' = WritePendingFlag(store, account, id, flag, value)
           \/ store' = DropPendingFlags(store, account, {id}, flag, value)
    PROVE  /\ StoreTypes' /\ store'.folders = store.folders
           /\ \A f \in FolderRef : HeldIn(store, f)' = HeldIn(store, f)
           /\ \A f \in FolderRef, m \in MessageId :
                 m \in HeldIn(store, f) => StoredFlags(f, m)' = StoredFlags(f, m)
<1>1. Kept(store)
    BY DEF StoreTypes
<1>2. /\ Kept(store') /\ store'.folders = store.folders
      /\ store'.memberships = store.memberships
      /\ SameServerFlags(store, store')
    BY <1>1, WishedRows, DroppedRows
<1>3. StoreTypes'
    BY <1>2 DEF StoreTypes, SavedPlace
<1>4. \A f \in FolderRef : HeldIn(store, f)' = HeldIn(store, f)
    BY <1>2, SameMemberships
<1>5. \A f \in FolderRef, m \in MessageId :
         m \in HeldIn(store, f) => StoredFlags(f, m)' = StoredFlags(f, m)
    BY <1>2, ListedRow DEF StoredFlags, SameServerFlags
<1> QED BY <1>2, <1>3, <1>4, <1>5

\* An accepted flag as the rows show it, outdated or not.
FlagShown(account, id, flag, value) ==
    \A f \in FolderRef : \A m \in HeldIn(store, f) :
        StoredFlags(f, m)' = IF f.account = account /\ m = id
                             THEN [StoredFlags(f, m) EXCEPT ![flag] = value]
                             ELSE StoredFlags(f, m)

LEMMA AnsweredRows ==
    ASSUME StoreTypes, CycleRecord(cycle), TakeAnswer, cycle.answer = "2xx"
    PROVE  /\ StoreTypes' /\ store'.folders = store.folders
           /\ \A f \in FolderRef : HeldIn(store, f)' = HeldIn(store, f)
           /\ \A f \in FolderRef : \A m \in HeldIn(store, f) : StoredFlags(f, m) \in Flags
           /\ \E id \in MessageId, flag \in MessageFlag, value \in BOOLEAN :
                 /\ [identity |-> id, flag |-> flag, wanted |-> value] \in cycle.command
                 /\ FlagShown(cycle.folder.account, id, flag, value)
<1>1. PICK c \in cycle.command :
         /\ store' = SettleFlags(store, cycle.folder.account, {c.identity}, c.flag, c.wanted)
         /\ outdated' = OutdatedAfterAnswer(c)
    BY DEF TakeAnswer
<1>2. PICK id \in MessageId, flag \in MessageFlag, value \in BOOLEAN :
         c = [identity |-> id, flag |-> flag, wanted |-> value]
    BY DEF CycleRecord, PendingChange
<1>3. PICK account, asked : account = cycle.folder.account /\ asked = {id}
    OBVIOUS
<1>4. store' = SettleFlags(store, account, {id}, flag, value)
    BY <1>1, <1>2, <1>3
<1>5. /\ Kept(store') /\ store'.folders = store.folders
      /\ store'.memberships = store.memberships
      /\ ServerFlagSet(store, store', KeysOf(account, {id}), flag, value)
    BY <1>4, SettledRows DEF StoreTypes
<1>6. PICK row : row = Key(account, id)
    OBVIOUS
<1>7. outdated' = IF row \in DOMAIN outdated THEN [outdated EXCEPT ![row][flag] = value]
                  ELSE outdated
    BY <1>1, <1>2, <1>3, <1>6 DEF OutdatedAfterAnswer
<1>8. DOMAIN outdated \subseteq MessageKey /\ outdated \in [DOMAIN outdated -> Flags]
    BY PartialFunctionType DEF StoreTypes
<1>9. /\ DOMAIN outdated' = DOMAIN outdated
      /\ \A k \in DOMAIN outdated :
            outdated'[k] = IF k = row THEN [outdated[k] EXCEPT ![flag] = value] ELSE outdated[k]
    BY <1>7, <1>8
<1>10. outdated' \in [DOMAIN outdated -> Flags]
    BY <1>7, <1>8 DEF Flags
<1>11. outdated' \in PartialFunctions(MessageKey, Flags)
    BY <1>8, <1>9, <1>10, PartialFunctionType
<1>12. StoreTypes'
    BY <1>5, <1>11 DEF StoreTypes, SavedPlace
<1>13. \A f \in FolderRef : HeldIn(store, f)' = HeldIn(store, f)
    BY <1>5, SameMemberships
<1>14. ASSUME NEW f \in FolderRef, NEW m \in HeldIn(store, f)
       PROVE  /\ StoredFlags(f, m) \in Flags
              /\ StoredFlags(f, m)' = IF f.account = account /\ m = id
                                      THEN [StoredFlags(f, m) EXCEPT ![flag] = value]
                                      ELSE StoredFlags(f, m)
  <2>1. PICK k : k = Key(f.account, m)
      OBVIOUS
  <2>2. k \in DOMAIN store.messages /\ store.messages[k] \in MessageRow
      BY <2>1, ListedRow, TablesType DEF StoreTypes, Kept, Sound
  <2>3. k = row <=> f.account = account /\ m = id
      BY <1>6, <2>1 DEF Key
  <2>4. k \in KeysOf(account, {id}) <=> k = row
      BY <1>6 DEF KeysOf
  <2>5. store'.messages[k].server = IF k = row THEN [store.messages[k].server EXCEPT ![flag] = value]
                                    ELSE store.messages[k].server
      BY <1>5, <2>2, <2>4 DEF ServerFlagSet
  <2>6. /\ StoredFlags(f, m) = IF k \in DOMAIN outdated THEN outdated[k]
                               ELSE store.messages[k].server
        /\ StoredFlags(f, m)' = IF k \in DOMAIN outdated' THEN outdated'[k]
                                ELSE store'.messages[k].server
      BY <2>1 DEF StoredFlags
  <2>7. store.messages[k].server \in Flags
      BY <2>2 DEF MessageRow
  <2> QED BY <1>8, <1>9, <2>3, <2>5, <2>6, <2>7
<1>15. FlagShown(cycle.folder.account, id, flag, value)
    BY <1>3, <1>14 DEF FlagShown
<1> QED BY <1>2, <1>5, <1>12, <1>13, <1>14, <1>15

\* The answer to a change: an accepted value is stored where it is the
\* message's own, so no link's proof breaks.
LEMMA AnswerProves ==
    ASSUME LinksArePlaces, Types, SavedProves, CycleProves, TakeAnswer
    PROVE  StoreTypes' /\ CycleTypes' /\ SavedProves' /\ CycleProves'
<1>1. /\ cycle.phase = "answered" /\ Running
      /\ UNCHANGED <<where, flags, changed, clock>>
    BY DEF TakeAnswer, Running, Idle, serviceVars
<1>2. CycleRecord(cycle) /\ cycle.folder \in FolderRef
    BY <1>1 DEF Types, CycleTypes, CycleRecord
<1>5. [Next]_vars /\ ServiceMoves
  <2>1. [Next]_vars
      BY DEF Next, CycleStep
  <2> QED BY <2>1, EveryStepMoves DEF Types
<1>6. CASE cycle.answer = "2xx"
  <2>1. /\ StoreTypes' /\ store'.folders = store.folders
        /\ \A f \in FolderRef : HeldIn(store, f)' = HeldIn(store, f)
      BY <1>2, <1>6, AnsweredRows DEF Types
  <2>2. PICK id \in MessageId, flag \in MessageFlag, value \in BOOLEAN :
           /\ [identity |-> id, flag |-> flag, wanted |-> value] \in cycle.command
           /\ FlagShown(cycle.folder.account, id, flag, value)
      BY <1>2, <1>6, AnsweredRows DEF Types
  <2>6. ASSUME NEW f \in FolderRef, NEW m \in MessageId, Agrees(f, m),
               where[m] = f => \A d \in cycle.command :
                                  d.identity = m => flags[m][d.flag] = d.wanted
        PROVE  Agrees(f, m)'
    <3>1. m \in HeldIn(store, f)' <=> where'[m] = f
        BY <1>1, <2>1, <2>6 DEF Agrees
    <3>2. where[m] = f => StoredFlags(f, m)' = flags[m]
      <4> SUFFICES ASSUME where[m] = f
                   PROVE  StoredFlags(f, m)' = flags[m]
          OBVIOUS
      <4>1. m \in HeldIn(store, f) /\ StoredFlags(f, m) = flags[m]
          BY <2>6 DEF Agrees
      <4>2. m = id => flags[m][flag] = value
          BY <2>2, <2>6
      <4>3. m = id => [flags[m] EXCEPT ![flag] = value] = flags[m]
          BY <4>2 DEF Types, ServiceTypes, Flags
      <4> QED BY <2>2, <4>1, <4>3 DEF FlagShown
    <3> QED BY <1>1, <3>1, <3>2 DEF Agrees
  <2>7. RowsStay
    <3>1. ASSUME NEW f \in FolderRef, SavedPlace(f) # NoPlace
          PROVE  StaysShown(f, SavedPlace(f))
      <4> SUFFICES ASSUME NEW m \in MessageId, changed[f][m] <= SavedPlace(f).since,
                          Agrees(f, m)
                   PROVE  Agrees(f, m)'
          BY <1>1 DEF StaysShown
      <4>1. where[m] = f => \A d \in cycle.command :
                               d.identity = m => flags[m][d.flag] = d.wanted
          BY <1>1, <1>6, <1>2, <3>1 DEF CycleProves, AcceptedIsHeld
      <4> QED BY <2>6, <4>1
    <3>2. ASSUME Onward.kind # "first"
          PROVE  StaysShown(cycle.folder, Onward)
      <4> SUFFICES ASSUME NEW m \in MessageId, changed[cycle.folder][m] <= Onward.since,
                          NEW f \in FolderRef, f = cycle.folder, Agrees(f, m)
                   PROVE  Agrees(f, m)'
        <5>1. PICK f \in FolderRef : f = cycle.folder
            BY <1>2
        <5>2. cycle'.folder = cycle.folder
            BY <1>2, <1>6 DEF TakeAnswer, CycleRecord, CycleFields
        <5> QED BY <1>1, <5>1, <5>2 DEF StaysShown, Agrees, StoredFlags
      <4>1. where[m] = f => \A d \in cycle.command :
                               d.identity = m => flags[m][d.flag] = d.wanted
          BY <1>1, <1>6 DEF CycleProves, AcceptedIsHeld
      <4> QED BY <2>6, <4>1
    <3> QED BY <2>1, <3>1, <3>2 DEF RowsStay
  <2>8. /\ cycle'.phase = "sending" /\ cycle'.command = {} /\ DOMAIN cycle' = CycleFields
        /\ \A i \in CycleFields \ {"phase", "command"} : cycle'[i] = cycle[i]
      BY <1>2, <1>6 DEF TakeAnswer, CycleRecord, CycleFields
  <2>9. CycleRecord(cycle')
      BY <1>1, <1>2, <2>8 DEF CycleRecord, CycleFields, Phases
  <2>10. ReadingStays
      BY <1>1, <2>8, <2>9 DEF ReadingStays, Running, Idle
  <2>11. \A f \in FolderRef : AcceptedIsHeld(f)'
      BY <2>8 DEF AcceptedIsHeld
  <2> QED BY <1>5, <2>1, <2>7, <2>9, <2>10, <2>11, StepBesides DEF CycleTypes
<1>7. CASE cycle.answer # "2xx"
  <2>1. ~Running'
      BY <1>7 DEF TakeAnswer, Running
  <2>1a. PICK c \in cycle.command :
            /\ \/ store' = DropPendingFlags(store, cycle.folder.account, {c.identity}, c.flag,
                                            c.wanted)
               \/ store' = store
            /\ outdated' = outdated
      BY <1>7 DEF TakeAnswer, OutdatedAfterAnswer
  <2>1b. c.identity \in MessageId /\ c.flag \in MessageFlag /\ c.wanted \in BOOLEAN
      BY <1>2 DEF CycleRecord, PendingChange
  <2>2. /\ StoreTypes' /\ store'.folders = store.folders
        /\ \A f \in FolderRef : HeldIn(store, f)' = HeldIn(store, f)
        /\ \A f \in FolderRef, m \in MessageId :
              m \in HeldIn(store, f) => StoredFlags(f, m)' = StoredFlags(f, m)
    <3>1. CASE store' = store
        BY <2>1a, <3>1 DEF Types, StoreTypes, SavedPlace, StoredFlags
    <3>2. CASE store' = DropPendingFlags(store, cycle.folder.account, {c.identity}, c.flag,
                                         c.wanted)
        BY <2>1a, <2>1b, <3>2, WishTypes DEF Types
    <3> QED BY <2>1a, <3>1, <3>2
  <2>3. RowsStay
      BY <1>5, <2>2, SameRowsStay DEF Types
  <2>4. SavedProves'
      BY <1>5, <2>3, SavedRests DEF Types
  <2> QED BY <2>1, <2>2, <2>4 DEF CycleTypes, CycleProves
<1> QED BY <1>6, <1>7

-----------------------------------------------------------------------------
(* A page is stored.                                                       *)

\* What the store and the cycle are after a page.
LEMMA PageStored ==
    ASSUME LinksArePlaces, Types, CycleProves, StorePage
    PROVE  /\ cycle.phase = "page" /\ cycle.again = {} /\ Running
           /\ CycleRecord(cycle) /\ cycle.completes = FALSE
           /\ UNCHANGED <<where, flags, changed, clock>>
           /\ Kept(store') /\ StateAfterPage \in FolderState
           /\ store'.folders = [store.folders EXCEPT ![cycle.folder] = StateAfterPage]
           /\ HeldIn(store', cycle.folder) =
                 (HeldIn(store, cycle.folder) \ (cycle.batch.removed \union Unlisted))
                 \union DOMAIN cycle.batch.arrived
           /\ OthersHoldTheSame(store, store', cycle.folder)
           /\ ShowsTheArrived(store, store', cycle.folder.account, cycle.batch.arrived)
           /\ Unlisted \intersect DOMAIN cycle.batch.arrived = {}
           /\ DOMAIN cycle' = CycleFields
           /\ cycle'.phase = IF ~LastPage /\ cycle.reading = "Round" THEN "reading" ELSE "sending"
           /\ cycle'.from = cycle.next /\ cycle'.completes = Completes
           /\ cycle'.reading = IF LastPage /\ ~Completes THEN "Round" ELSE cycle.reading
           /\ cycle'.round_start = IF LastPage /\ ~Completes THEN cycle.next
                                   ELSE cycle.round_start
           /\ cycle'.batch = EmptyBatch /\ cycle'.outdated = NoRows
           /\ cycle'.changes \subseteq PendingChange
           /\ cycle'.changes \subseteq ReadPendingChanges(store', cycle.folder)
           /\ \A i \in {"folder", "stored", "named", "listed", "next", "again", "command",
                        "answer"} : cycle'[i] = cycle[i]
<1>1. /\ cycle.phase = "page" /\ cycle.again = {} /\ Running
      /\ UNCHANGED <<where, flags, changed, clock>>
    BY DEF StorePage, Running, Idle, serviceVars
<1>2. CycleRecord(cycle) /\ cycle.folder \in FolderRef
    BY <1>1 DEF Types, CycleTypes, CycleRecord
<1>3. ~cycle.completes /\ (Rereading => DOMAIN cycle.batch.arrived \subseteq cycle.listed)
    BY <1>1, <1>2 DEF CycleProves, ReadingsGoOn, ReadingsCompare
<1>4. cycle.completes = FALSE
    BY <1>2, <1>3 DEF CycleRecord
<1>5. /\ PageBatch \in FolderBatch
      /\ PageBatch.flag_states = NoRows /\ PageBatch.known_arrived = NoRows
      /\ PageBatch.state = {StateAfterPage} /\ StateAfterPage \in FolderState
      /\ PageBatch.removed = cycle.batch.removed \union Unlisted
      /\ PageBatch.arrived = cycle.batch.arrived
      /\ PageBatch.removed \intersect DOMAIN PageBatch.arrived = {}
      /\ Completes \in BOOLEAN
    BY <1>1, <1>3, PageBatchTypes DEF Types
<1>6. store' = StoreBatch(store, cycle.folder, PageBatch)
    BY DEF StorePage, PageBatch
<1>7. Kept(store) /\ cycle.folder \in DOMAIN store.folders
    BY <1>2 DEF Types, StoreTypes
<1>8. /\ Kept(store')
      /\ store'.folders = [store.folders EXCEPT ![cycle.folder] = StateAfterPage]
      /\ HeldIn(store', cycle.folder) =
            (HeldIn(store, cycle.folder) \ PageBatch.removed) \union DOMAIN PageBatch.arrived
      /\ OthersHoldTheSame(store, store', cycle.folder)
      /\ ShowsTheArrived(store, store', cycle.folder.account, PageBatch.arrived)
    BY <1>5, <1>6, <1>7, StoreBatchEffect
<1> DEFINE goesOnAsRound == LastPage /\ ~Completes
           withinRound   == ~LastPage /\ cycle.reading = "Round"
           phase   == IF withinRound THEN "reading" ELSE "sending"
           reading == IF goesOnAsRound THEN "Round" ELSE cycle.reading
           start   == IF goesOnAsRound THEN cycle.next ELSE cycle.round_start
           changes == IF withinRound THEN {} ELSE ReadPendingChanges(store', cycle.folder)
<1>9. changes \subseteq PendingChange /\ changes \subseteq ReadPendingChanges(store', cycle.folder)
    BY <1>2, <1>8, PendingTypes DEF Kept
<1>10. cycle' = [cycle EXCEPT !.phase = phase, !.from = cycle.next, !.completes = Completes,
                              !.reading = reading, !.round_start = start,
                              !.batch = EmptyBatch, !.outdated = NoRows,
                              !.changes = changes]
    BY Zenon DEF StorePage
<1>11. DOMAIN cycle = CycleFields
    BY <1>2 DEF CycleRecord
<1> HIDE DEF phase, reading, start, changes
<1>12. /\ DOMAIN cycle' = CycleFields
       /\ cycle'.phase = phase /\ cycle'.from = cycle.next /\ cycle'.completes = Completes
       /\ cycle'.reading = reading /\ cycle'.round_start = start
       /\ cycle'.batch = EmptyBatch /\ cycle'.outdated = NoRows /\ cycle'.changes = changes
       /\ \A i \in {"folder", "stored", "named", "listed", "next", "again", "command",
                    "answer"} : cycle'[i] = cycle[i]
    BY <1>10, <1>11 DEF CycleFields
<1> QED BY <1>1, <1>2, <1>4, <1>5, <1>8, <1>9, <1>12 DEF phase, reading, start

\* What the rows show after a page: the arrived messages as the page's current
\* entries gave them, the others what they showed.
LEMMA ShownAfterPage ==
    ASSUME LinksArePlaces, Types, CycleProves, StorePage
    PROVE  /\ outdated' \in PartialFunctions(MessageKey, Flags)
           /\ \A g \in FolderRef : \A m :
                 m \in HeldIn(store', g) =>
                    StoredFlags(g, m)' = IF /\ g.account = cycle.folder.account
                                            /\ m \in DOMAIN cycle.batch.arrived
                                         THEN BatchFlags(m) ELSE StoredFlags(g, m)
<1>1. /\ CycleRecord(cycle) /\ Kept(store')
      /\ ShowsTheArrived(store, store', cycle.folder.account, cycle.batch.arrived)
    BY PageStored
<1>2. PICK account, arrived, rows : /\ account = cycle.folder.account
                                    /\ arrived = cycle.batch.arrived /\ rows = cycle.outdated
    OBVIOUS
<1>3. PICK written, older : /\ written = KeysOf(account, DOMAIN arrived)
                            /\ older = KeysOf(account, DOMAIN rows)
    OBVIOUS
<1>4. DOMAIN rows \subseteq DOMAIN arrived /\ rows \in [DOMAIN rows -> Flags]
    BY <1>1, <1>2, PartialFunctionType DEF CycleRecord, OutdatedTypes
<1>5. DOMAIN outdated \subseteq MessageKey /\ outdated \in [DOMAIN outdated -> Flags]
    BY PartialFunctionType DEF Types, StoreTypes
<1>6. outdated' = [key \in ((DOMAIN outdated \ written) \union older)
                              \intersect DOMAIN store'.messages |->
                      IF key \in older THEN rows[key.identity] ELSE outdated[key]]
    BY <1>2, <1>3 DEF StorePage, OutdatedAfterPage
<1>7. \A key \in older : key.identity \in DOMAIN rows /\ key \in written
    BY <1>3, <1>4 DEF KeysOf, Key
<1>8. DOMAIN store'.messages \subseteq MessageKey
    BY <1>1, TablesType DEF Kept, Sound
<1>9. outdated' \in PartialFunctions(MessageKey, Flags)
  <2>1. PICK held : held = ((DOMAIN outdated \ written) \union older)
                               \intersect DOMAIN store'.messages
      OBVIOUS
  <2>2. /\ DOMAIN outdated' = held /\ held \subseteq MessageKey
        /\ \A key \in held : outdated'[key] = IF key \in older THEN rows[key.identity]
                                              ELSE outdated[key]
      BY <1>6, <1>8, <2>1
  <2>3. \A key \in held : (IF key \in older THEN rows[key.identity] ELSE outdated[key]) \in Flags
      BY <1>4, <1>5, <1>7, <2>1
  <2>4. outdated' \in [held -> Flags]
      BY <1>6, <2>1, <2>3
  <2> QED BY <2>2, <2>4, PartialFunctionType
<1>10. ASSUME NEW g \in FolderRef, NEW m, m \in HeldIn(store', g)
       PROVE  StoredFlags(g, m)' = IF g.account = account /\ m \in DOMAIN arrived
                                   THEN BatchFlags(m) ELSE StoredFlags(g, m)
  <2>1. PICK k : k = Key(g.account, m)
      OBVIOUS
  <2>2. k \in DOMAIN store'.messages /\ k.identity = m
      BY <1>1, <1>10, <2>1, HeldIsStored DEF Kept, Key
  <2>3. /\ k \in written <=> g.account = account /\ m \in DOMAIN arrived
        /\ k \in older <=> g.account = account /\ m \in DOMAIN rows
      BY <1>3, <2>1 DEF KeysOf, Key
  <2>4. StoredFlags(g, m)' = IF k \in DOMAIN outdated' THEN outdated'[k]
                             ELSE store'.messages[k].server
      BY <2>1 DEF StoredFlags
  <2>5. IF k \in written THEN store'.messages[k].server = arrived[m].flags
        ELSE store'.messages[k] = store.messages[k]
      BY <1>1, <1>2, <1>3, <2>2 DEF ShowsTheArrived
  <2>6. CASE k \in older
    <3>1. StoredFlags(g, m)' = rows[m]
        BY <1>6, <2>2, <2>4, <2>6
    <3> QED BY <1>2, <1>4, <2>3, <2>6, <3>1 DEF BatchFlags
  <2>7. CASE k \in written /\ k \notin older
    <3>1. StoredFlags(g, m)' = arrived[m].flags
        BY <1>6, <2>4, <2>5, <2>7
    <3> QED BY <1>2, <2>3, <2>7, <3>1 DEF BatchFlags
  <2>8. CASE k \notin written
    <3>1. k \in DOMAIN outdated' <=> k \in DOMAIN outdated
        BY <1>6, <1>7, <2>2, <2>8
    <3>2. k \in DOMAIN outdated => outdated'[k] = outdated[k]
        BY <1>6, <1>7, <2>2, <2>8
    <3>3. StoredFlags(g, m) = IF k \in DOMAIN outdated THEN outdated[k]
                              ELSE store.messages[k].server
        BY <2>1 DEF StoredFlags
    <3> QED BY <2>3, <2>4, <2>5, <2>8, <3>1, <3>2, <3>3
  <2> QED BY <2>6, <2>7, <2>8
<1> QED BY <1>2, <1>9, <1>10

\* The types hold after a page, and a saved page link is a first reading's.
LEMMA StorePageTypes ==
    ASSUME LinksArePlaces, Types, CycleProves, StorePage
    PROVE  StoreTypes' /\ CycleTypes'
<1>1. /\ cycle.phase = "page" /\ cycle.again = {} /\ Running
      /\ CycleRecord(cycle) /\ cycle.completes = FALSE
      /\ Kept(store') /\ StateAfterPage \in FolderState
      /\ store'.folders = [store.folders EXCEPT ![cycle.folder] = StateAfterPage]
      /\ DOMAIN cycle' = CycleFields
      /\ cycle'.phase = IF ~LastPage /\ cycle.reading = "Round" THEN "reading" ELSE "sending"
      /\ cycle'.from = cycle.next /\ cycle'.completes = Completes
      /\ cycle'.reading = IF LastPage /\ ~Completes THEN "Round" ELSE cycle.reading
      /\ cycle'.round_start = IF LastPage /\ ~Completes THEN cycle.next ELSE cycle.round_start
      /\ cycle'.batch = EmptyBatch /\ cycle'.outdated = NoRows
      /\ cycle'.changes \subseteq PendingChange
      /\ \A i \in {"folder", "stored", "named", "listed", "next", "again", "command",
                   "answer"} : cycle'[i] = cycle[i]
    BY PageStored
<1>2. /\ cycle'.folder = cycle.folder /\ cycle'.stored = cycle.stored
      /\ cycle'.listed = cycle.listed /\ cycle'.next = cycle.next
      /\ cycle'.again = {} /\ cycle'.command = cycle.command /\ cycle'.answer = cycle.answer
    BY <1>1
<1>3. cycle.next \in Links /\ (LastPage => cycle.next \in Positions)
    BY <1>1 DEF CycleRecord, Links, Positions, Pages, LastPage
<1>4. CycleTypes'
  <2>1. Completes \in BOOLEAN
      BY DEF Completes, LastPage
  <2>2. cycle'.reading \in Readings /\ cycle'.round_start \in {NoPlace} \union Positions
      BY <1>1, <1>3 DEF CycleRecord, Readings
  <2>3. cycle'.phase \in Phases \ {"idle"} /\ cycle'.phase # "page"
      BY <1>1 DEF Phases
  <2>4. /\ BatchTypes(cycle'.batch) /\ cycle'.again \subseteq MessageId
        /\ OutdatedTypes(cycle'.batch, cycle'.outdated)
      BY <1>1, <1>2, EmptyBatchTypes
  <2> QED BY <1>1, <1>2, <1>3, <2>1, <2>2, <2>3, <2>4 DEF CycleTypes, CycleRecord
<1>5. StoreTypes'
  <2>1. DOMAIN store'.folders = FolderRef
      BY <1>1 DEF Types, StoreTypes
  <2>2. ASSUME NEW f \in FolderRef
        PROVE  /\ store'.folders[f].place
                    \in {NoPlace} \union Positions \union {p \in Pages : p.first}
               /\ store'.folders[f].synchronized => store'.folders[f].place \in Positions
    <3>1. CASE f # cycle.folder
        BY <1>1, <3>1 DEF Types, StoreTypes, SavedPlace
    <3>2. CASE f = cycle.folder
      <4>1. store'.folders[f] = StateAfterPage
          BY <1>1, <3>2 DEF Types, StoreTypes
      <4>2. /\ StateAfterPage.synchronized = Completes
            /\ StateAfterPage.place =
                  IF LastPage \/ cycle.reading \in {"FirstFill", "ContinuedFill"}
                  THEN cycle.next ELSE cycle.round_start
          BY DEF StateAfterPage
      <4>3. Completes => LastPage
          BY DEF Completes
      <4>4. Onward = cycle.next
          BY <1>1 DEF Onward
      <4>5. cycle.reading \in {"FirstFill", "ContinuedFill"} /\ ~LastPage =>
                cycle.next \in Pages /\ cycle.next.first
          BY <1>1, <1>3, <3>2, <4>4 DEF CycleProves, ReadingsGoOn, Links, Positions, Pages,
                                        LastPage
      <4>6. cycle.round_start \in {NoPlace} \union Positions
          BY <1>1 DEF CycleRecord
      <4> QED BY <1>3, <4>1, <4>2, <4>3, <4>5, <4>6
    <3> QED BY <3>1, <3>2
  <2>3. outdated' \in PartialFunctions(MessageKey, Flags)
      BY ShownAfterPage
  <2> QED BY <1>1, <2>1, <2>2, <2>3 DEF StoreTypes, SavedPlace
<1> QED BY <1>4, <1>5

\* The store shows what the page proves once it is stored; what a full
\* reading has not listed at its end goes, and until then stays.
LEMMA PageShown ==
    ASSUME LinksArePlaces, Types, SavedProves, CycleProves, StorePage,
           NEW f \in FolderRef, cycle.folder = f, NEW m \in MessageId
    PROVE  /\ Covered(f, cycle.next, m) =>
                  \/ Agrees(f, m)'
                  \/ Rereading /\ ~LastPage /\ where[m] # f /\ ~InBatch(m)
           /\ Agrees(f, m) /\ ~InBatch(m) /\ ~LastPage => Agrees(f, m)'
<1>1. /\ cycle.phase = "page" /\ cycle.again = {} /\ Running
      /\ CycleRecord(cycle) /\ cycle.completes = FALSE
      /\ UNCHANGED <<where, flags, changed, clock>>
      /\ Kept(store')
      /\ HeldIn(store', f) = (HeldIn(store, f) \ (cycle.batch.removed \union Unlisted))
                             \union DOMAIN cycle.batch.arrived
    BY PageStored
<1>2. OnwardProves(f) /\ ReadingsCompare(f) /\ Onward = cycle.next /\ Onward.kind # "first"
    BY <1>1 DEF CycleProves, Onward, CycleRecord, Links, Positions, Pages
<1>3. /\ cycle.batch.removed \intersect DOMAIN cycle.batch.arrived = {}
      /\ \A i : InBatch(i) <=> i \in cycle.batch.removed \union DOMAIN cycle.batch.arrived
    BY <1>1 DEF CycleRecord, BatchTypes, InBatch
<1>4. ASSUME m \in DOMAIN cycle.batch.arrived
      PROVE  m \in HeldIn(store', f) /\ StoredFlags(f, m)' = BatchFlags(m)
  <2>1. m \in HeldIn(store', f)
      BY <1>1, <1>4
  <2> QED BY <1>4, <2>1, ShownAfterPage
<1>5. ASSUME ~InBatch(m), m \notin Unlisted, Agrees(f, m)
      PROVE  Agrees(f, m)'
  <2>1. m \in HeldIn(store', f) <=> m \in HeldIn(store, f)
      BY <1>1, <1>3, <1>5
  <2>2. ASSUME m \in HeldIn(store', f)
        PROVE  StoredFlags(f, m)' = StoredFlags(f, m)
      BY <1>3, <1>5, <2>2, ShownAfterPage
  <2> QED BY <1>1, <1>5, <2>1, <2>2 DEF Agrees
<1>6. ASSUME Covered(f, cycle.next, m)
      PROVE  \/ Agrees(f, m)'
             \/ Rereading /\ ~LastPage /\ where[m] # f /\ ~InBatch(m)
  <2>1. PageProves(f, m)
      BY <1>2, <1>6 DEF OnwardProves
  <2>2. CASE m \in DOMAIN cycle.batch.arrived
      BY <1>1, <1>4, <2>1, <2>2 DEF PageProves, Agrees
  <2>3. CASE m \in cycle.batch.removed
    <3>1. m \notin HeldIn(store', f) /\ where[m] # f
        BY <1>1, <1>3, <2>1, <2>3 DEF PageProves
    <3> QED BY <1>1, <3>1 DEF Agrees
  <2>4. CASE ~InBatch(m)
    <3>1. Agrees(f, m) \/ (Rereading /\ where[m] # f)
        BY <1>1, <2>1, <2>4 DEF PageProves
    <3>2. Rereading => (where[m] = f <=> m \in cycle.listed)
        BY <2>1 DEF PageProves
    <3>3. CASE where[m] = f
      <4>1. m \notin Unlisted
          BY <1>1, <3>2, <3>3 DEF Unlisted, Rereading
      <4> QED BY <1>5, <2>4, <3>1, <3>3, <4>1
    <3>4. CASE where[m] # f /\ Rereading /\ LastPage
      <4>1. Unlisted = cycle.stored \ cycle.listed
          BY <3>4 DEF Unlisted, Rereading
      <4>2. m \in HeldIn(store, f) => m \in Unlisted
          BY <1>2, <3>2, <3>4, <4>1 DEF ReadingsCompare
      <4>3. m \notin HeldIn(store', f)
          BY <1>1, <1>3, <2>4, <4>2
      <4> QED BY <1>1, <3>4, <4>3 DEF Agrees
    <3>5. CASE where[m] # f /\ ~Rereading
      <4>1. m \notin Unlisted
          BY <1>1, <3>5 DEF Unlisted, Rereading
      <4> QED BY <1>5, <2>4, <3>1, <3>5, <4>1
    <3> QED BY <2>4, <3>3, <3>4, <3>5
  <2> QED BY <1>3, <2>2, <2>3, <2>4
<1>7. ASSUME Agrees(f, m), ~InBatch(m), ~LastPage
      PROVE  Agrees(f, m)'
  <2>1. m \notin Unlisted
      BY <1>7 DEF Unlisted
  <2> QED BY <1>5, <1>7, <2>1
<1> QED BY <1>6, <1>7

\* What stays of the place a folder's saved state keeps while a reading goes
\* on: nothing its round start covers is disturbed by a page.
LEMMA RoundStartStays ==
    ASSUME LinksArePlaces, Types, SavedProves, CycleProves, StorePage,
           NEW f \in FolderRef, cycle.folder = f, cycle.round_start # NoPlace,
           ~LastPage, cycle.reading \in {"Round", "FullRereading"},
           NEW m \in MessageId, Covered(f, cycle.round_start, m)
    PROVE  Agrees(f, m)'
<1>1. /\ cycle.phase = "page" /\ cycle.again = {} /\ Running
      /\ CycleRecord(cycle) /\ cycle.completes = FALSE
      /\ UNCHANGED <<where, flags, changed, clock>>
    BY PageStored
<1>2. /\ OnwardProves(f) /\ ReadingsGoOn(f) /\ Onward = cycle.next
      /\ Onward \in Pages /\ Onward.kind = "page"
    BY <1>1 DEF CycleProves, Onward, CycleRecord, LastPage, Links, Positions, Pages
<1>3. /\ cycle.round_start \in Positions /\ cycle.round_start = SavedPlace(f)
      /\ cycle.round_start.since \in Nat /\ Onward.since \in Nat /\ changed[f][m] \in Nat
      /\ cycle.round_start.since <= Onward.since
    BY <1>1, <1>2 DEF ReadingsGoOn, CycleRecord, Positions, Pages, Types, ServiceTypes
<1>4. changed[f][m] <= cycle.round_start.since /\ changed[f][m] <= Onward.since
    BY <1>3 DEF Covered
<1>5. Agrees(f, m)
    BY <1>3 DEF SavedProves
<1>6. CASE m \in Left(Onward)
  <2>1. cycle.reading = "FullRereading"
      BY <1>1, <1>2, <1>3, <1>4, <1>6 DEF ReadingsGoOn
  <2>2. Onward.first
      BY <1>2, <2>1 DEF ReadingsGoOn
  <2>3. ~InBatch(m)
      BY <1>2, <1>6, <2>2 DEF ReadingsGoOn, Left
  <2> QED BY <1>5, <2>3, PageShown
<1>7. CASE m \notin Left(Onward)
  <2>1. Covered(f, cycle.next, m)
      BY <1>2, <1>4, <1>7 DEF Covered
  <2> QED BY <1>5, <2>1, PageShown
<1> QED BY <1>6, <1>7

\* Every saved place proves the store after a page, and so does the link the
\* reading goes on from.
LEMMA StorePageProves ==
    ASSUME LinksArePlaces, Types, SavedProves, CycleProves, StorePage
    PROVE  SavedProves' /\ CycleProves'
<1>1. /\ cycle.phase = "page" /\ cycle.again = {} /\ Running
      /\ CycleRecord(cycle) /\ cycle.completes = FALSE
      /\ UNCHANGED <<where, flags, changed, clock>>
      /\ Kept(store')
      /\ store'.folders = [store.folders EXCEPT ![cycle.folder] = StateAfterPage]
      /\ HeldIn(store', cycle.folder) =
            (HeldIn(store, cycle.folder) \ (cycle.batch.removed \union Unlisted))
            \union DOMAIN cycle.batch.arrived
      /\ OthersHoldTheSame(store, store', cycle.folder)
      /\ cycle'.phase = IF ~LastPage /\ cycle.reading = "Round" THEN "reading" ELSE "sending"
      /\ cycle'.from = cycle.next /\ cycle'.completes = Completes
      /\ cycle'.reading = IF LastPage /\ ~Completes THEN "Round" ELSE cycle.reading
      /\ cycle'.round_start = IF LastPage /\ ~Completes THEN cycle.next ELSE cycle.round_start
      /\ cycle'.batch = EmptyBatch
      /\ \A i \in {"folder", "stored", "named", "listed", "next", "again", "command",
                   "answer"} : cycle'[i] = cycle[i]
    BY PageStored
<1>2. /\ cycle'.folder = cycle.folder /\ cycle'.stored = cycle.stored
      /\ cycle'.listed = cycle.listed /\ cycle'.again = {}
    BY <1>1
<1>3. PICK f \in FolderRef : f = cycle.folder
    BY <1>1 DEF CycleRecord
<1>4. PICK next : next = cycle.next
    OBVIOUS
<1>5. /\ OnwardProves(f) /\ ArrivedFromNowhere(f) /\ ReadingsGoOn(f) /\ ReadingsCompare(f)
      /\ Onward = next /\ Onward' = next
    BY <1>1, <1>3, <1>4 DEF CycleProves, Onward
<1>6. /\ next \in Links /\ next.kind \in {"position", "page"} /\ next.since \in Nat
      /\ LastPage <=> next.kind = "position"
      /\ LastPage <=> next \in Positions
    BY <1>1, <1>4 DEF CycleRecord, Links, Positions, Pages, LastPage
<1>7. next.since <= clock /\ LeftIsThere(f, next)
    BY <1>5, <1>6 DEF OnwardProves
<1>8. Completes <=> LastPage /\ cycle.reading # "ContinuedFill"
    BY DEF Completes
<1>9. ASSUME NEW m \in MessageId, Covered(f, next, m)
      PROVE  \/ Agrees(f, m)'
             \/ Rereading /\ ~LastPage /\ where[m] # f
    BY <1>3, <1>4, <1>9, PageShown
<1>10. /\ SavedPlace(f)' = IF LastPage \/ cycle.reading \in {"FirstFill", "ContinuedFill"}
                           THEN next ELSE cycle.round_start
       /\ \A g \in FolderRef : g # f => SavedPlace(g)' = SavedPlace(g)
    BY <1>1, <1>3, <1>4 DEF SavedPlace, StateAfterPage, Types, StoreTypes
<1>11. SavedProves'
  <2> SUFFICES ASSUME NEW g \in FolderRef, SavedPlace(g)' # NoPlace
               PROVE  (/\ SavedPlace(g).since <= clock
                       /\ LeftIsThere(g, SavedPlace(g))
                       /\ \A m \in MessageId : Covered(g, SavedPlace(g), m) => Agrees(g, m))'
      BY DEF SavedProves
  <2>1. PICK p : p = SavedPlace(g)'
      OBVIOUS
  <2> SUFFICES /\ p.since <= clock /\ LeftIsThere(g, p)
               /\ \A m \in MessageId : Covered(g, p, m) => Agrees(g, m)'
      BY <1>1, <2>1 DEF LeftIsThere, Covered, Left
  <2>2. CASE g # f
    <3>1. p = SavedPlace(g) /\ p # NoPlace
        BY <1>10, <2>1, <2>2
    <3>2. /\ p.since <= clock /\ LeftIsThere(g, p)
          /\ \A m \in MessageId : Covered(g, p, m) => Agrees(g, m)
        BY <3>1 DEF SavedProves
    <3>3. ASSUME NEW m \in MessageId, Covered(g, p, m)
          PROVE  Agrees(g, m)'
      <4>1. Agrees(g, m)
          BY <3>2, <3>3
      <4>2. HeldIn(store', g) = HeldIn(store, g)
          BY <1>1, <1>3, <2>2 DEF OthersHoldTheSame
      <4>3. ASSUME where[m] = g
            PROVE  StoredFlags(g, m)' = StoredFlags(g, m)
        <5>1. m \in HeldIn(store', g)
            BY <4>1, <4>2, <4>3 DEF Agrees
        <5>2. ~(g.account = f.account /\ m \in DOMAIN cycle.batch.arrived)
            BY <1>5, <2>2, <3>1, <3>3, <4>3 DEF ArrivedFromNowhere
        <5> QED BY <1>3, <5>1, <5>2, ShownAfterPage
      <4> QED BY <1>1, <4>1, <4>2, <4>3 DEF Agrees
    <3> QED BY <3>2, <3>3
  <2>3. CASE g = f /\ p = next /\ ~(Rereading /\ ~LastPage)
      BY <1>7, <1>9, <2>3
  <2>4. CASE g = f /\ p = cycle.round_start /\ ~LastPage
             /\ cycle.reading \in {"Round", "FullRereading"}
    <3>1. p \in Positions /\ p = SavedPlace(f) /\ p # NoPlace
        BY <1>1, <1>5, <2>1, <2>4 DEF ReadingsGoOn, CycleRecord
    <3>2. p.since <= clock /\ LeftIsThere(f, p)
        BY <3>1 DEF SavedProves
    <3>3. \A m \in MessageId : Covered(f, p, m) => Agrees(f, m)'
        BY <1>3, <2>4, <3>1, RoundStartStays
    <3> QED BY <2>4, <3>2, <3>3
  <2>5. cycle.reading \in {"FirstFill", "ContinuedFill", "Round", "FullRereading"}
      BY <1>1 DEF CycleRecord, Readings
  <2> QED BY <1>10, <2>1, <2>2, <2>3, <2>4, <2>5 DEF Rereading
<1>12. CycleProves'
  <2> SUFFICES (/\ OnwardProves(f) /\ ArrivedFromNowhere(f) /\ ReadingsGoOn(f)
                /\ ReadingsCompare(f) /\ AcceptedIsHeld(f))'
    <3>1. \A g \in FolderRef : cycle'.folder = g => g = f
        BY <1>2, <1>3
    <3> QED BY <3>1 DEF CycleProves
  <2>1. /\ DOMAIN cycle'.batch.arrived = {} /\ cycle'.batch.removed = {}
        /\ \A m : ~InBatch(m)'
      BY <1>1 DEF EmptyBatch, NoRows, InBatch
  <2>2. Rereading' <=> Rereading /\ ~LastPage
    <3>1. cycle'.reading = "FullRereading" <=> cycle.reading = "FullRereading"
        BY <1>1, <1>8
    <3>2. cycle.reading = "FullRereading" => (Completes <=> LastPage)
        BY <1>8
    <3> QED BY <1>1, <3>1, <3>2 DEF Rereading
  <2>3. OnwardProves(f)'
    <3>1. ASSUME NEW m \in MessageId, Covered(f, next, m)
          PROVE  PageProves(f, m)'
      <4>1. PageProves(f, m)
          BY <1>5, <1>6, <3>1 DEF OnwardProves
      <4>2. Rereading' => (where'[m] = f <=> m \in cycle'.listed)
          BY <1>1, <1>2, <2>2, <4>1 DEF PageProves
      <4>3. Agrees(f, m)' \/ (Rereading' /\ where'[m] # f)
          BY <1>1, <1>9, <2>2, <3>1
      <4> QED BY <2>1, <4>2, <4>3 DEF PageProves
    <3>2. LeftIsThere(f, next)' /\ next.since <= clock'
        BY <1>1, <1>7 DEF LeftIsThere
    <3>3. \A m \in MessageId : Covered(f, next, m)' => Covered(f, next, m)
        BY <1>1 DEF Covered, Left
    <3>4. LeftIsThere(f, Onward)'
        BY <1>5, <3>2 DEF LeftIsThere
    <3>5. \A m \in MessageId : Covered(f, Onward, m)' => Covered(f, next, m)'
        BY <1>5 DEF Covered, Left
    <3> QED BY <1>5, <3>1, <3>2, <3>3, <3>4, <3>5 DEF OnwardProves
  <2>4. ArrivedFromNowhere(f)'
      BY <2>1 DEF ArrivedFromNowhere
  <2>5. ReadingsGoOn(f)'
    <3>1. Left(Onward)' = Left(next)
        BY <1>5 DEF Left
    <3>2. LastPage => Left(next) = {}
        BY <1>6 DEF Left
    <3>3. next # NoPlace
        BY <1>6 DEF LinksArePlaces
    <3>4. /\ cycle.round_start # NoPlace => cycle.round_start.since <= next.since
          /\ cycle.round_start \in {NoPlace, SavedPlace(f)}
          /\ cycle.reading \in {"FirstFill", "ContinuedFill"} => cycle.round_start = NoPlace
          /\ next.kind = "page" => (next.first <=> cycle.reading # "Round")
          /\ cycle.reading = "Round" =>
                /\ cycle.round_start # NoPlace
                /\ \A m \in Left(next) : changed[f][m] > cycle.round_start.since
        BY <1>1, <1>5, <1>6 DEF ReadingsGoOn
    <3>5. CASE LastPage /\ Completes
      <4>1. cycle'.phase = "sending" /\ cycle'.completes = TRUE
            /\ cycle'.reading = cycle.reading /\ cycle'.round_start = cycle.round_start
          BY <1>1, <1>8, <3>5 DEF Completes
      <4> QED BY <1>5, <1>6, <3>4, <3>5, <4>1 DEF ReadingsGoOn
    <3>6. CASE LastPage /\ ~Completes
      <4>1. cycle'.phase = "sending" /\ ~cycle'.completes
            /\ cycle'.reading = "Round" /\ cycle'.round_start = next /\ SavedPlace(f)' = next
          BY <1>1, <1>4, <1>10, <3>6
      <4> QED BY <1>5, <1>6, <3>1, <3>2, <3>3, <3>6, <4>1 DEF ReadingsGoOn
    <3>7. CASE ~LastPage
      <4>1. ~cycle'.completes
            /\ cycle'.reading = cycle.reading /\ cycle'.round_start = cycle.round_start
          BY <1>1, <1>8, <3>7
      <4>2. cycle'.phase \in {"reading", "sending"} /\ cycle'.again = {}
          BY <1>1, <1>2
      <4>3. cycle.round_start \in {NoPlace, SavedPlace(f)'}
        <5>1. cycle.reading \in {"FirstFill", "ContinuedFill", "Round", "FullRereading"}
            BY <1>1 DEF CycleRecord, Readings
        <5> QED BY <1>10, <3>4, <3>7, <5>1
      <4>4. next.kind = "page"
          BY <1>6, <3>7
      <4> QED BY <1>1, <1>5, <2>1, <3>1, <3>4, <4>1, <4>2, <4>3, <4>4 DEF ReadingsGoOn
    <3> QED BY <3>5, <3>6, <3>7
  <2>6. ReadingsCompare(f)'
    <3>1. Rereading /\ ~LastPage =>
              HeldIn(store', f) \subseteq cycle.stored \union cycle.listed
        BY <1>1, <1>3, <1>5 DEF ReadingsCompare
    <3>2. HeldIn(store, f)' = HeldIn(store', f)
        OBVIOUS
    <3> QED BY <1>2, <1>5, <1>6, <2>1, <2>2, <3>1, <3>2 DEF ReadingsCompare
  <2>7. AcceptedIsHeld(f)'
      BY <1>1 DEF AcceptedIsHeld
  <2> QED BY <2>3, <2>4, <2>5, <2>6, <2>7
<1> QED BY <1>11, <1>12

-----------------------------------------------------------------------------
(* The invariant.                                                          *)

\* Whatever mail there is at first, the empty store and no cycle prove what
\* they say, which is nothing.
LEMMA InvariantAtFirst ==
    ASSUME LinksArePlaces, Init
    PROVE  Invariant
<1>1. ~Running
    BY DEF Init, Running
<1>2. ServiceTypes
    BY DEF Init, ServiceInit, ServiceTypes, Flags
<1>3. /\ store = [folders |-> [f \in FolderRef |-> NeverSynchronized],
                  messages |-> NoRows, memberships |-> {}]
    BY DEF Init, EmptyStore
<1>4. StoreTypes
  <2>1. NeverSynchronized \in FolderState /\ NeverSynchronized.synchronized = FALSE
        /\ NeverSynchronized.place = NoPlace
      BY NoPlaceAssumption DEF NeverSynchronized, FolderState
  <2>2. Kept(store)
    <3>1. DOMAIN NoRows = {} /\ NoRows \in [{} -> MessageRow]
        BY DEF NoRows
    <3>2. Sound(store)
        BY <1>3, <2>1, <3>1, TablesType DEF Sound, ReferencesHold
    <3>3. NoOrphans(store)
        BY <1>3, <3>1 DEF NoOrphans
    <3> QED BY <3>2, <3>3 DEF Kept
  <2>3. outdated \in PartialFunctions(MessageKey, Flags)
    <3>1. outdated = NoRows
        BY DEF Init
    <3>2. DOMAIN NoRows \subseteq MessageKey /\ NoRows \in [DOMAIN NoRows -> Flags]
        BY DEF NoRows
    <3> QED BY <3>1, <3>2, PartialFunctionType
  <2> QED BY <1>3, <2>1, <2>2, <2>3 DEF StoreTypes, SavedPlace
<1>5. \A f \in FolderRef : SavedPlace(f) = NoPlace
    BY <1>3 DEF SavedPlace, NeverSynchronized
<1>6. CounterTypes
    BY CycleAssumption DEF Init, CounterTypes
<1> QED BY <1>1, <1>2, <1>4, <1>5, <1>6 DEF Invariant, Types, CycleTypes, SavedProves, CycleProves

\* The counters keep to their bounds.
LEMMA CountersStay ==
    ASSUME CounterTypes, [Next]_vars
    PROVE  CounterTypes'
<1>1. /\ faults' = faults \/ (faults < MaxFaults /\ faults' = faults + 1)
      /\ wishes' = wishes \/ (wishes < MaxWishes /\ wishes' = wishes + 1)
  <2>1. CASE SendChange
      BY <2>1 DEF SendChange, Fault
  <2>2. CASE ReadChanges
      BY <2>2 DEF ReadChanges, Fault
  <2>3. ASSUME [Next]_vars, ~SendChange, ~ReadChanges
        PROVE  /\ faults' = faults \/ (faults < MaxFaults /\ faults' = faults + 1)
               /\ wishes' = wishes \/ (wishes < MaxWishes /\ wishes' = wishes + 1)
      BY <2>3 DEF Next, CycleStep, vars, Start, PositionRejected, StorePage, ReadInFolder,
                  TakeAnswer, GoOn, Finish, EndEarly, UserWishes, MailChanges, Fault
  <2> QED BY <2>1, <2>2, <2>3
<1> QED BY <1>1, CycleAssumption DEF CounterTypes

\* No step breaks what a saved place and a running cycle prove.
LEMMA InvariantStays ==
    ASSUME LinksArePlaces, Invariant, [Next]_vars
    PROVE  Invariant'
<1> USE DEF Invariant
<1>1. ServiceTypes' /\ ServiceMoves /\ CounterTypes'
    BY EveryStepMoves, CountersStay DEF Types
<1> SUFFICES StoreTypes' /\ CycleTypes' /\ SavedProves' /\ CycleProves'
    BY <1>1 DEF Types
<1>2. ASSUME store' = store, outdated' = outdated
      PROVE  StoreTypes' /\ RowsStay /\ SavedProves'
  <2>1. StoreTypes'
      BY <1>2 DEF Types, StoreTypes, SavedPlace
  <2>2. RowsStay
      BY <1>1, <1>2, SameRowsStay DEF Types, StoredFlags
  <2> QED BY <1>1, <2>1, <2>2, SavedRests DEF Types
<1>3. ASSUME ~Running'
      PROVE  CycleTypes' /\ CycleProves'
    BY <1>3 DEF CycleTypes, CycleProves
<1>4. ASSUME NEW f \in FolderRef, Start(f)
      PROVE  StoreTypes' /\ CycleTypes' /\ SavedProves' /\ CycleProves'
  <2>1. store' = store /\ outdated' = outdated
      BY <1>4 DEF Start
  <2> QED BY <1>2, <1>4, <2>1, StartTypes, StartProves DEF Types, CycleTypes
<1>5. CASE PositionRejected
  <2>1. /\ store' = store /\ outdated' = outdated
        /\ cycle.phase = "reading" /\ cycle' = FullRereading
        /\ UNCHANGED <<serviceVars, store>>
      BY <1>5 DEF PositionRejected
  <2>2. Running
      BY <2>1 DEF Running, Idle
  <2> QED BY <1>2, <2>1, <2>2, RereadTypes, RereadProves DEF Types, CycleTypes
<1>6. CASE ReadChanges
  <2>1. store' = store /\ outdated' = outdated
      BY <1>6 DEF ReadChanges
  <2> QED BY <1>2, <1>6, <2>1, TakenPageProves DEF Types, CycleTypes
<1>7. CASE StorePage
    BY <1>7, StorePageTypes, StorePageProves
<1>8. ASSUME NEW m \in MessageId, ReadInFolder(m)
      PROVE  StoreTypes' /\ CycleTypes' /\ SavedProves' /\ CycleProves'
  <2>1. store' = store /\ outdated' = outdated
      BY <1>8 DEF ReadInFolder
  <2> QED BY <1>2, <1>8, <2>1, ReadAgainTypes, ReadAgainProves DEF Types, CycleTypes
<1>9. CASE SendChange
  <2>1. store' = store /\ outdated' = outdated
      BY <1>9 DEF SendChange
  <2> QED BY <1>2, <1>9, <2>1, SendProves DEF Types
<1>10. CASE TakeAnswer
    BY <1>10, AnswerProves
<1>11. CASE GoOn
  <2>1. /\ store' = store /\ outdated' = outdated
        /\ cycle.phase = "sending" /\ ~cycle.completes /\ Running
        /\ cycle' = [cycle EXCEPT !.phase = "reading"]
      BY <1>11 DEF GoOn, SentAll, Running, Idle
  <2>2. CycleRecord(cycle)
      BY <2>1 DEF Types, CycleTypes
  <2>3. /\ cycle'.phase = "reading" /\ DOMAIN cycle' = CycleFields
        /\ \A i \in CycleFields \ {"phase"} : cycle'[i] = cycle[i]
      BY <2>1, <2>2 DEF CycleRecord, CycleFields
  <2>4. CycleRecord(cycle')
      BY <2>1, <2>2, <2>3 DEF CycleRecord, CycleFields, Phases
  <2>5. ReadingStays
      BY <2>1, <2>3, <2>4 DEF ReadingStays, Running, Idle
  <2>6. \A f \in FolderRef : AcceptedIsHeld(f)'
      BY <2>3 DEF AcceptedIsHeld
  <2> QED BY <1>2, <2>1, <2>4, <2>5, <2>6, StepBesides DEF CycleTypes
<1>12. CASE Finish \/ EndEarly
  <2>1. store' = store /\ outdated' = outdated /\ ~Running'
      BY <1>12 DEF Finish, EndEarly, Running
  <2> QED BY <1>2, <1>3, <2>1
<1>13. ASSUME UNCHANGED cycle, RowsStay, StoreTypes', ServiceMoves
       PROVE  StoreTypes' /\ CycleTypes' /\ SavedProves' /\ CycleProves'
  <2>1. CycleTypes'
      BY <1>13 DEF Types, CycleTypes, CycleRecord, Running
  <2>2. SavedProves'
      BY <1>13, SavedRests DEF Types
  <2>3. CASE ~Running
      BY <1>3, <1>13, <2>2, <2>3 DEF Running
  <2>4. CASE Running
    <3>1. ReadingStays
        BY <1>13, <2>4 DEF ReadingStays, Running
    <3>2. CycleRecord(cycle)
        BY <2>4 DEF Types, CycleTypes
    <3>3. ASSUME NEW f \in FolderRef, cycle.folder = f, AcceptedIsHeld(f)
          PROVE  AcceptedIsHeld(f)'
      <4> SUFFICES ASSUME cycle.phase = "answered", cycle.answer = "2xx",
                          NEW c \in cycle.command, NEW g \in FolderRef,
                          where'[c.identity] = g,
                          \/ /\ SavedPlace(g)' # NoPlace
                             /\ changed'[g][c.identity] <= SavedPlace(g)'.since
                          \/ g = f /\ changed'[g][c.identity] <= Onward'.since
                   PROVE  flags'[c.identity][c.flag] = c.wanted
          BY <1>13 DEF AcceptedIsHeld
      <4>1. Onward' = Onward /\ SavedPlace(g)' = SavedPlace(g)
          BY <1>13 DEF Onward, RowsStay, SavedPlace
      <4>2. c \in PendingChange /\ c.identity \in MessageId
          BY <3>2 DEF CycleRecord, PendingChange
      <4>3. PICK p \in Links : /\ p.since <= clock /\ changed'[g][c.identity] <= p.since
                               /\ \/ SavedPlace(g) # NoPlace /\ p = SavedPlace(g)
                                  \/ g = f /\ p = Onward
        <5>1. SavedPlace(g) # NoPlace => SavedPlace(g) \in Links /\ SavedPlace(g).since <= clock
            BY DEF Types, StoreTypes, SavedProves, Links
        <5>2. Onward \in Links /\ Onward.since <= clock
          <6>1. Onward.kind # "first"
              BY <2>4, <3>3 DEF CycleProves, ReadingsGoOn
          <6>2. Onward \in Links
              BY <3>2, <6>1 DEF CycleRecord, Onward, FirstReading
          <6> QED BY <2>4, <3>3, <6>1, <6>2 DEF CycleProves, OnwardProves
        <5> QED BY <4>1, <5>1, <5>2
      <4>4. /\ changed[g][c.identity] <= p.since
            /\ where'[c.identity] = g <=> where[c.identity] = g
            /\ where[c.identity] = g => flags'[c.identity] = flags[c.identity]
          BY <1>13, <4>2, <4>3, CoveredRests, SinceTypes DEF Types
      <4> QED BY <3>3, <4>3, <4>4 DEF AcceptedIsHeld
    <3>4. \A f \in FolderRef : cycle'.folder = f => AcceptedIsHeld(f)'
        BY <1>13, <2>4, <3>3 DEF CycleProves
    <3> QED BY <1>13, <2>1, <2>2, <3>1, <3>4, ReadingRests DEF Types
  <2> QED BY <2>3, <2>4
<1>14. ASSUME NEW key \in DOMAIN store.messages, NEW flag \in MessageFlag,
              NEW wanted \in BOOLEAN, UserWishes(key, flag, wanted)
       PROVE  StoreTypes' /\ CycleTypes' /\ SavedProves' /\ CycleProves'
  <2>1. store' = WritePendingFlag(store, key.account, key.identity, flag, wanted)
        /\ UNCHANGED cycle /\ outdated' = outdated
      BY <1>14 DEF UserWishes
  <2>2. key.identity \in MessageId
    <3>1. DOMAIN store.messages \subseteq MessageKey
        BY TablesType DEF Types, StoreTypes, Kept, Sound
    <3> QED BY <3>1 DEF MessageKey
  <2>3. PICK id \in MessageId : id = key.identity
      BY <2>2
  <2>4. store' = WritePendingFlag(store, key.account, id, flag, wanted)
      BY <2>1, <2>3
  <2>5. /\ StoreTypes' /\ store'.folders = store.folders
        /\ \A f \in FolderRef : HeldIn(store, f)' = HeldIn(store, f)
        /\ \A f \in FolderRef, m \in MessageId :
              m \in HeldIn(store, f) => StoredFlags(f, m)' = StoredFlags(f, m)
      BY <2>1, <2>4, WishTypes DEF Types
  <2>6. RowsStay
      BY <1>1, <2>5, SameRowsStay DEF Types
  <2> QED BY <1>1, <1>13, <2>1, <2>5, <2>6
<1>15. CASE MailChanges \/ UNCHANGED vars
  <2>1. store' = store /\ outdated' = outdated /\ UNCHANGED cycle
      BY <1>15 DEF MailChanges, vars
  <2> QED BY <1>1, <1>2, <1>13, <2>1
<1> QED BY <1>4, <1>5, <1>6, <1>7, <1>8, <1>9, <1>10, <1>11, <1>12, <1>14, <1>15
        DEF Next, CycleStep

-----------------------------------------------------------------------------
(* What the invariant gives.                                               *)

\* The saved state of every folder and the running cycle keep their types:
\* a synchronized folder has a position, a saved page link is a first
\* reading's, and a batch never both removes and stores a message.
LEMMA TypesHold ==
    ASSUME LinksArePlaces, Invariant
    PROVE  TypeInvariant
<1>1. /\ DOMAIN store.folders = FolderRef
      /\ store.folders \in [DOMAIN store.folders -> FolderState]
      /\ \A k \in DOMAIN store.messages : k \in MessageKey /\ store.messages[k] \in MessageRow
      /\ store.memberships \subseteq Membership
    BY TablesType DEF Invariant, Types, StoreTypes, Kept, Sound
<1>2. ASSUME NEW f \in FolderRef
      PROVE  LET state == store.folders[f] IN
             /\ state \in FolderState
             /\ state.synchronized => state.place # NoPlace /\ state.place.kind = "position"
             /\ state.place # NoPlace /\ state.place.kind = "page" => state.place.first
  <2>1. /\ SavedPlace(f) \in {NoPlace} \union Positions \union {p \in Pages : p.first}
        /\ store.folders[f].synchronized => SavedPlace(f) \in Positions
        /\ NoPlace \notin Positions
      BY DEF Invariant, Types, StoreTypes, LinksArePlaces, Links
  <2> QED BY <1>1, <2>1 DEF SavedPlace, Positions, Pages
<1>3. Running => /\ cycle.phase \in Phases \ {"idle"}
                 /\ cycle.folder \in FolderRef
                 /\ cycle.reading \in Readings
                 /\ cycle.changes \union cycle.command \subseteq PendingChange
                 /\ cycle.batch.removed \intersect DOMAIN cycle.batch.arrived = {}
    BY DEF Invariant, Types, CycleTypes, CycleRecord, BatchTypes
<1>4. faults <= MaxFaults /\ wishes <= MaxWishes
    BY DEF Invariant, Types, CounterTypes
<1> QED BY <1>1, <1>2, <1>3, <1>4 DEF TypeInvariant

\* A saved position proves the store (specs/009 FR-007): a position reports
\* nothing later, so what did not change since is as the service has it.
LEMMA PositionsProve ==
    ASSUME LinksArePlaces, Invariant
    PROVE  PositionProvesTheStore
<1> SUFFICES ASSUME NEW f \in FolderRef, SavedPlace(f) # NoPlace,
                    SavedPlace(f).kind = "position",
                    NEW m \in MessageId, changed[f][m] <= SavedPlace(f).since
             PROVE  Agrees(f, m)
    BY DEF PositionProvesTheStore, SavedPlace
<1>1. Covered(f, SavedPlace(f), m)
    BY DEF Covered, Left
<1> QED BY <1>1 DEF Invariant, SavedProves

\* The inductive invariant, for any number of accounts, folders and messages,
\* any page size and any bounds, with an older entry of a message before or
\* after the page's current one, of any kind: what the saved links, the page in
\* hand and the accepted change prove of the store, where the row of a message
\* its page listed once more as it was counts with its current flags.
THEOREM GraphInvariant ==
    ASSUME LinksArePlaces
    PROVE  Spec => []Invariant
<1>1. Init => Invariant
    BY InvariantAtFirst
<1>2. Invariant /\ [Next]_vars => Invariant'
    BY InvariantStays
<1> QED BY <1>1, <1>2, PTL DEF Spec

\* The types and the saved states' shape.
THEOREM GraphTypes ==
    ASSUME LinksArePlaces
    PROVE  Spec => []TypeInvariant
    BY GraphInvariant, TypesHold, PTL

\* A saved position proves the store, whatever pages, rejections, replays in
\* any order, lost answers and moves by other clients led to it: all of it, but
\* for the flags of the rows outdated by their own page (graph.rs,
\* merge_per_message; specs/009 FR-007, "the last entry received wins").
THEOREM GraphPositionProvesTheStore ==
    ASSUME LinksArePlaces
    PROVE  Spec => []PositionProvesTheStore
    BY GraphInvariant, PositionsProve, PTL

-----------------------------------------------------------------------------
(* How a wish ends.                                                        *)

\* A message read, a batch stored and a change refused touch no other wish:
\* only the user, the answer to that value or the message's own leaving end
\* one.
LEMMA WishEnds ==
    ASSUME LinksArePlaces, Invariant, [Next]_vars,
           NEW key \in DOMAIN store.messages, NEW g \in MessageFlag, NEW v \in BOOLEAN,
           key \in DOMAIN store'.messages, LosesWish(store, store', key, g, v)
    PROVE  \/ UserWishes(key, g, ~v)
           \/ /\ TakeAnswer /\ cycle.answer # "none"
              /\ [identity |-> key.identity, flag |-> g, wanted |-> v] \in cycle.command
<1>1. /\ Kept(store) /\ Sound(store)
      /\ DOMAIN store.messages \subseteq MessageKey
    BY TablesType DEF Invariant, Types, StoreTypes, Kept, Sound
<1>2. key \in MessageKey /\ key.identity \in MessageId
    BY <1>1 DEF MessageKey
<1>3. ASSUME NEW k \in DOMAIN store.messages, NEW flag \in MessageFlag, NEW wanted \in BOOLEAN,
             UserWishes(k, flag, wanted)
      PROVE  UserWishes(key, g, ~v)
  <2>1. PICK account, id : account = k.account /\ id = k.identity
      OBVIOUS
  <2>2. key = Key(account, id) /\ g = flag /\ v # wanted
    <3>1. store' = WritePendingFlag(store, account, id, flag, wanted)
        BY <1>3, <2>1 DEF UserWishes
    <3>2. LosesTheOther(store, store', Key(account, id), flag, wanted)
        BY <1>1, <3>1, WishRows
    <3> QED BY <3>2, Zenon DEF LosesTheOther
  <2>3. k \in MessageKey
      BY <1>1
  <2>4. key = k
      BY <2>1, <2>2, <2>3 DEF Key, MessageKey
  <2>5. wanted = ~v
      BY <2>2
  <2> QED BY <1>3, <2>2, <2>4, <2>5
<1>4. ASSUME TakeAnswer
      PROVE  /\ cycle.answer # "none"
             /\ [identity |-> key.identity, flag |-> g, wanted |-> v] \in cycle.command
  <2>1. PICK c \in cycle.command :
           store' = IF cycle.answer = "2xx"
                    THEN SettleFlags(store, cycle.folder.account, {c.identity}, c.flag, c.wanted)
                    ELSE IF RefusesTheChange(cycle.answer)
                    THEN DropPendingFlags(store, cycle.folder.account, {c.identity}, c.flag,
                                          c.wanted)
                    ELSE store
      BY <1>4 DEF TakeAnswer
  <2>2. CycleRecord(cycle)
      BY <1>4 DEF TakeAnswer, Running, Idle, Invariant, Types, CycleTypes
  <2>3. c \in PendingChange
      BY <2>2 DEF CycleRecord
  <2>4. PICK id \in MessageId, flag \in MessageFlag, value \in BOOLEAN :
           c = [identity |-> id, flag |-> flag, wanted |-> value]
      BY <2>3 DEF PendingChange
  <2>5. cycle.answer # "none"
      BY <2>1 DEF RefusesTheChange, LosesWish
  <2>6. store' \in {SettleFlags(store, cycle.folder.account, {id}, flag, value),
                    DropPendingFlags(store, cycle.folder.account, {id}, flag, value)}
      BY <2>1, <2>2, <2>4, <2>5 DEF RefusesTheChange, CycleRecord
  <2>7. LosesOnly(store, store', KeysOf(cycle.folder.account, {id}), flag, value)
      BY <1>1, <2>6, AnswerRows
  <2>8. key \in KeysOf(cycle.folder.account, {id}) /\ g = flag /\ v = value
      BY <2>7, Zenon DEF LosesOnly
  <2>9. key.identity = id
      BY <2>8 DEF KeysOf, Key
  <2> QED BY <2>4, <2>5, <2>8, <2>9
<1>5. ASSUME StorePage
      PROVE  FALSE
  <2>1. Running /\ cycle.phase = "page" /\ cycle.completes = FALSE
      BY <1>5, PageStored DEF Invariant
  <2>2. CycleRecord(cycle) /\ cycle.folder \in FolderRef
      BY <2>1 DEF Invariant, Types, CycleTypes, CycleRecord
  <2>3. Rereading => DOMAIN cycle.batch.arrived \subseteq cycle.listed
      BY <2>1, <2>2 DEF Invariant, CycleProves, ReadingsCompare
  <2>4. PageBatch \in FolderBatch /\ PageBatch.removed \intersect DOMAIN PageBatch.arrived = {}
      BY <2>1, <2>3, PageBatchTypes DEF Invariant, Types
  <2>5. store' = StoreBatch(store, cycle.folder, PageBatch)
      BY <1>5 DEF StorePage, PageBatch
  <2>6. cycle.folder \in DOMAIN store.folders
      BY <2>2 DEF Invariant, Types, StoreTypes
  <2>7. RowsGoOn(store, store')
      BY <1>1, <2>4, <2>5, <2>6, StoreBatchRows
  <2> QED BY <2>7 DEF RowsGoOn, LosesWish
<1>6. store' # store
    BY DEF LosesWish
<1>7. \/ \E k \in DOMAIN store.messages, flag \in MessageFlag, wanted \in BOOLEAN :
            UserWishes(k, flag, wanted)
      \/ TakeAnswer \/ StorePage
    BY <1>6 DEF Next, CycleStep, vars, Start, PositionRejected, ReadChanges, ReadInFolder,
                SendChange, GoOn, Finish, EndEarly, MailChanges
<1> QED BY <1>3, <1>4, <1>5, <1>7

\* A wish of a message that stays ends only by the user's other wish or an
\* answer to that very value: no page, lost answer or cycle cut short ends it.
THEOREM GraphWishEndsOnlyWithProof ==
    ASSUME LinksArePlaces
    PROVE  Spec => WishEndsOnlyWithProof
<1> DEFINE Inner ==
        \A key \in DOMAIN store.messages, g \in MessageFlag, v \in BOOLEAN :
            LET change == [identity |-> key.identity, flag |-> g, wanted |-> v]
            IN  /\ v \in store.messages[key].pending[g]
                /\ key \in DOMAIN store'.messages => v \notin store'.messages[key].pending[g]
                => \/ UserWishes(key, g, ~v)
                   \/ key \notin DOMAIN store'.messages
                   \/ TakeAnswer /\ change \in cycle.command /\ cycle.answer # "none"
<1>1. Invariant /\ [Next]_vars => [Inner]_vars
  <2> SUFFICES ASSUME Invariant, [Next]_vars
               PROVE  Inner
      OBVIOUS
  <2> SUFFICES ASSUME NEW key \in DOMAIN store.messages, NEW g \in MessageFlag,
                      NEW v \in BOOLEAN, key \in DOMAIN store'.messages,
                      v \in store.messages[key].pending[g],
                      v \notin store'.messages[key].pending[g]
               PROVE  \/ UserWishes(key, g, ~v)
                      \/ /\ TakeAnswer /\ cycle.answer # "none"
                         /\ [identity |-> key.identity, flag |-> g, wanted |-> v]
                                \in cycle.command
      BY Zenon
  <2>1. LosesWish(store, store', key, g, v)
      BY DEF LosesWish
  <2> QED BY <2>1, WishEnds
<1>2. Invariant /\ [Next]_vars => [Inner]_vars
    BY <1>1
<1> QED BY <1>2, GraphInvariant, PTL DEF WishEndsOnlyWithProof, Spec

-----------------------------------------------------------------------------
(* What a cycle has seen of its folder, and what of that it will leave     *)
(* stored.                                                                 *)

\* The history is the service's: what stayed is in the folder, what is in it
\* was seen, with its flags.
SeenHolds(f) ==
    /\ seen.steady \subseteq InFolder(f)
    /\ InFolder(f) \subseteq seen.ever
    /\ FlagValues(f) \subseteq seen.shown

WereShown(m, values) == \A g \in MessageFlag : <<m, g, values[g]>> \in seen.shown

\* A reading begun since the cycle started, from its first page to its end;
\* not a fill that another cycle began.
OwnReading ==
    \/ cycle.completes
    \/ cycle.reading # "ContinuedFill" /\ (cycle.phase = "page" \/ Onward.kind = "page")

\* Once the page is stored, the store holds the message with flags the service
\* held since the cycle started, or an outdated entry in place of such flags.
WillBeMirrored(f, m) ==
    IF m \in DOMAIN cycle.batch.arrived THEN WereShown(m, BatchFlags(m))
    ELSE m \in HeldIn(store, f) /\ WereShown(m, StoredFlags(f, m))

\* A reading's link: what it has reported or need not report will be mirrored,
\* if it stayed; and what changed later was seen.
ReadingMirrors(f) ==
    OwnReading =>
        /\ \A m \in MessageId : changed[f][m] > Onward.since => m \in seen.ever
        /\ \A m \in seen.steady :
              m \notin Left(Onward) /\ m \notin cycle.again => WillBeMirrored(f, m)

\* No page takes out a message that stayed, and a full reading lists it.
SteadyStays ==
    /\ seen.steady \intersect cycle.batch.removed = {}
    /\ Rereading /\ Onward.kind # "first" =>
          seen.steady \subseteq cycle.listed \union Left(Onward)

\* The changes sent are of messages in the folder, and an accepted one's value
\* was shown.
ChangesAreSeen(f) ==
    /\ cycle.phase \in {"sending", "answered"} =>
          \A c \in cycle.changes : c.identity \in HeldIn(store, f)
    /\ cycle.phase = "answered" =>
          \A c \in cycle.command : c.identity \in HeldIn(store, f)
    /\ cycle.phase = "answered" /\ cycle.answer = "2xx" =>
          \A c \in cycle.command :
              c.identity \in seen.steady => <<c.identity, c.flag, c.wanted>> \in seen.shown

Promise ==
    \A f \in FolderRef : Running /\ cycle.folder = f =>
        SeenHolds(f) /\ ReadingMirrors(f) /\ SteadyStays /\ ChangesAreSeen(f)

\* The history goes on with the service's changes.
SeenFollows(f) ==
    /\ seen'.steady \subseteq seen.steady \intersect InFolder(f)'
    /\ seen.ever \union InFolder(f)' \subseteq seen'.ever
    /\ seen.shown \union FlagValues(f)' \subseteq seen'.shown

\* What stayed is a message, and the flags it has were shown.
LEMMA SteadyIsShown ==
    ASSUME ServiceTypes, NEW f \in FolderRef, SeenHolds(f), NEW m \in seen.steady
    PROVE  m \in MessageId /\ where[m] = f /\ WereShown(m, flags[m])
<1>1. m \in InFolder(f) /\ m \in MessageId /\ where[m] = f
    BY DEF SeenHolds, InFolder
<1>2. ASSUME NEW g \in MessageFlag
      PROVE  <<m, g, flags[m][g]>> \in seen.shown
  <2>1. <<m, g, flags[m][g]>> \in FlagValues(f)
      BY <1>1 DEF FlagValues
  <2> QED BY <2>1 DEF SeenHolds
<1> QED BY <1>1, <1>2 DEF WereShown

\* While the reading rests, the service's changes take from what was promised
\* and add to what was seen.
LEMMA ReadingFollows ==
    ASSUME ServiceTypes, ServiceMoves, CycleTypes, ReadingStays,
           NEW f \in FolderRef, cycle.folder = f,
           SeenHolds(f), ReadingMirrors(f), SteadyStays, SeenFollows(f),
           HeldIn(store, f)' = HeldIn(store, f),
           \A m \in HeldIn(store, f) : StoredFlags(f, m)' = StoredFlags(f, m)
    PROVE  SeenHolds(f)' /\ ReadingMirrors(f)' /\ SteadyStays'
<1>1. SeenHolds(f)'
    BY DEF SeenHolds, SeenFollows
<1>2. /\ cycle'.from = cycle.from /\ cycle'.next = cycle.next /\ cycle'.again = cycle.again
      /\ cycle'.batch = cycle.batch /\ cycle'.outdated = cycle.outdated
      /\ cycle'.reading = cycle.reading
      /\ cycle'.completes = cycle.completes /\ cycle'.listed = cycle.listed
      /\ cycle'.phase = "page" <=> cycle.phase = "page"
    BY DEF ReadingStays, CycleFields
<1>3. Onward' = Onward /\ Left(Onward)' = Left(Onward) /\ (OwnReading' <=> OwnReading)
      /\ (Rereading' <=> Rereading)
    BY <1>2 DEF Onward, Left, OwnReading, Rereading
<1>4. SteadyStays'
    BY <1>2, <1>3 DEF SteadyStays, SeenFollows
<1>5. ASSUME OwnReading, NEW m \in MessageId, changed'[f][m] > Onward.since
      PROVE  m \in seen'.ever
  <2>1. CASE where[m] = f \/ where'[m] = f
    <3>1. m \in InFolder(f) \/ m \in InFolder(f)'
        BY <2>1 DEF InFolder
    <3> QED BY <3>1 DEF SeenHolds, SeenFollows
  <2>2. CASE changed'[f][m] = changed[f][m]
    <3>1. m \in seen.ever
        BY <1>5, <2>2 DEF ReadingMirrors
    <3> QED BY <3>1 DEF SeenFollows
  <2> QED BY <2>1, <2>2 DEF ServiceMoves
<1>6. ASSUME OwnReading, NEW m \in seen'.steady, m \notin Left(Onward), m \notin cycle.again
      PROVE  WillBeMirrored(f, m)'
  <2>1. WillBeMirrored(f, m)
      BY <1>6 DEF ReadingMirrors, SeenFollows
  <2>2. \A values : WereShown(m, values) => \A g \in MessageFlag : <<m, g, values[g]>> \in seen'.shown
      BY DEF WereShown, SeenFollows
  <2> QED BY <1>2, <2>1, <2>2 DEF WillBeMirrored, WereShown, BatchFlags
<1>7. ReadingMirrors(f)'
    BY <1>2, <1>3, <1>5, <1>6 DEF ReadingMirrors
<1> QED BY <1>1, <1>4, <1>7

\* A cycle that starts has seen its folder and read nothing.
LEMMA StartPromise ==
    ASSUME LinksArePlaces, StoreTypes, NEW f \in FolderRef, Start(f)
    PROVE  Promise'
<1> DEFINE start == WhereToStart(store.folders[f], HeldIn(store, f))
<1>1. /\ seen' = [steady |-> InFolder(f), ever |-> InFolder(f), shown |-> FlagValues(f)]
      /\ UNCHANGED <<where, flags, changed, clock, store>>
    BY DEF Start, serviceVars
<1>2. /\ cycle'.phase = "reading" /\ cycle'.folder = f /\ cycle'.completes = FALSE
      /\ cycle'.from = start.from /\ cycle'.reading = start.reading
      /\ cycle'.batch = EmptyBatch
    BY DEF Start
<1>3. /\ start.from.kind = "page" => start.reading = "ContinuedFill"
      /\ start.from.kind # "first" => start.reading # "FullRereading"
    BY DEF WhereToStart, FirstReading
<1>4. SeenHolds(f)'
    BY <1>1 DEF SeenHolds, InFolder, FlagValues
<1>5. Onward' = start.from
    BY <1>2 DEF Onward
<1>6. ReadingMirrors(f)' /\ SteadyStays' /\ ChangesAreSeen(f)'
  <2>1. ~OwnReading' /\ ~(Rereading' /\ Onward'.kind # "first")
      BY <1>2, <1>3, <1>5 DEF OwnReading, Rereading
  <2>2. cycle'.batch.removed = {}
      BY <1>2 DEF EmptyBatch
  <2> QED BY <1>2, <2>1, <2>2 DEF ReadingMirrors, SteadyStays, ChangesAreSeen
<1> QED BY <1>2, <1>4, <1>6 DEF Promise

\* The folder is read from its start.
LEMMA RereadPromise ==
    ASSUME StoreTypes, CycleTypes, CycleProves, Promise, Running, cycle.phase = "reading",
           cycle' = FullRereading, UNCHANGED <<serviceVars, store, seen>>
    PROVE  Promise'
<1>1. CycleRecord(cycle) /\ cycle.folder \in FolderRef
    BY DEF CycleTypes, CycleRecord
<1>2. ~cycle.completes
    BY <1>1 DEF CycleProves, ReadingsGoOn
<1>3. /\ cycle'.phase = "reading" /\ cycle'.folder = cycle.folder
      /\ cycle'.from = FirstReading /\ cycle'.reading = "FullRereading"
      /\ cycle'.batch = EmptyBatch /\ cycle'.completes = cycle.completes
    BY <1>1, NoPageYet DEF FullRereading, CycleRecord, CycleFields
<1>4. Onward'.kind = "first" /\ cycle'.batch.removed = {}
    BY <1>3 DEF Onward, FirstReading, EmptyBatch
<1>5. ~OwnReading'
    BY <1>2, <1>3, <1>4 DEF OwnReading
<1> SUFFICES ASSUME NEW f \in FolderRef, cycle.folder = f
             PROVE  (SeenHolds(f) /\ ReadingMirrors(f) /\ SteadyStays /\ ChangesAreSeen(f))'
    BY <1>3 DEF Promise
<1>6. SeenHolds(f)'
    BY DEF Promise, SeenHolds, InFolder, FlagValues, serviceVars
<1> QED BY <1>3, <1>4, <1>5, <1>6 DEF ReadingMirrors, SteadyStays, ChangesAreSeen

\* What the reading's link covers is as the service has it, unless the folder
\* is read in full.
LEMMA CoveredAgrees ==
    ASSUME CycleTypes, CycleProves, Running, cycle.phase = "reading",
           NEW f \in FolderRef, cycle.folder = f, cycle.from.kind # "first",
           NEW m \in MessageId, where[m] = f, Covered(f, cycle.from, m)
    PROVE  m \in HeldIn(store, f) /\ StoredFlags(f, m) = flags[m]
<1>1. CycleRecord(cycle)
    BY DEF CycleTypes
<1>2. Onward = cycle.from /\ ~InBatch(m) /\ m \notin cycle.again
    BY <1>1, NoPageYet DEF Onward
<1>3. PageProves(f, m)
    BY <1>2 DEF CycleProves, OnwardProves
<1> QED BY <1>2, <1>3 DEF PageProves, Agrees

\* A page taken brings every message that stayed and that the reading has not
\* reported before, or has it read again.
LEMMA TakenPagePromise ==
    ASSUME LinksArePlaces, ServiceTypes, StoreTypes, CycleTypes, CycleProves, Promise,
           ReadChanges
    PROVE  Promise'
<1>1. /\ Running /\ cycle.phase = "reading"
      /\ UNCHANGED <<serviceVars, store, seen, outdated>>
    BY DEF ReadChanges, Running, Idle
<1>2. CycleRecord(cycle) /\ cycle.folder \in FolderRef
      /\ cycle.from \in {FirstReading} \union Links
    BY <1>1 DEF CycleTypes, CycleRecord
<1> DEFINE reading == ReadingAt(cycle.folder, cycle.from)
<1>3. PICK page \in SUBSET reading.left : \E changes :
         /\ PageBrings(cycle.folder, reading, page, changes)
         /\ TakePage(changes, Reports(cycle.folder, reading, page), Link(reading, page))
    BY <1>2, PageIsRead
<1>4. PICK changes :
         /\ PageBrings(cycle.folder, reading, page, changes)
         /\ TakePage(changes, Reports(cycle.folder, reading, page), Link(reading, page))
    BY <1>3
<1>5. PICK r : r = reading
    OBVIOUS
<1>6. /\ r \in Pages /\ page \in SUBSET r.left
      /\ PageBrings(cycle.folder, r, page, changes)
      /\ TakePage(changes, Reports(cycle.folder, r, page), Link(r, page))
      /\ cycle.from.kind = "first" =>
            r.since = clock /\ r.first /\ r.left = InFolder(cycle.folder)
      /\ cycle.from.kind = "position" =>
            /\ r.since = clock /\ ~r.first
            /\ r.left = {m \in MessageId : changed[cycle.folder][m] > cycle.from.since}
      /\ cycle.from.kind = "page" => r = cycle.from
    BY <1>2, <1>3, <1>4, <1>5, ReadingTypes
<1> HIDE DEF reading
<1>7. CASE cycle' = FullRereading
    BY <1>1, <1>7, RereadPromise
<1>8. CASE cycle' # FullRereading
  <2>1. cycle'.folder = cycle.folder
      BY <1>1, <1>6, <1>8, PageFields DEF CycleFields
  <2> SUFFICES ASSUME NEW f \in FolderRef, cycle.folder = f
               PROVE  (SeenHolds(f) /\ ReadingMirrors(f) /\ SteadyStays /\ ChangesAreSeen(f))'
      BY <2>1 DEF Promise
  <2>2. PICK next, batch, again :
           /\ next = Link(r, page) /\ batch = BatchFromChanges(f, changes)
           /\ again = {m \in DOMAIN changes : IsReadAgain(f, m, changes[m])}
      OBVIOUS
  <2>3. /\ next \in Links /\ next.since = r.since /\ Left(next) = r.left \ page
      BY <1>6, <2>2, LinkTypes
  <2>4. /\ cycle'.phase = "page" /\ cycle'.next = next
        /\ cycle'.reading = cycle.reading /\ cycle'.completes = cycle.completes
        /\ cycle'.listed = IF cycle.reading = "FullRereading"
                           THEN cycle.listed \union DOMAIN changes ELSE cycle.listed
        /\ cycle'.again = again /\ cycle'.batch = batch
        /\ cycle'.outdated = StoredOutdated(batch, Reports(f, r, page))
      BY <1>1, <1>6, <1>8, <2>2, PageFields DEF CycleFields
  <2>5. /\ again \union batch.removed \union DOMAIN batch.arrived = DOMAIN changes
        /\ \A m \in batch.removed : where[m] # f
        /\ \A m \in DOMAIN batch.arrived :
              changes[m] = Listed(batch.arrived[m].flags) /\ ~IsReadAgain(f, m, changes[m])
      BY <1>6, <2>2, BatchOfPage, Zenon
  <2>6. /\ DOMAIN changes \subseteq MessageId
        /\ \A m \in page : m \in DOMAIN changes \/ (r.first /\ where[m] # f)
      BY <1>6 DEF PageBrings
  <2>7. Onward' = next
      BY <2>4 DEF Onward
  <2>8. /\ ReadingsGoOn(f) /\ SeenHolds(f) /\ ReadingMirrors(f) /\ SteadyStays
        /\ Onward = cycle.from /\ cycle.again = {} /\ DOMAIN cycle.batch.arrived = {}
      BY <1>1, <1>2, NoPageYet DEF CycleProves, Promise, Onward
  <2>9. /\ cycle.from.kind = "first" => cycle.reading # "Round"
        /\ cycle.from.kind = "position" => cycle.from \in Positions /\ cycle.reading = "Round"
        /\ cycle.from.kind = "page" => cycle.from = r /\ (r.first <=> cycle.reading # "Round")
        /\ cycle.from.kind \in {"first", "position", "page"}
      BY <1>1, <1>2, <1>6, <2>8 DEF ReadingsGoOn, FirstReading, Links, Positions, Pages
  <2>10. r.first <=> cycle.reading # "Round"
      BY <1>6, <2>9
  <2>11. SeenHolds(f)'
      BY <1>1, <2>8 DEF SeenHolds, InFolder, FlagValues, serviceVars
  <2>12. r.since \in Nat /\ clock \in Nat
         /\ \A m \in MessageId : changed[f][m] \in Nat /\ changed[f][m] <= clock
      BY <1>6 DEF Pages, ServiceTypes
  <2>13. OwnReading' /\ cycle.from.kind = "page" => OwnReading
      BY <2>4, <2>8 DEF OwnReading
  <2>14. ASSUME OwnReading', NEW m \in MessageId, changed[f][m] > r.since
         PROVE  m \in seen.ever
    <3>1. cycle.from.kind = "page"
        BY <1>6, <2>9, <2>12, <2>14
    <3> QED BY <2>8, <2>9, <2>13, <2>14, <3>1 DEF ReadingMirrors
  <2>15. ASSUME NEW m \in MessageId, where[m] = f, cycle.from.kind # "first", m \notin r.left,
                changed[f][m] <= r.since \/ cycle.from.kind = "position"
         PROVE  m \in HeldIn(store, f) /\ StoredFlags(f, m) = flags[m]
    <3>1. Covered(f, cycle.from, m)
      <4>1. CASE cycle.from.kind = "position"
        <5>1. cycle.from.since \in Nat /\ ~(changed[f][m] > cycle.from.since)
            BY <1>6, <2>9, <2>15, <4>1 DEF Positions
        <5> QED BY <2>12, <4>1, <5>1 DEF Covered, Left
      <4>2. CASE cycle.from.kind = "page"
          BY <2>9, <2>15, <4>2 DEF Covered, Left
      <4> QED BY <2>9, <2>15, <4>1, <4>2
    <3> QED BY <1>1, <2>15, <3>1, CoveredAgrees
  <2>16. ASSUME OwnReading', NEW m \in seen.steady, m \notin Left(next), m \notin again
         PROVE  IF m \in DOMAIN batch.arrived THEN WereShown(m, BatchFlags(m)')
                ELSE m \in HeldIn(store, f) /\ WereShown(m, StoredFlags(f, m))
    <3>1. m \in MessageId /\ where[m] = f /\ WereShown(m, flags[m])
        BY <2>8, SteadyIsShown
    <3>2. cycle.from.kind = "first" => m \in r.left
        BY <1>6, <2>8, <3>1 DEF SeenHolds
    <3>3. CASE m \in DOMAIN batch.arrived
      <4>1. changes[m] = Listed(batch.arrived[m].flags) /\ m \in DOMAIN changes
            /\ ~IsReadAgain(f, m, changes[m])
          BY <2>5, <3>3
      <4>2. changes[m] # SomeChange /\ changes[m] # Removed /\ changes[m].kind = "Listed"
          BY <4>1 DEF Listed, SomeChange, Changed, Removed
      <4>3. \/ m \in Reports(f, r, page)
            \/ ~r.first /\ m \notin page
          BY <1>6, <4>1, <4>2 DEF PageBrings
      <4>4. CASE m \in Reports(f, r, page)
        <5>1. BatchTypes(batch)
            BY <1>6, <2>2, BatchOfPage
        <5>2. PICK rows : rows = StoredOutdated(batch, Reports(f, r, page))
            OBVIOUS
        <5>3. (IF m \in DOMAIN rows THEN rows[m] ELSE batch.arrived[m].flags) = flags[m]
            BY <3>3, <4>4, <5>1, <5>2, OutdatedOfPage
        <5>4. BatchFlags(m)' = flags[m]
            BY <2>4, <5>2, <5>3 DEF BatchFlags
        <5> QED BY <3>1, <3>3, <5>4
      <4>5. CASE ~r.first /\ m \notin page
        <5>1. m \notin r.left /\ cycle.from.kind # "first"
            BY <1>6, <2>3, <2>16, <4>5
        <5>2. m \in HeldIn(store, f)
          <6>1. CASE cycle.from.kind = "page"
            <7>1. WillBeMirrored(f, m)
                BY <2>8, <2>9, <2>13, <2>16, <5>1, <6>1 DEF ReadingMirrors, Left
            <7> QED BY <2>8, <7>1 DEF WillBeMirrored
          <6>2. CASE cycle.from.kind = "position"
              BY <2>15, <3>1, <5>1, <6>2
          <6> QED BY <2>9, <5>1, <6>1, <6>2
        <5>3. Key(f.account, m) \in DOMAIN store.messages
            BY <5>2, ListedRow
        <5>4. cycle.reading = "Round" /\ StoredIdentities(store, f.account, {m}) # {}
            BY <2>10, <4>5, <5>3 DEF StoredIdentities
        <5> QED BY <4>1, <4>2, <5>4 DEF IsReadAgain
      <4> QED BY <4>3, <4>4, <4>5
    <3>4. CASE m \notin DOMAIN batch.arrived
      <4>1. m \notin DOMAIN changes
          BY <2>5, <2>16, <3>1, <3>4
      <4>2. m \notin r.left
          BY <2>3, <2>6, <2>16, <3>1, <4>1
      <4>3. CASE cycle.from.kind = "page"
        <5>1. WillBeMirrored(f, m)
            BY <2>8, <2>9, <2>13, <2>16, <4>2, <4>3 DEF ReadingMirrors, Left
        <5> QED BY <2>8, <3>4, <5>1 DEF WillBeMirrored
      <4>4. CASE cycle.from.kind = "position"
          BY <2>15, <3>1, <3>4, <4>2, <4>4
      <4> QED BY <2>9, <3>2, <4>2, <4>3, <4>4
    <3> QED BY <3>3, <3>4
  <2>17. ReadingMirrors(f)'
    <3>1. HeldIn(store, f)' = HeldIn(store, f) /\ \A m : StoredFlags(f, m)' = StoredFlags(f, m)
        BY <1>1 DEF StoredFlags
    <3>2. Left(Onward)' = Left(next)
        BY <2>7 DEF Left
    <3> QED BY <1>1, <2>3, <2>4, <2>7, <2>14, <2>16, <3>1, <3>2
            DEF ReadingMirrors, WillBeMirrored, WereShown, serviceVars
  <2>18. SteadyStays'
    <3>1. \A m \in seen.steady : m \in MessageId /\ where[m] = f
        BY <2>8, SteadyIsShown
    <3>2. Rereading' => cycle.from.kind # "position"
        BY <2>4, <2>9 DEF Rereading
    <3>3. Rereading' => cycle'.listed = cycle.listed \union DOMAIN changes
        BY <2>4 DEF Rereading
    <3>4. ASSUME Rereading', NEW m \in seen.steady
          PROVE  m \in cycle'.listed \union Left(next)
      <4>1. m \in cycle.listed \union r.left
        <5>1. CASE cycle.from.kind = "first"
            BY <1>6, <2>8, <5>1 DEF SeenHolds
        <5>2. CASE cycle.from.kind = "page"
            BY <2>4, <2>8, <2>9, <3>4, <5>2 DEF SteadyStays, Rereading, Left
        <5> QED BY <2>9, <3>2, <3>4, <5>1, <5>2
      <4> QED BY <2>3, <2>6, <3>1, <3>3, <3>4, <4>1
    <3>5. Left(Onward)' = Left(next)
        BY <2>7 DEF Left
    <3> QED BY <1>1, <2>4, <2>5, <3>1, <3>4, <3>5 DEF SteadyStays
  <2> QED BY <2>4, <2>11, <2>17, <2>18 DEF ChangesAreSeen
<1> QED BY <1>7, <1>8

\* A message that stayed and is read again is kept as it is.
LEMMA ReadAgainPromise ==
    ASSUME ServiceTypes, StoreTypes, CycleTypes, Promise,
           NEW m \in MessageId, ReadInFolder(m)
    PROVE  Promise'
<1>1. /\ cycle.phase = "page" /\ m \in cycle.again /\ Running
      /\ UNCHANGED <<where, flags, changed, clock, store, seen, outdated>>
    BY DEF ReadInFolder, Running, Idle, serviceVars
<1>2. /\ cycle'.phase = "page" /\ cycle'.again = cycle.again \ {m}
      /\ \A i \in CycleFields \ {"again", "batch"} : cycle'[i] = cycle[i]
      /\ where[m] = cycle.folder =>
            /\ cycle'.batch.removed = cycle.batch.removed
            /\ DOMAIN cycle'.batch.arrived = DOMAIN cycle.batch.arrived \union {m}
            /\ cycle'.batch.arrived[m].flags = flags[m]
            /\ \A i \in DOMAIN cycle.batch.arrived :
                  cycle'.batch.arrived[i] = cycle.batch.arrived[i]
      /\ where[m] # cycle.folder =>
            /\ cycle'.batch.removed = cycle.batch.removed \union {m}
            /\ cycle'.batch.arrived = cycle.batch.arrived
    BY ReadAgainTypes
<1>3. /\ cycle'.folder = cycle.folder /\ cycle'.from = cycle.from /\ cycle'.next = cycle.next
      /\ cycle'.reading = cycle.reading /\ cycle'.listed = cycle.listed
      /\ cycle'.completes = cycle.completes /\ cycle'.outdated = cycle.outdated
    BY <1>2 DEF CycleFields
<1> SUFFICES ASSUME NEW f \in FolderRef, cycle.folder = f
             PROVE  (SeenHolds(f) /\ ReadingMirrors(f) /\ SteadyStays /\ ChangesAreSeen(f))'
    BY <1>3 DEF Promise
<1>4. /\ SeenHolds(f) /\ ReadingMirrors(f) /\ SteadyStays
      /\ m \notin DOMAIN cycle.batch.arrived /\ m \notin DOMAIN cycle.outdated
    BY <1>1 DEF Promise, CycleTypes, CycleRecord, OutdatedTypes
<1>5. /\ Onward' = Onward /\ Left(Onward)' = Left(Onward)
      /\ (OwnReading' <=> OwnReading) /\ (Rereading' <=> Rereading)
    BY <1>1, <1>2, <1>3 DEF Onward, Left, OwnReading, Rereading
<1>6. SeenHolds(f)'
    BY <1>1, <1>4 DEF SeenHolds, InFolder, FlagValues
<1>7. \A i \in seen.steady : i \in MessageId /\ where[i] = f /\ WereShown(i, flags[i])
    BY <1>4, SteadyIsShown
<1>8. SteadyStays'
    BY <1>1, <1>2, <1>3, <1>4, <1>5, <1>7 DEF SteadyStays
<1>9. ASSUME OwnReading, NEW i \in seen.steady, i \notin Left(Onward), i \notin cycle'.again
      PROVE  WillBeMirrored(f, i)'
  <2>1. CASE i = m
    <3>1. i \in DOMAIN cycle'.batch.arrived /\ BatchFlags(i)' = flags[i]
        BY <1>2, <1>3, <1>4, <1>7, <2>1 DEF BatchFlags
    <3> QED BY <1>1, <1>7, <3>1 DEF WillBeMirrored, WereShown
  <2>2. CASE i # m
    <3>1. WillBeMirrored(f, i)
        BY <1>2, <1>4, <1>9, <2>2 DEF ReadingMirrors
    <3>2. i \in DOMAIN cycle'.batch.arrived <=> i \in DOMAIN cycle.batch.arrived
        BY <1>2, <2>2
    <3>3. i \in DOMAIN cycle.batch.arrived => BatchFlags(i)' = BatchFlags(i)
        BY <1>2, <1>3 DEF BatchFlags
    <3>4. HeldIn(store, f)' = HeldIn(store, f) /\ StoredFlags(f, i)' = StoredFlags(f, i)
        BY <1>1 DEF StoredFlags
    <3> QED BY <1>1, <3>1, <3>2, <3>3, <3>4 DEF WillBeMirrored, WereShown
  <2> QED BY <2>1, <2>2
<1>10. ReadingMirrors(f)'
    BY <1>1, <1>4, <1>5, <1>9 DEF ReadingMirrors
<1> QED BY <1>2, <1>6, <1>8, <1>10 DEF ChangesAreSeen

\* What a page leaves of a message: as the batch brings it, or as it was.
LEMMA PageLeaves ==
    ASSUME LinksArePlaces, Types, CycleProves, StorePage,
           NEW f \in FolderRef, cycle.folder = f, NEW m
    PROVE  /\ m \in DOMAIN cycle.batch.arrived =>
                 m \in HeldIn(store', f) /\ StoredFlags(f, m)' = BatchFlags(m)
           /\ m \notin DOMAIN cycle.batch.arrived =>
                 /\ m \in HeldIn(store', f) <=>
                       /\ m \in HeldIn(store, f)
                       /\ m \notin cycle.batch.removed /\ m \notin Unlisted
                 /\ m \in HeldIn(store', f) => StoredFlags(f, m)' = StoredFlags(f, m)
<1>1. HeldIn(store', f) = (HeldIn(store, f) \ (cycle.batch.removed \union Unlisted))
                          \union DOMAIN cycle.batch.arrived
    BY PageStored
<1>2. m \in HeldIn(store', f) =>
          StoredFlags(f, m)' = IF m \in DOMAIN cycle.batch.arrived THEN BatchFlags(m)
                               ELSE StoredFlags(f, m)
    BY ShownAfterPage
<1> QED BY <1>1, <1>2

\* The changes to be sent are of messages the folder holds.
LEMMA PendingIsHeld ==
    ASSUME NEW s, NEW f, NEW c \in ReadPendingChanges(s, f)
    PROVE  c.identity \in HeldIn(s, f)
    BY DEF ReadPendingChanges

\* What stayed is not among what a full reading's last page proves gone.
LEMMA StaysListed ==
    ASSUME CycleRecord(cycle), cycle.phase = "page", ~cycle.completes, SteadyStays
    PROVE  seen.steady \intersect Unlisted = {}
<1>1. CASE Unlisted = {}
    BY <1>1
<1>2. CASE LastPage /\ cycle.reading = "FullRereading"
  <2>1. Onward = cycle.next /\ Onward.kind = "position"
      BY <1>2 DEF Onward, LastPage
  <2>2. Rereading /\ Left(Onward) = {}
      BY <1>2, <2>1 DEF Rereading, Left
  <2>3. seen.steady \subseteq cycle.listed
      BY <2>1, <2>2 DEF SteadyStays
  <2> QED BY <2>3 DEF Unlisted
<1> QED BY <1>1, <1>2 DEF Unlisted

\* A page leaves every message that stayed, and what it reports of it.
LEMMA StorePagePromise ==
    ASSUME LinksArePlaces, Types, CycleProves, Promise, StorePage
    PROVE  Promise'
<1>1. /\ cycle.phase = "page" /\ cycle.again = {} /\ Running
      /\ CycleRecord(cycle) /\ cycle.completes = FALSE
      /\ UNCHANGED <<where, flags, changed, clock>>
      /\ cycle'.phase = IF ~LastPage /\ cycle.reading = "Round" THEN "reading" ELSE "sending"
      /\ cycle'.from = cycle.next /\ cycle'.completes = Completes
      /\ cycle'.reading = IF LastPage /\ ~Completes THEN "Round" ELSE cycle.reading
      /\ cycle'.batch = EmptyBatch
      /\ cycle'.changes \subseteq ReadPendingChanges(store', cycle.folder)
      /\ \A i \in {"folder", "stored", "named", "listed", "next", "again", "command",
                   "answer"} : cycle'[i] = cycle[i]
    BY PageStored
<1>2. /\ cycle'.folder = cycle.folder /\ cycle'.listed = cycle.listed /\ cycle'.again = {}
      /\ cycle'.phase # "page" /\ cycle'.phase # "answered"
      /\ UNCHANGED seen
    BY <1>1 DEF StorePage
<1> SUFFICES ASSUME NEW f \in FolderRef, cycle.folder = f
             PROVE  (SeenHolds(f) /\ ReadingMirrors(f) /\ SteadyStays /\ ChangesAreSeen(f))'
    BY <1>2 DEF Promise
<1>3. SeenHolds(f) /\ ReadingMirrors(f) /\ SteadyStays
    BY <1>1 DEF Promise
<1>4. Onward = cycle.next /\ Onward' = cycle.next /\ Left(Onward)' = Left(Onward)
      /\ Onward \in Links /\ Onward.kind \in {"position", "page"}
    BY <1>1, <1>2 DEF Onward, Left, CycleRecord, Links, Positions, Pages
<1>5. OwnReading' => OwnReading
    BY <1>1, <1>2, <1>4 DEF OwnReading, LastPage, Completes
<1>6. Rereading' => Rereading
    BY <1>1 DEF Rereading
<1>7. SeenHolds(f)'
    BY <1>1, <1>2, <1>3 DEF SeenHolds, InFolder, FlagValues
<1>8. seen.steady \intersect Unlisted = {}
    BY <1>1, <1>3, StaysListed
<1>9. cycle'.batch.removed = {} /\ DOMAIN cycle'.batch.arrived = {}
    BY <1>1 DEF EmptyBatch, NoRows
<1>10. SteadyStays'
    BY <1>2, <1>3, <1>4, <1>6, <1>9 DEF SteadyStays
<1>11. ASSUME OwnReading, NEW m \in seen.steady, m \notin Left(Onward)
       PROVE  WillBeMirrored(f, m)'
  <2>1. WillBeMirrored(f, m)
      BY <1>1, <1>3, <1>11 DEF ReadingMirrors
  <2>2. m \notin Unlisted /\ m \notin cycle.batch.removed
      BY <1>3, <1>8 DEF SteadyStays
  <2>3. m \in HeldIn(store', f) /\ WereShown(m, StoredFlags(f, m)')
      BY <2>1, <2>2, PageLeaves DEF WillBeMirrored
  <2> QED BY <1>2, <1>9, <2>3 DEF WillBeMirrored, WereShown
<1>12. ReadingMirrors(f)'
    BY <1>1, <1>2, <1>3, <1>4, <1>5, <1>11 DEF ReadingMirrors
<1>13. ChangesAreSeen(f)'
    BY <1>1, <1>2, PendingIsHeld DEF ChangesAreSeen
<1> QED BY <1>7, <1>10, <1>12, <1>13

\* A change the service accepts of a message that stayed was shown.
LEMMA SendPromise ==
    ASSUME LinksArePlaces, Types, Promise, SendChange
    PROVE  Promise'
<1>1. cycle.phase = "sending" /\ Running /\ store' = store /\ outdated' = outdated
    BY DEF SendChange, Running, Idle
<1>2. CycleRecord(cycle)
    BY <1>1 DEF Types, CycleTypes
<1>3. PICK c \in cycle.changes, answer \in {"2xx", "4xx", "none"} :
         /\ \/ answer # "4xx" /\ SetFlag(c.identity, c.flag, c.wanted)
            \/ answer # "2xx" /\ UNCHANGED serviceVars
         /\ cycle' = [cycle EXCEPT !.phase = "answered", !.changes = @ \ {c},
                                   !.command = {c}, !.answer = answer]
    BY DEF SendChange
<1>4. /\ c \in PendingChange /\ c.identity \in MessageId /\ c.flag \in MessageFlag
      /\ c.wanted \in BOOLEAN
    BY <1>2 DEF CycleRecord, PendingChange
<1>5. /\ cycle'.phase = "answered" /\ cycle'.changes = cycle.changes \ {c}
      /\ cycle'.command = {c} /\ cycle'.answer = answer
      /\ DOMAIN cycle' = CycleFields
      /\ \A i \in CycleFields \ {"phase", "changes", "command", "answer"} : cycle'[i] = cycle[i]
    BY <1>2, <1>3 DEF CycleRecord, CycleFields
<1>6. ReadingStays /\ cycle'.folder = cycle.folder
    BY <1>1, <1>5 DEF ReadingStays, Running, Idle, CycleFields
<1> SUFFICES ASSUME NEW f \in FolderRef, cycle.folder = f
             PROVE  (SeenHolds(f) /\ ReadingMirrors(f) /\ SteadyStays /\ ChangesAreSeen(f))'
    BY <1>6 DEF Promise
<1>7. SeenHolds(f) /\ ReadingMirrors(f) /\ SteadyStays /\ ChangesAreSeen(f)
    BY <1>1 DEF Promise
<1>8. seen' = [steady |-> seen.steady \intersect InFolder(f)',
               ever   |-> seen.ever \union InFolder(f)',
               shown  |-> seen.shown \union FlagValues(f)']
    BY <1>1, <1>6 DEF SendChange, Watch
<1>9. SeenFollows(f)
    BY <1>8 DEF SeenFollows
<1>10. ServiceTypes /\ ServiceMoves
  <2>1. [Next]_vars
      BY DEF Next, CycleStep
  <2> QED BY <2>1, EveryStepMoves DEF Types
<1>11. SeenHolds(f)' /\ ReadingMirrors(f)' /\ SteadyStays'
    BY <1>1, <1>6, <1>7, <1>9, <1>10, ReadingFollows DEF Types, StoredFlags
<1>12. ChangesAreSeen(f)'
  <2>1. ASSUME answer = "2xx", c.identity \in seen'.steady
        PROVE  <<c.identity, c.flag, c.wanted>> \in seen'.shown
    <3>1. flags'[c.identity][c.flag] = c.wanted
        BY <1>3, <1>4, <2>1, SetFlagMoves DEF Types
    <3>2. c.identity \in InFolder(f)'
        BY <1>11, <2>1 DEF SeenHolds
    <3>3. <<c.identity, c.flag, flags'[c.identity][c.flag]>> \in FlagValues(f)'
        BY <1>4, <3>2 DEF FlagValues
    <3> QED BY <1>11, <3>1, <3>3 DEF SeenHolds
  <2>2. HeldIn(store, f)' = HeldIn(store, f)
      BY <1>1
  <2> QED BY <1>1, <1>5, <1>7, <2>1, <2>2 DEF ChangesAreSeen
<1> QED BY <1>11, <1>12

\* The accepted value is stored: one the service showed.
LEMMA AnswerPromise ==
    ASSUME LinksArePlaces, Types, Promise, TakeAnswer, cycle.answer = "2xx"
    PROVE  Promise'
<1>1. /\ cycle.phase = "answered" /\ Running
      /\ UNCHANGED <<where, flags, changed, clock, seen>>
      /\ cycle' = [cycle EXCEPT !.phase = "sending", !.command = {}]
    BY DEF TakeAnswer, Running, Idle, serviceVars
<1>2. CycleRecord(cycle)
    BY <1>1 DEF Types, CycleTypes
<1>3. /\ \A f \in FolderRef : HeldIn(store, f)' = HeldIn(store, f)
      /\ \A f \in FolderRef : \A m \in HeldIn(store, f) : StoredFlags(f, m) \in Flags
    BY <1>2, AnsweredRows DEF Types
<1>4. PICK id \in MessageId, flag \in MessageFlag, value \in BOOLEAN :
         /\ [identity |-> id, flag |-> flag, wanted |-> value] \in cycle.command
         /\ FlagShown(cycle.folder.account, id, flag, value)
    BY <1>2, AnsweredRows DEF Types
<1>5. /\ cycle'.phase = "sending" /\ cycle'.command = {}
      /\ \A i \in CycleFields \ {"phase", "command"} : cycle'[i] = cycle[i]
    BY <1>1, <1>2 DEF CycleRecord, CycleFields
<1>6. /\ cycle'.folder = cycle.folder /\ cycle'.from = cycle.from /\ cycle'.next = cycle.next
      /\ cycle'.reading = cycle.reading /\ cycle'.listed = cycle.listed
      /\ cycle'.completes = cycle.completes /\ cycle'.again = cycle.again
      /\ cycle'.batch = cycle.batch /\ cycle'.changes = cycle.changes
    BY <1>5 DEF CycleFields
<1> SUFFICES ASSUME NEW f \in FolderRef, cycle.folder = f
             PROVE  (SeenHolds(f) /\ ReadingMirrors(f) /\ SteadyStays /\ ChangesAreSeen(f))'
    BY <1>6 DEF Promise
<1>7. /\ SeenHolds(f) /\ ReadingMirrors(f) /\ SteadyStays /\ ChangesAreSeen(f)
      /\ cycle.batch = EmptyBatch /\ DOMAIN cycle.batch.arrived = {}
    BY <1>1, <1>2, NoPageYet DEF Promise
<1>8. HeldIn(store, f)' = HeldIn(store, f)
    BY <1>3
<1>9. ASSUME NEW m \in HeldIn(store, f)
      PROVE  StoredFlags(f, m)' = IF m = id THEN [StoredFlags(f, m) EXCEPT ![flag] = value]
                                  ELSE StoredFlags(f, m)
    BY <1>4 DEF FlagShown
<1>10. id \in seen.steady => <<id, flag, value>> \in seen.shown
  <2>1. PICK c \in cycle.command : c = [identity |-> id, flag |-> flag, wanted |-> value]
      BY <1>4
  <2>2. c.identity = id /\ c.flag = flag /\ c.wanted = value
      BY <2>1
  <2> QED BY <1>1, <1>7, <2>2 DEF ChangesAreSeen
<1>11. ASSUME NEW m \in seen.steady, WillBeMirrored(f, m)
       PROVE  WillBeMirrored(f, m)'
  <2>1. m \in HeldIn(store, f) /\ WereShown(m, StoredFlags(f, m))
      BY <1>7, <1>11 DEF WillBeMirrored
  <2>2. ASSUME NEW g \in MessageFlag
        PROVE  <<m, g, StoredFlags(f, m)'[g]>> \in seen.shown
    <3>1. StoredFlags(f, m) \in Flags
        BY <1>3, <2>1
    <3>2. StoredFlags(f, m)'[g] = IF m = id /\ g = flag THEN value ELSE StoredFlags(f, m)[g]
        BY <1>9, <2>1, <3>1 DEF Flags
    <3> QED BY <1>10, <2>1, <3>2 DEF WereShown
  <2>3. m \in HeldIn(store, f)' /\ DOMAIN cycle'.batch.arrived = {}
      BY <1>6, <1>7, <1>8, <2>1
  <2> QED BY <1>1, <2>2, <2>3 DEF WillBeMirrored, WereShown
<1>12. /\ Onward' = Onward /\ Left(Onward)' = Left(Onward)
       /\ (OwnReading' => OwnReading) /\ (Rereading' <=> Rereading)
    BY <1>1, <1>5, <1>6 DEF Onward, Left, OwnReading, Rereading
<1>13. SeenHolds(f)' /\ SteadyStays'
    BY <1>1, <1>6, <1>7, <1>12 DEF SeenHolds, InFolder, FlagValues, SteadyStays
<1>14. ReadingMirrors(f)'
    BY <1>1, <1>6, <1>7, <1>11, <1>12 DEF ReadingMirrors
<1>15. ChangesAreSeen(f)'
    BY <1>1, <1>5, <1>6, <1>7, <1>8 DEF ChangesAreSeen
<1> QED BY <1>13, <1>14, <1>15

LEMMA PromiseStays ==
    ASSUME LinksArePlaces, Invariant, Promise, [Next]_vars
    PROVE  Promise'
<1> USE DEF Invariant
<1>1. ServiceTypes /\ ServiceMoves /\ Types
    BY EveryStepMoves DEF Types
<1>2. ASSUME ~Running'
      PROVE  Promise'
    BY <1>2 DEF Promise
<1>3. ASSUME NEW f \in FolderRef, Start(f)
      PROVE  Promise'
    BY <1>1, <1>3, StartPromise DEF Types
<1>4. CASE PositionRejected
  <2>1. /\ cycle.phase = "reading" /\ cycle' = FullRereading /\ Running
        /\ UNCHANGED <<serviceVars, store, seen>>
      BY <1>4 DEF PositionRejected, Running, Idle
  <2> QED BY <1>1, <2>1, RereadPromise DEF Types
<1>5. CASE ReadChanges
    BY <1>1, <1>5, TakenPagePromise DEF Types
<1>6. CASE StorePage
    BY <1>1, <1>6, StorePagePromise
<1>7. ASSUME NEW m \in MessageId, ReadInFolder(m)
      PROVE  Promise'
    BY <1>1, <1>7, ReadAgainPromise DEF Types
<1>8. CASE SendChange
    BY <1>1, <1>8, SendPromise
<1>9. CASE TakeAnswer
  <2>1. CASE cycle.answer = "2xx"
      BY <1>1, <1>9, <2>1, AnswerPromise
  <2>2. CASE cycle.answer # "2xx"
    <3>1. ~Running'
        BY <1>9, <2>2 DEF TakeAnswer, Running
    <3> QED BY <1>2, <3>1
  <2> QED BY <2>1, <2>2
<1>10. CASE Finish \/ EndEarly
  <2>1. ~Running'
      BY <1>10 DEF Finish, EndEarly, Running
  <2> QED BY <1>2, <2>1
<1>11. ASSUME NEW f \in FolderRef, cycle.folder = f, Running, ReadingStays,
              cycle'.folder = f, SeenFollows(f),
              cycle'.phase = "reading" \/ UNCHANGED cycle,
              HeldIn(store, f)' = HeldIn(store, f),
              \A m \in HeldIn(store, f) : StoredFlags(f, m)' = StoredFlags(f, m)
       PROVE  Promise'
  <2>1. SeenHolds(f) /\ ReadingMirrors(f) /\ SteadyStays /\ ChangesAreSeen(f)
      BY <1>11 DEF Promise
  <2>2. SeenHolds(f)' /\ ReadingMirrors(f)' /\ SteadyStays'
      BY <1>1, <1>11, <2>1, ReadingFollows DEF Types
  <2>3. ChangesAreSeen(f)'
      BY <1>11, <2>1 DEF ChangesAreSeen, SeenFollows
  <2> QED BY <1>11, <2>2, <2>3 DEF Promise
<1>12. ASSUME UNCHANGED cycle,
              \A f \in FolderRef : Running /\ cycle.folder = f =>
                 /\ SeenFollows(f) /\ HeldIn(store, f)' = HeldIn(store, f)
                 /\ \A m \in HeldIn(store, f) : StoredFlags(f, m)' = StoredFlags(f, m)
       PROVE  Promise'
  <2>1. CASE ~Running
      BY <1>2, <1>12, <2>1 DEF Running
  <2>2. CASE Running
    <3>1. PICK f \in FolderRef : cycle.folder = f
        BY <1>1, <2>2 DEF Types, CycleTypes, CycleRecord
    <3>2. ReadingStays
        BY <1>12, <2>2 DEF ReadingStays, Running
    <3> QED BY <1>11, <1>12, <2>2, <3>1, <3>2
  <2> QED BY <2>1, <2>2
<1>13. ASSUME UNCHANGED <<serviceVars, seen>>, NEW f \in FolderRef, Running, cycle.folder = f
       PROVE  SeenFollows(f)
  <2>1. SeenHolds(f)
      BY <1>13 DEF Promise
  <2> QED BY <1>13, <2>1 DEF SeenFollows, SeenHolds, InFolder, FlagValues, serviceVars
<1>14. CASE GoOn
  <2>1. /\ UNCHANGED <<serviceVars, seen, store, outdated>>
        /\ cycle.phase = "sending" /\ ~cycle.completes /\ Running
        /\ cycle' = [cycle EXCEPT !.phase = "reading"]
      BY <1>14 DEF GoOn, SentAll, Running, Idle
  <2>2. CycleRecord(cycle)
      BY <1>1, <2>1 DEF Types, CycleTypes
  <2>3. /\ cycle'.phase = "reading" /\ DOMAIN cycle' = CycleFields
        /\ \A i \in CycleFields \ {"phase"} : cycle'[i] = cycle[i]
      BY <2>1, <2>2 DEF CycleRecord, CycleFields
  <2>4. ReadingStays /\ cycle'.folder = cycle.folder
      BY <2>1, <2>3 DEF ReadingStays, Running, Idle, CycleFields
  <2>5. PICK f \in FolderRef : cycle.folder = f
      BY <2>2 DEF CycleRecord
  <2>6. SeenFollows(f)
      BY <1>13, <2>1, <2>5
  <2>7. HeldIn(store, f)' = HeldIn(store, f) /\ \A m : StoredFlags(f, m)' = StoredFlags(f, m)
      BY <2>1 DEF StoredFlags
  <2> QED BY <1>11, <2>1, <2>3, <2>4, <2>5, <2>6, <2>7
<1>15. ASSUME NEW key \in DOMAIN store.messages, NEW flag \in MessageFlag,
              NEW wanted \in BOOLEAN, UserWishes(key, flag, wanted)
       PROVE  Promise'
  <2>1. store' = WritePendingFlag(store, key.account, key.identity, flag, wanted)
        /\ UNCHANGED cycle /\ UNCHANGED <<serviceVars, seen, outdated>>
      BY <1>15 DEF UserWishes
  <2>2. key.identity \in MessageId
    <3>1. DOMAIN store.messages \subseteq MessageKey
        BY <1>1, TablesType DEF Types, StoreTypes, Kept, Sound
    <3> QED BY <3>1 DEF MessageKey
  <2>3. PICK id \in MessageId : id = key.identity
      BY <2>2
  <2>4. store' = WritePendingFlag(store, key.account, id, flag, wanted)
      BY <2>1, <2>3
  <2>5. /\ \A f \in FolderRef : HeldIn(store, f)' = HeldIn(store, f)
        /\ \A f \in FolderRef, m \in MessageId :
              m \in HeldIn(store, f) => StoredFlags(f, m)' = StoredFlags(f, m)
      BY <1>1, <2>1, <2>4, WishTypes DEF Types
  <2>6. \A f \in FolderRef : \A m \in HeldIn(store, f) : m \in MessageId
      BY <1>1, ListedRow DEF Types
  <2> QED BY <1>12, <1>13, <2>1, <2>5, <2>6
<1>16. CASE MailChanges
  <2>1. UNCHANGED <<store, outdated, cycle>> /\ Watch(cycle.folder)
      BY <1>16 DEF MailChanges
  <2>2. ASSUME NEW f \in FolderRef, Running, cycle.folder = f
        PROVE  SeenFollows(f)
      BY <2>1, <2>2 DEF Watch, SeenFollows
  <2>3. \A f : HeldIn(store, f)' = HeldIn(store, f) /\ \A m : StoredFlags(f, m)' = StoredFlags(f, m)
      BY <2>1 DEF StoredFlags
  <2> QED BY <1>12, <2>1, <2>2, <2>3
<1>17. CASE UNCHANGED vars
  <2>1. UNCHANGED <<serviceVars, seen, store, outdated, cycle>>
      BY <1>17 DEF vars
  <2>2. \A f : HeldIn(store, f)' = HeldIn(store, f) /\ \A m : StoredFlags(f, m)' = StoredFlags(f, m)
      BY <2>1 DEF StoredFlags
  <2> QED BY <1>12, <1>13, <2>1, <2>2
<1> QED BY <1>3, <1>4, <1>5, <1>6, <1>7, <1>8, <1>9, <1>10, <1>14, <1>15, <1>16, <1>17
        DEF Next, CycleStep

-----------------------------------------------------------------------------
(* The cycle implements FolderMirror.                                      *)

\* The cycle has stored its reading whole and sent the changes.
Done == SentAll /\ cycle.completes

\* A reading stored to its end shows the folder as FolderMirror asks.
Mirrored ==
    \A f \in FolderRef : Running /\ cycle.folder = f /\ cycle.completes =>
        /\ seen.steady \subseteq HeldIn(store, f)
        /\ HeldIn(store, f) \subseteq seen.ever
        /\ \A m \in seen.steady : WereShown(m, StoredFlags(f, m))

LEMMA PromiseMirrors ==
    ASSUME LinksArePlaces, Invariant, Promise
    PROVE  Mirrored
<1> SUFFICES ASSUME NEW f \in FolderRef, Running, cycle.folder = f, cycle.completes
             PROVE  /\ seen.steady \subseteq HeldIn(store, f)
                    /\ HeldIn(store, f) \subseteq seen.ever
                    /\ \A m \in seen.steady : WereShown(m, StoredFlags(f, m))
    BY DEF Mirrored
<1>1. /\ CycleRecord(cycle) /\ ReadingsGoOn(f) /\ OnwardProves(f)
      /\ SeenHolds(f) /\ ReadingMirrors(f)
    BY DEF Invariant, Types, CycleTypes, CycleProves, Promise
<1>2. Onward.kind = "position" /\ cycle.phase \notin {"reading", "page"} /\ Left(Onward) = {}
    BY <1>1 DEF ReadingsGoOn, Left
<1>3. cycle.again = {} /\ DOMAIN cycle.batch.arrived = {} /\ \A m : ~InBatch(m)
    BY <1>1, <1>2, NoPageYet
<1>4. ASSUME NEW m \in seen.steady
      PROVE  m \in HeldIn(store, f) /\ WereShown(m, StoredFlags(f, m))
  <2>1. WillBeMirrored(f, m)
      BY <1>1, <1>2, <1>3 DEF ReadingMirrors, OwnReading
  <2> QED BY <1>3, <2>1 DEF WillBeMirrored
<1>5. ASSUME NEW m \in HeldIn(store, f)
      PROVE  m \in seen.ever
  <2>1. m \in MessageId
      BY ListedRow DEF Invariant, Types
  <2>2. CASE changed[f][m] > Onward.since
      BY <1>1, <2>1, <2>2 DEF ReadingMirrors, OwnReading
  <2>3. CASE ~(changed[f][m] > Onward.since)
    <3>1. Onward.since \in Nat /\ changed[f][m] \in Nat
        BY <1>1, <1>2, <2>1 DEF Onward, CycleRecord, FirstReading, Links, Positions, Pages,
                                Invariant, Types, ServiceTypes
    <3>2. Covered(f, Onward, m)
        BY <1>2, <2>3, <3>1 DEF Covered
    <3>3. PageProves(f, m)
        BY <1>1, <1>2, <2>1, <3>2 DEF OnwardProves
    <3>4. where[m] = f
        BY <1>3, <3>3 DEF PageProves, Agrees, Rereading
    <3> QED BY <1>1, <2>1, <3>4 DEF SeenHolds, InFolder
  <2> QED BY <2>2, <2>3
<1> QED BY <1>4, <1>5

\* What FolderMirror sees of the mail and the rows.
LEMMA ValuesShown ==
    ASSUME NEW S, NEW values
    PROVE  Mirror!Values([m \in S |-> values[m]])
              = {<<m, g, values[m][g]>> : m \in S, g \in MessageFlag}
    BY DEF Mirror!Values

LEMMA StoredFoldersStay ==
    ASSUME \A f \in FolderRef : HeldIn(store, f)' = HeldIn(store, f),
           \A f \in FolderRef : \A m \in HeldIn(store, f) :
              StoredFlags(f, m)' = StoredFlags(f, m)
    PROVE  StoredFolders' = StoredFolders
<1>1. ASSUME NEW f \in FolderRef
      PROVE  [m \in HeldIn(store, f) |-> StoredFlags(f, m)]'
                = [m \in HeldIn(store, f) |-> StoredFlags(f, m)]
    OBVIOUS
<1> QED BY <1>1 DEF StoredFolders

LEMMA ServerFoldersStay ==
    ASSUME UNCHANGED serviceVars
    PROVE  ServerFolders' = ServerFolders
    BY DEF serviceVars, ServerFolders, InFolder

\* The cycle as FolderMirror sees it.
LEMMA MirroringIs ==
    /\ Mirror!Running <=> Running
    /\ ~Running => MirroringCycle = Mirror!NoCycle
    /\ Running => /\ MirroringCycle.phase = IF Done THEN "mirrored" ELSE "reading"
                  /\ MirroringCycle.folder = cycle.folder
                  /\ MirroringCycle.steady = seen.steady
                  /\ MirroringCycle.ever = seen.ever
                  /\ MirroringCycle.shown = seen.shown
                  /\ DOMAIN MirroringCycle = {"phase", "folder", "steady", "ever", "shown"}
<1>1. Running => /\ MirroringCycle.phase = IF Done THEN "mirrored" ELSE "reading"
                 /\ MirroringCycle.folder = cycle.folder
                 /\ MirroringCycle.steady = seen.steady
                 /\ MirroringCycle.ever = seen.ever
                 /\ MirroringCycle.shown = seen.shown
                 /\ DOMAIN MirroringCycle = {"phase", "folder", "steady", "ever", "shown"}
    BY DEF MirroringCycle, Done
<1>2. ~Running => MirroringCycle = Mirror!NoCycle
    BY DEF MirroringCycle, Mirror!NoCycle
<1>3. Mirror!NoCycle.phase = "none"
    BY DEF Mirror!NoCycle
<1>4. Mirror!Running <=> Running
    BY <1>1, <1>2, <1>3 DEF Mirror!Running
<1> QED BY <1>1, <1>2, <1>4

\* A step that changes neither the mail, nor the rows, nor how far the cycle
\* is, is none for FolderMirror.
LEMMA MirrorRests ==
    ASSUME UNCHANGED serviceVars, UNCHANGED seen, StoredFolders' = StoredFolders,
           Running, Running', cycle'.folder = cycle.folder, Done' <=> Done
    PROVE  UNCHANGED Mirror!vars
<1>1. MirroringCycle' = MirroringCycle
    BY DEF MirroringCycle, Done
<1> QED BY <1>1, ServerFoldersStay DEF Mirror!vars

\* The mail changes, and the history with it.
LEMMA MirrorFollows ==
    ASSUME StoredFolders' = StoredFolders, Running' <=> Running,
           Running => /\ cycle.folder \in FolderRef /\ cycle'.folder = cycle.folder
                      /\ Done' <=> Done,
           Watch(cycle.folder)
    PROVE  Mirror!ServerChanges
<1>1. CASE ~Running
  <2>1. MirroringCycle' = MirroringCycle
      BY <1>1 DEF MirroringCycle
  <2> QED BY <1>1, <2>1, MirroringIs DEF Mirror!ServerChanges
<1>2. CASE Running
  <2>1. PICK f \in FolderRef : cycle.folder = f
      BY <1>2
  <2>2. PICK now : now = ServerFolders'[f]
      OBVIOUS
  <2>3. now = [m \in InFolder(f)' |-> flags'[m]] /\ DOMAIN now = InFolder(f)'
      BY <2>2 DEF ServerFolders
  <2>4. Mirror!Values(now) = FlagValues(f)'
    <3>1. Mirror!Values(now) = {<<m, g, flags'[m][g]>> : m \in InFolder(f)', g \in MessageFlag}
        BY <2>3, ValuesShown
    <3> QED BY <3>1 DEF FlagValues
  <2>5. PICK v : v = Mirror!Values(now)
      OBVIOUS
  <2>6. PICK p, s, e, w : p = MirroringCycle.phase /\ s = seen.steady /\ e = seen.ever
                          /\ w = seen.shown
      OBVIOUS
  <2>7. MirroringCycle = [phase |-> p, folder |-> f, steady |-> s, ever |-> e, shown |-> w]
      BY <1>2, <2>1, <2>6 DEF MirroringCycle
  <2>8. seen' = [steady |-> s \intersect DOMAIN now, ever |-> e \union DOMAIN now,
                 shown |-> w \union v]
      BY <1>2, <2>1, <2>3, <2>4, <2>5, <2>6 DEF Watch
  <2>9. MirroringCycle' = [phase |-> p, folder |-> f, steady |-> s \intersect DOMAIN now,
                           ever |-> e \union DOMAIN now, shown |-> w \union v]
    <3>1. Done' <=> Done
        BY <1>2
    <3>2. p = IF Done THEN "mirrored" ELSE "reading"
        BY <1>2, <2>6, MirroringIs
    <3> QED BY <1>2, <2>1, <2>8, <3>1, <3>2 DEF MirroringCycle, Done
  <2>10. MirroringCycle' = Mirror!Watched
    <3>1. Mirror!Watched = [MirroringCycle EXCEPT !.steady = s \intersect DOMAIN now,
                                                  !.ever   = e \union DOMAIN now,
                                                  !.shown  = w \union v]
        BY <2>2, <2>5, <2>7 DEF Mirror!Watched
    <3> QED BY <2>7, <2>9, <3>1
  <2> QED BY <1>2, <2>10, MirroringIs DEF Mirror!ServerChanges
<1> QED BY <1>1, <1>2

\* A batch or an answer stored: it keeps what stayed, and ends the reading
\* only when the folder is mirrored.
LEMMA MirrorStores ==
    ASSUME NEW f \in FolderRef, Running, Running', cycle.folder = f, cycle'.folder = f,
           UNCHANGED serviceVars, UNCHANGED seen, ~Done,
           Done' => /\ seen.steady \subseteq HeldIn(store, f)'
                    /\ HeldIn(store, f)' \subseteq seen.ever
                    /\ \A m \in seen.steady : WereShown(m, StoredFlags(f, m)'),
           seen.steady \intersect HeldIn(store, f) \subseteq HeldIn(store, f)',
           \A g \in FolderRef \ {f} :
              /\ HeldIn(store, g)' = HeldIn(store, g)
              /\ \A m \in HeldIn(store, g) :
                    StoredFlags(g, m)' # StoredFlags(g, m) =>
                        g.account = f.account /\ m \in HeldIn(store, f)'
    PROVE  Mirror!Store
<1>1. /\ StoredFolders'[f] = [m \in HeldIn(store, f)' |-> StoredFlags(f, m)']
      /\ StoredFolders[f] = [m \in HeldIn(store, f) |-> StoredFlags(f, m)]
    BY DEF StoredFolders
<1>2. /\ DOMAIN StoredFolders'[f] = HeldIn(store, f)'
      /\ \A m \in HeldIn(store, f)' : StoredFolders'[f][m] = StoredFlags(f, m)'
      /\ DOMAIN StoredFolders[f] = HeldIn(store, f)
    BY <1>1
<1>3. MirroringCycle = [phase |-> "reading", folder |-> f, steady |-> seen.steady,
                        ever |-> seen.ever, shown |-> seen.shown]
    BY DEF MirroringCycle, Done
<1>4. MirroringCycle' = [phase |-> IF Done' THEN "mirrored" ELSE "reading", folder |-> f,
                         steady |-> seen.steady, ever |-> seen.ever, shown |-> seen.shown]
    BY DEF MirroringCycle, Done
<1>5. Done' => Mirror!MirrorsWhatStayed(StoredFolders'[f], MirroringCycle)
    BY <1>2, <1>3 DEF Mirror!MirrorsWhatStayed, WereShown
<1>6. \/ MirroringCycle' = MirroringCycle
      \/ /\ MirroringCycle' = [MirroringCycle EXCEPT !.phase = "mirrored"]
         /\ Mirror!MirrorsWhatStayed(StoredFolders'[MirroringCycle.folder], MirroringCycle)
    BY <1>3, <1>4, <1>5
<1>7. ASSUME NEW g \in FolderRef \ {f}
      PROVE  /\ DOMAIN StoredFolders'[g] = DOMAIN StoredFolders[g]
             /\ \A m \in DOMAIN StoredFolders[g] :
                   StoredFolders'[g][m] # StoredFolders[g][m] =>
                       g.account = f.account /\ m \in DOMAIN StoredFolders'[f]
  <2>1. /\ StoredFolders'[g] = [m \in HeldIn(store, g)' |-> StoredFlags(g, m)']
        /\ StoredFolders[g] = [m \in HeldIn(store, g) |-> StoredFlags(g, m)]
      BY DEF StoredFolders
  <2> QED BY <1>2, <2>1
<1>8. Mirror!BatchKeeps
    BY <1>2, <1>3, <1>7 DEF Mirror!BatchKeeps
<1> QED BY <1>3, <1>6, <1>8, MirroringIs, ServerFoldersStay DEF Mirror!Store

\* The cycle starts, and ends.
LEMMA MirrorBegins ==
    ASSUME NEW f \in FolderRef, Start(f)
    PROVE  Mirror!Begin(f)
<1>1. /\ ~Running /\ cycle'.phase = "reading" /\ cycle'.folder = f
      /\ seen' = [steady |-> InFolder(f), ever |-> InFolder(f), shown |-> FlagValues(f)]
      /\ UNCHANGED serviceVars /\ store' = store /\ outdated' = outdated
    BY DEF Start
<1>2. Running' /\ ~Done'
    BY <1>1 DEF Running, Idle, Done, SentAll
<1>3. PICK now : now = ServerFolders[f]
    OBVIOUS
<1>4. now = [m \in InFolder(f) |-> flags[m]] /\ DOMAIN now = InFolder(f)
    BY <1>3 DEF ServerFolders
<1>5. Mirror!Values(now) = FlagValues(f)
  <2>1. PICK there, values : there = InFolder(f) /\ values = flags
      OBVIOUS
  <2>2. now = [m \in there |-> values[m]]
      BY <1>4, <2>1
  <2>3. Mirror!Values(now) = {<<m, g, values[m][g]>> : m \in there, g \in MessageFlag}
      BY <2>2, ValuesShown
  <2> QED BY <2>1, <2>3 DEF FlagValues
<1>6. MirroringCycle' = [phase |-> "reading", folder |-> f, steady |-> DOMAIN now,
                         ever |-> DOMAIN now, shown |-> Mirror!Values(now)]
    BY <1>1, <1>2, <1>4, <1>5 DEF MirroringCycle, Done
<1>7. StoredFolders' = StoredFolders
    BY <1>1 DEF StoredFolders, StoredFlags
<1> QED BY <1>1, <1>3, <1>6, <1>7, MirroringIs, ServerFoldersStay DEF Mirror!Begin

LEMMA MirrorStops ==
    ASSUME Running, ~Running', StoredFolders' = StoredFolders
    PROVE  Mirror!Stop
<1>1. MirroringCycle' = Mirror!NoCycle
    BY DEF MirroringCycle, Mirror!NoCycle
<1> QED BY <1>1, MirroringIs DEF Mirror!Stop

\* A page takes out no message that stayed, and changes rows of other folders
\* only with their messages' arrival.
LEMMA MirrorPage ==
    ASSUME LinksArePlaces, Types, CycleProves, Promise, Mirrored', StorePage
    PROVE  Mirror!Store
<1>1. /\ cycle.phase = "page" /\ Running /\ CycleRecord(cycle) /\ ~cycle.completes
      /\ OthersHoldTheSame(store, store', cycle.folder)
      /\ cycle'.phase = IF ~LastPage /\ cycle.reading = "Round" THEN "reading" ELSE "sending"
      /\ \A i \in {"folder", "stored", "named", "listed", "next", "again", "command",
                   "answer"} : cycle'[i] = cycle[i]
    BY PageStored
<1>2. UNCHANGED serviceVars /\ UNCHANGED seen
    BY DEF StorePage
<1>3. /\ Running' /\ ~Done /\ cycle'.folder = cycle.folder
      /\ cycle'.phase \in {"reading", "sending"}
    BY <1>1 DEF Running, Idle, Done, SentAll
<1>4. PICK f \in FolderRef : cycle.folder = f
    BY <1>1 DEF CycleRecord
<1>5. SteadyStays
    BY <1>1, <1>4 DEF Promise
<1>6. seen.steady \intersect Unlisted = {}
    BY <1>1, <1>5, StaysListed
<1>7. ASSUME NEW m \in seen.steady \intersect HeldIn(store, f)
      PROVE  m \in HeldIn(store', f)
    BY <1>4, <1>5, <1>6, PageLeaves DEF SteadyStays
<1>8. ASSUME NEW g \in FolderRef \ {f}
      PROVE  /\ HeldIn(store, g)' = HeldIn(store, g)
             /\ \A m \in HeldIn(store, g) :
                   StoredFlags(g, m)' # StoredFlags(g, m) =>
                       g.account = f.account /\ m \in HeldIn(store, f)'
  <2>1. HeldIn(store, g)' = HeldIn(store, g)
      BY <1>1, <1>4 DEF OthersHoldTheSame
  <2>2. ASSUME NEW m \in HeldIn(store, g), StoredFlags(g, m)' # StoredFlags(g, m)
        PROVE  g.account = f.account /\ m \in HeldIn(store, f)'
    <3>1. m \in HeldIn(store', g)
        BY <2>1
    <3>2. g.account = f.account /\ m \in DOMAIN cycle.batch.arrived
        BY <1>4, <2>2, <3>1, ShownAfterPage
    <3> QED BY <1>4, <3>2, PageLeaves
  <2> QED BY <2>1, <2>2
<1>9. Done' => /\ seen.steady \subseteq HeldIn(store, f)'
               /\ HeldIn(store, f)' \subseteq seen.ever
               /\ \A m \in seen.steady : WereShown(m, StoredFlags(f, m)')
    BY <1>2, <1>3, <1>4 DEF Mirrored, Done, WereShown
<1> QED BY <1>1, <1>2, <1>3, <1>4, <1>7, <1>8, <1>9, MirrorStores

\* An accepted change is stored with a message the folder holds.
LEMMA MirrorAnswer ==
    ASSUME LinksArePlaces, Types, Promise, Mirrored', TakeAnswer, cycle.answer = "2xx"
    PROVE  Mirror!Store
<1>1. /\ cycle.phase = "answered" /\ Running
      /\ UNCHANGED serviceVars /\ UNCHANGED seen
      /\ cycle' = [cycle EXCEPT !.phase = "sending", !.command = {}]
    BY DEF TakeAnswer, Running, Idle
<1>2. CycleRecord(cycle)
    BY <1>1 DEF Types, CycleTypes
<1>3. \A g \in FolderRef : HeldIn(store, g)' = HeldIn(store, g)
    BY <1>2, AnsweredRows DEF Types
<1>4. PICK id \in MessageId, flag \in MessageFlag, value \in BOOLEAN :
         /\ [identity |-> id, flag |-> flag, wanted |-> value] \in cycle.command
         /\ FlagShown(cycle.folder.account, id, flag, value)
    BY <1>2, AnsweredRows DEF Types
<1>5. /\ cycle'.phase = "sending" /\ DOMAIN cycle' = CycleFields
      /\ cycle'.folder = cycle.folder
    BY <1>1, <1>2 DEF CycleRecord, CycleFields
<1>6. Running' /\ ~Done
    BY <1>1, <1>5 DEF Running, Idle, Done, SentAll
<1>7. PICK f \in FolderRef : cycle.folder = f
    BY <1>2 DEF CycleRecord
<1>8. ChangesAreSeen(f)
    BY <1>1, <1>7 DEF Promise
<1>9. id \in HeldIn(store, f)
  <2>1. PICK c \in cycle.command : c = [identity |-> id, flag |-> flag, wanted |-> value]
      BY <1>4
  <2>2. c.identity = id
      BY <2>1
  <2> QED BY <1>1, <1>8, <2>2 DEF ChangesAreSeen
<1>10. ASSUME NEW g \in FolderRef, NEW m \in HeldIn(store, g),
              StoredFlags(g, m)' # StoredFlags(g, m)
       PROVE  g.account = f.account /\ m = id
    BY <1>4, <1>7, <1>10 DEF FlagShown
<1>11. Done' => /\ seen.steady \subseteq HeldIn(store, f)'
                /\ HeldIn(store, f)' \subseteq seen.ever
                /\ \A m \in seen.steady : WereShown(m, StoredFlags(f, m)')
    BY <1>1, <1>5, <1>6, <1>7 DEF Mirrored, Done, WereShown
<1>12. \A g \in FolderRef \ {f} :
          /\ HeldIn(store, g)' = HeldIn(store, g)
          /\ \A m \in HeldIn(store, g) :
                StoredFlags(g, m)' # StoredFlags(g, m) =>
                    g.account = f.account /\ m \in HeldIn(store, f)'
    BY <1>3, <1>9, <1>10
<1>13. seen.steady \intersect HeldIn(store, f) \subseteq HeldIn(store, f)'
    BY <1>3
<1> QED BY <1>1, <1>5, <1>6, <1>7, <1>11, <1>12, <1>13, MirrorStores

\* A row whose wishes change is stored with the same flags.
LEMMA StoredRowsStay ==
    ASSUME StoreTypes, \A f \in FolderRef : HeldIn(store, f)' = HeldIn(store, f),
           \A f \in FolderRef, m \in MessageId :
              m \in HeldIn(store, f) => StoredFlags(f, m)' = StoredFlags(f, m)
    PROVE  StoredFolders' = StoredFolders
<1>1. \A f \in FolderRef : \A m \in HeldIn(store, f) : m \in MessageId
    BY ListedRow
<1> QED BY <1>1, StoredFoldersStay

\* Every step of the cycle, the user and the other clients is one of
\* FolderMirror or none.
LEMMA MirrorStep ==
    ASSUME LinksArePlaces, Invariant, Promise, Mirrored', [Next]_vars
    PROVE  [Mirror!Next]_(Mirror!vars)
<1> USE DEF Invariant
<1>1. Types
    OBVIOUS
<1>2. ASSUME NEW f \in FolderRef, Start(f)
      PROVE  Mirror!Next
    BY <1>2, MirrorBegins DEF Mirror!Next
<1>3. CASE StorePage
    BY <1>3, MirrorPage DEF Mirror!Next
<1>4. ASSUME store' = store, outdated' = outdated
      PROVE  StoredFolders' = StoredFolders
    BY <1>4 DEF StoredFolders, StoredFlags
<1>5. CASE TakeAnswer
  <2>1. CASE cycle.answer = "2xx"
      BY <1>5, <2>1, MirrorAnswer DEF Mirror!Next
  <2>2. CASE cycle.answer # "2xx"
    <3>1. cycle.phase = "answered" /\ Running /\ ~Running'
        BY <1>5, <2>2 DEF TakeAnswer, Running, Idle
    <3>2. CycleRecord(cycle)
        BY <3>1 DEF Types, CycleTypes
    <3>3. PICK c \in cycle.command :
             /\ \/ store' = DropPendingFlags(store, cycle.folder.account, {c.identity}, c.flag,
                                             c.wanted)
                \/ store' = store
             /\ outdated' = outdated
        BY <1>5, <2>2 DEF TakeAnswer, OutdatedAfterAnswer
    <3>4. PICK id \in MessageId, flag \in MessageFlag, value \in BOOLEAN :
             c = [identity |-> id, flag |-> flag, wanted |-> value]
      <4>1. c \in PendingChange
          BY <3>2 DEF CycleRecord
      <4> QED BY <4>1 DEF PendingChange
    <3>5. PICK account : account = cycle.folder.account
        OBVIOUS
    <3>6. ASSUME store' = DropPendingFlags(store, account, {id}, flag, value)
          PROVE  StoredFolders' = StoredFolders
        BY <3>3, <3>6, WishTypes, StoredRowsStay DEF Types
    <3>7. StoredFolders' = StoredFolders
        BY <1>4, <3>3, <3>4, <3>5, <3>6
    <3> QED BY <3>1, <3>7, MirrorStops DEF Mirror!Next
  <2> QED BY <2>1, <2>2
<1>6. CASE Finish \/ EndEarly
  <2>1. Running /\ ~Running' /\ store' = store /\ outdated' = outdated
      BY <1>6 DEF Finish, EndEarly, SentAll, Running, Idle
  <2> QED BY <1>4, <2>1, MirrorStops DEF Mirror!Next
<1>7. ASSUME UNCHANGED <<serviceVars, seen>>, StoredFolders' = StoredFolders, UNCHANGED cycle
      PROVE  UNCHANGED Mirror!vars
    BY <1>7, ServerFoldersStay DEF Mirror!vars, MirroringCycle, Running, SentAll
<1>8. ASSUME UNCHANGED <<serviceVars, store, outdated, seen>>, Running, Running',
             cycle'.folder = cycle.folder, ~Done, ~Done'
      PROVE  UNCHANGED Mirror!vars
    BY <1>4, <1>8, MirrorRests
<1>9. CASE PositionRejected
  <2>1. /\ cycle.phase = "reading" /\ cycle' = FullRereading /\ Running
        /\ UNCHANGED <<serviceVars, store, outdated, seen>>
      BY <1>9 DEF PositionRejected, Running, Idle
  <2>2. CycleRecord(cycle)
      BY <2>1 DEF Types, CycleTypes
  <2>3. cycle'.phase = "reading" /\ cycle'.folder = cycle.folder
      BY <2>1, <2>2 DEF FullRereading, CycleRecord, CycleFields
  <2> QED BY <1>8, <2>1, <2>3 DEF Running, Idle, Done, SentAll
<1>10. CASE ReadChanges
  <2>1. Running /\ cycle.phase = "reading" /\ UNCHANGED <<serviceVars, store, outdated, seen>>
      BY <1>10 DEF ReadChanges, Running, Idle
  <2>2. /\ CycleRecord(cycle) /\ cycle.folder \in FolderRef
        /\ cycle.from \in {FirstReading} \union Links
      BY <2>1 DEF Types, CycleTypes, CycleRecord
  <2>3. PICK changes, now, next : TakePage(changes, now, next)
      BY <1>10 DEF ReadChanges
  <2>4. cycle'.phase \in {"reading", "page"} /\ cycle'.folder = cycle.folder
      BY <2>2, <2>3 DEF TakePage, FullRereading, CycleRecord, CycleFields
  <2> QED BY <1>8, <2>1, <2>4 DEF Running, Idle, Done, SentAll
<1>11. ASSUME NEW m \in MessageId, ReadInFolder(m)
       PROVE  UNCHANGED Mirror!vars
  <2>1. /\ cycle.phase = "page" /\ Running /\ UNCHANGED <<serviceVars, store, outdated, seen>>
      BY <1>11 DEF ReadInFolder, Running, Idle
  <2>2. cycle'.phase = "page" /\ cycle'.folder = cycle.folder
      BY <1>11, ReadAgainTypes DEF CycleFields, Types
  <2> QED BY <1>8, <2>1, <2>2 DEF Running, Idle, Done, SentAll
<1>12. CASE GoOn
  <2>1. /\ UNCHANGED <<serviceVars, store, outdated, seen>>
        /\ cycle.phase = "sending" /\ ~cycle.completes /\ Running
        /\ cycle' = [cycle EXCEPT !.phase = "reading"]
      BY <1>12 DEF GoOn, SentAll, Running, Idle
  <2>2. CycleRecord(cycle)
      BY <2>1 DEF Types, CycleTypes
  <2>3. cycle'.phase = "reading" /\ cycle'.folder = cycle.folder
      BY <2>1, <2>2 DEF CycleRecord, CycleFields
  <2> QED BY <1>8, <2>1, <2>3 DEF Running, Idle, Done, SentAll
<1>13. CASE SendChange
  <2>1. cycle.phase = "sending" /\ Running /\ cycle.changes # {}
        /\ store' = store /\ outdated' = outdated /\ Watch(cycle.folder)
      BY <1>13 DEF SendChange, Running, Idle
  <2>2. CycleRecord(cycle)
      BY <2>1 DEF Types, CycleTypes
  <2>3. cycle'.phase = "answered" /\ cycle'.folder = cycle.folder
      BY <1>13, <2>2 DEF SendChange, CycleRecord, CycleFields
  <2>4. Running' /\ ~Done /\ ~Done' /\ cycle.folder \in FolderRef
      BY <2>1, <2>2, <2>3 DEF Running, Idle, Done, SentAll, CycleRecord
  <2> QED BY <1>4, <2>1, <2>3, <2>4, MirrorFollows DEF Mirror!Next
<1>14. CASE MailChanges
  <2>1. UNCHANGED <<store, outdated, cycle>> /\ Watch(cycle.folder)
      BY <1>14 DEF MailChanges
  <2>2. Running => cycle.folder \in FolderRef
      BY DEF Types, CycleTypes, CycleRecord
  <2>3. (Running' <=> Running) /\ (Done' <=> Done) /\ cycle'.folder = cycle.folder
      BY <2>1 DEF Running, Done, SentAll
  <2> QED BY <1>4, <2>1, <2>2, <2>3, MirrorFollows DEF Mirror!Next
<1>15. ASSUME NEW key \in DOMAIN store.messages, NEW flag \in MessageFlag,
              NEW wanted \in BOOLEAN, UserWishes(key, flag, wanted)
       PROVE  UNCHANGED Mirror!vars
  <2>1. store' = WritePendingFlag(store, key.account, key.identity, flag, wanted)
        /\ UNCHANGED cycle /\ UNCHANGED <<serviceVars, seen, outdated>>
      BY <1>15 DEF UserWishes
  <2>2. key.identity \in MessageId
    <3>1. DOMAIN store.messages \subseteq MessageKey
        BY TablesType DEF Types, StoreTypes, Kept, Sound
    <3> QED BY <3>1 DEF MessageKey
  <2>3. PICK account, id : account = key.account /\ id = key.identity
      OBVIOUS
  <2>4. store' = WritePendingFlag(store, account, id, flag, wanted) /\ id \in MessageId
      BY <2>1, <2>2, <2>3
  <2>5. StoredFolders' = StoredFolders
      BY <2>1, <2>4, WishTypes, StoredRowsStay DEF Types
  <2> QED BY <1>7, <2>1, <2>5
<1>16. CASE UNCHANGED vars
    BY <1>4, <1>7, <1>16 DEF vars
<1> QED BY <1>2, <1>3, <1>5, <1>6, <1>9, <1>10, <1>11, <1>12, <1>13, <1>14, <1>15, <1>16
        DEF Next, CycleStep

\* Nothing is stored at first, and no cycle runs.
LEMMA MirrorAtFirst ==
    ASSUME Init
    PROVE  Promise /\ Mirror!Init
<1>1. ~Running
    BY DEF Init, Running
<1>2. store.memberships = {}
    BY DEF Init, EmptyStore
<1>3. \A f \in FolderRef : HeldIn(store, f) = {}
    BY <1>2 DEF HeldIn
<1>4. ASSUME NEW f \in FolderRef
      PROVE  [m \in HeldIn(store, f) |-> StoredFlags(f, m)] = Mirror!Empty
    BY <1>3 DEF Mirror!Empty
<1>5. StoredFolders = [f \in FolderRef |-> Mirror!Empty]
    BY <1>4 DEF StoredFolders
<1> QED BY <1>1, <1>5, MirroringIs DEF Promise, Mirror!Init

\* A cycle promises no more than FolderMirror: one that ends complete leaves
\* its folder with every message that stayed, none that was never there and
\* flags the service held meanwhile, and none takes out a message that stayed,
\* for every number of folders, messages, changes and faults.
THEOREM GraphKeepsTheCyclePromise ==
    ASSUME LinksArePlaces
    PROVE  Spec => KeepsTheCyclePromise
<1>1. Init => Promise /\ Mirror!Init
    BY MirrorAtFirst
<1>2. Invariant /\ Promise /\ [Next]_vars => Promise'
    BY PromiseStays
<1>3. Invariant /\ Promise => Mirrored
    BY PromiseMirrors
<1>4. Invariant /\ Promise /\ Mirrored' /\ [Next]_vars => [Mirror!Next]_(Mirror!vars)
    BY MirrorStep
<1> QED BY <1>1, <1>2, <1>3, <1>4, GraphInvariant, PTL
        DEF KeepsTheCyclePromise, Mirror!Spec, Spec

\* A cycle that has only to end, complete, goes on showing its folder as
\* FolderMirror asks, whatever other clients do before it ends.
THEOREM GraphCompleteStaysMirrored ==
    ASSUME LinksArePlaces
    PROVE  Spec => []Mirror!CompleteIsMirrored
<1>1. Invariant /\ Mirrored => Mirror!CompleteIsMirrored
  <2> SUFFICES ASSUME Invariant, Mirrored, Mirror!Running, MirroringCycle.phase = "mirrored"
               PROVE  Mirror!MirrorsWhatStayed(StoredFolders[MirroringCycle.folder],
                                               MirroringCycle)
      BY DEF Mirror!CompleteIsMirrored
  <2>1. Running /\ Done
      BY MirroringIs
  <2>2. PICK f \in FolderRef : cycle.folder = f
      BY <2>1 DEF Invariant, Types, CycleTypes, CycleRecord
  <2>3. /\ MirroringCycle.folder = f /\ MirroringCycle.steady = seen.steady
        /\ MirroringCycle.ever = seen.ever /\ MirroringCycle.shown = seen.shown
      BY <2>1, <2>2, MirroringIs
  <2>4. StoredFolders[f] = [m \in HeldIn(store, f) |-> StoredFlags(f, m)]
      BY DEF StoredFolders
  <2>5. /\ DOMAIN StoredFolders[f] = HeldIn(store, f)
        /\ \A m \in HeldIn(store, f) : StoredFolders[f][m] = StoredFlags(f, m)
      BY <2>4
  <2> QED BY <2>1, <2>2, <2>3, <2>5 DEF Done, Mirrored, WereShown, Mirror!MirrorsWhatStayed
<1>2. Init => Promise
    BY MirrorAtFirst
<1>3. Invariant /\ Promise /\ [Next]_vars => Promise'
    BY PromiseStays
<1>4. Invariant /\ Promise => Mirrored
    BY PromiseMirrors
<1> QED BY <1>1, <1>2, <1>3, <1>4, GraphInvariant, PTL DEF Spec
=============================================================================
