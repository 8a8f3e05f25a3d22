------------------------------ MODULE GraphCycle ------------------------------
(***************************************************************************)
(* One cycle of a Microsoft 365 folder                                     *)
(* (crates/mailbag-providers/src/cycle/graph.rs and pending.rs), while the *)
(* user goes on marking messages and other clients go on changing the      *)
(* mail.                                                                   *)
(*                                                                         *)
(* The cycle is one async function; each action is one stretch of it       *)
(* between two requests to the service or transactions of the store.  A    *)
(* request the service refuses for its token is repeated once with a       *)
(* renewed one: that is the same request, later; without a new token the   *)
(* cycle fails.  Every message counts as recent and its text as returned,  *)
(* so contents are left out; an identity is the service's identifier.      *)
(***************************************************************************)
EXTENDS GraphService

CONSTANTS
    RoundReadingsLimit, \* ROUND_READINGS_LIMIT
    MaxWishes,          \* bound: changes the user makes
    MaxFaults           \* bound: refusals, failures, replays, cancelled cycles

ASSUME CycleAssumption ==
    /\ RoundReadingsLimit \in Nat
    /\ MaxWishes \in Nat /\ MaxFaults \in Nat

VARIABLES
    store,      \* the mail store's rows
    cycle,      \* the running cycle's local variables
    seen,       \* history: what the service held since the cycle started
    outdated,   \* history: of rows stored with an older entry's flags, those
                \* the page's current entry gave
    wishes,     \* how many changes the user made
    faults      \* how many faults there were

vars == <<serviceVars, store, cycle, seen, outdated, wishes, faults>>

Readings == {"FirstFill", "ContinuedFill", "Round", "FullRereading"}

Phases == {"idle",      \* no cycle runs
           "reading",   \* the page at `from` is to be read
           "page",      \* the page's messages `again` are to be read, then stored
           "sending",   \* the pending changes `changes` are to be sent
           "answered"}  \* the service answered `command`

Idle    == [phase |-> "idle"]
NotSeen == [steady |-> {}, ever |-> {}, shown |-> {}]

Init ==
    /\ ServiceInit
    /\ store = [EmptyStore EXCEPT !.folders = [f \in FolderRef |-> NeverSynchronized]]
    /\ cycle = Idle /\ seen = NotSeen /\ outdated = NoRows
    /\ wishes = 0 /\ faults = 0

Running == cycle # Idle

Fault == faults < MaxFaults /\ faults' = faults + 1

Watch(f) ==
    seen' = IF Running
            THEN [steady |-> seen.steady \intersect InFolder(f)',
                  ever   |-> seen.ever \union InFolder(f)',
                  shown  |-> seen.shown \union FlagValues(f)']
            ELSE seen

-----------------------------------------------------------------------------
(* Where the reading starts.                                               *)

\* Mutant: a folder without a saved link is taken for one never read.
WhereToStartAfresh(state, held) ==
    IF state.place = NoPlace THEN [from |-> FirstReading, reading |-> "FirstFill"]
    ELSE [from |-> state.place,
          reading |-> IF state.place.kind = "page" THEN "ContinuedFill" ELSE "Round"]

\* A saved page link is the fill place, a saved position the next round's
\* start.  Without either, rows are those of a stopped full reading.
WhereToStart(state, held) ==
    IF state.place # NoPlace
    THEN [from |-> state.place,
          reading |-> IF state.place.kind = "page" THEN "ContinuedFill" ELSE "Round"]
    ELSE [from |-> FirstReading,
          reading |-> IF held = {} THEN "FirstFill" ELSE "FullRereading"]

\* Where an interrupted round starts again: the server position, if any.
RoundStart(state) ==
    IF state.place # NoPlace /\ state.place.kind = "position" THEN state.place ELSE NoPlace

Start(f) ==
    /\ ~Running
    /\ LET state == store.folders[f]
           start == WhereToStart(state, HeldIn(store, f))
       IN  cycle' = [phase |-> "reading", folder |-> f,
                     from |-> start.from, reading |-> start.reading,
                     stored |-> HeldIn(store, f), round_start |-> RoundStart(state),
                     named |-> 0, listed |-> {}, next |-> start.from,
                     again |-> {}, batch |-> EmptyBatch, outdated |-> NoRows,
                     completes |-> FALSE,
                     changes |-> {}, command |-> {}, answer |-> "none"]
    /\ seen' = [steady |-> InFolder(f), ever |-> InFolder(f), shown |-> FlagValues(f)]
    /\ UNCHANGED <<serviceVars, store, outdated, wishes, faults>>

\* The whole folder is read, compared at its end with what it holds now.
FullRereading ==
    [cycle EXCEPT !.phase = "reading", !.from = FirstReading,
                  !.reading = "FullRereading",
                  !.stored = HeldIn(store, cycle.folder), !.listed = {}]

\* The service no longer accepts the link.  Within a full reading that fails
\* the cycle (EndEarly).
PositionRejected ==
    /\ cycle.phase = "reading"
    /\ cycle.from.kind # "first" /\ cycle.reading # "FullRereading"
    /\ cycle' = FullRereading
    /\ Fault
    /\ UNCHANGED <<serviceVars, store, seen, outdated, wishes>>

-----------------------------------------------------------------------------
(* One page.                                                               *)

\* An entry removes the message from the folder, lists it with every field,
\* or is partial: it names the flags that changed, and whether other fields
\* did.
Removed == [kind |-> "Removed"]
Listed(values) == [kind |-> "Listed", flags |-> values]
Changed(values, other) == [kind |-> "Changed", flags |-> values, other_fields |-> other]

ListedEntries == {Listed(values) : values \in Flags}

PartialEntries ==
    LET someFlags == UNION {[named -> BOOLEAN] : named \in SUBSET MessageFlag} IN
    {Changed(values, other) : values \in someFlags, other \in BOOLEAN}

\* The entries that report the message as the service holds it now: a change
\* since the position may come as a partial one.
EntriesNow(f, m, first) ==
    IF where[m] # f THEN {Removed}
    ELSE {Listed(flags[m])} \union
         {e \in PartialEntries : ~first /\ \A g \in DOMAIN e.flags : e.flags[g] = flags[m][g]}

SomeChange == Changed(NoRows, TRUE)

\* A page's two entries for one message.  A removal met with another entry is
\* trusted neither way: the message is read again.  Flags alone go into the
\* listed entry before them; otherwise the later entry wins.
MergePerMessage(earlier, later) ==
    CASE (earlier = Removed) # (later = Removed) -> SomeChange
      [] earlier.kind = "Listed" /\ later.kind = "Changed" /\ ~later.other_fields ->
            Listed([g \in MessageFlag |->
                       IF g \in DOMAIN later.flags THEN later.flags[g] ELSE earlier.flags[g]])
      [] earlier.kind = "Changed" /\ later.kind = "Changed" ->
            Changed(NoRows, earlier.other_fields \/ later.other_fields)
      [] OTHER -> later

\* Merged, a partial entry only says that its message changed.
Named(entry) == IF entry.kind = "Changed" THEN SomeChange ELSE entry

\* What a page's entries of one message come to: the current one alone; with
\* an older one, in either order, where that makes a difference (more of them
\* come to nothing else); an older one alone, which is no removal.
CurrentAlone(f, m, first) == {Named(entry) : entry \in EntriesNow(f, m, first)}

WithOlder(f, m, first) ==
    UNION {{Named(MergePerMessage(entry, older)), Named(MergePerMessage(older, entry))} :
              entry \in EntriesNow(f, m, first),
              older \in {Removed} \union ListedEntries \union PartialEntries}
    \ CurrentAlone(f, m, first)

OlderAlone == {Named(older) : older \in ListedEntries \union PartialEntries}

\* What a page without older entries says of its messages.
Reported(f, messages, first) ==
    {changes \in [messages -> {Removed, SomeChange} \union ListedEntries] :
        \A m \in messages : changes[m] \in CurrentAlone(f, m, first)}

HeldElsewhere(f, m) ==
    \E n \in store.memberships :
        n.message = Key(f.account, m) /\ n.folder # f

\* Mutant: a round's listed entry is stored as reported.
ReadAgainIfPartial(f, m, entry) ==
    entry.kind = "Changed" \/ (entry.kind = "Listed" /\ HeldElsewhere(f, m))

\* Whether the entry only names the message, which is then read as the
\* service holds it now.
IsReadAgain(f, m, entry) ==
    \/ entry.kind = "Changed"
    \/ /\ entry.kind = "Listed"
       /\ \/ HeldElsewhere(f, m)
          \/ cycle.reading = "Round" /\ StoredIdentities(store, f.account, {m}) # {}

\* What a page's changes say without reading any message again.
BatchFromChanges(f, changes) ==
    [EmptyBatch EXCEPT
        !.removed = {m \in DOMAIN changes : changes[m].kind = "Removed"},
        !.arrived = [m \in {n \in DOMAIN changes : changes[n].kind = "Listed"
                                /\ ~IsReadAgain(f, n, changes[n])} |->
                        [flags |-> changes[m].flags, content |-> "text"]]]

\* How many stored messages the round has named with these changes.
NamedInRound(changes) == cycle.named + Cardinality(DOMAIN changes \intersect cycle.stored)

\* History: the messages to be stored with other flags than the service holds,
\* though the page reports them as they are now.
StoredOutdated(batch, now) ==
    LET older == {m \in now \intersect DOMAIN batch.arrived : batch.arrived[m].flags # flags[m]}
    IN  [m \in older |-> flags[m]]

\* The page is taken; or its round names too many stored messages, and the
\* whole folder is read instead.
TakePage(changes, now, next) ==
    LET f == cycle.folder
        isRound == cycle.reading = "Round"
        batch   == BatchFromChanges(f, changes)
    IN  IF isRound /\ NamedInRound(changes) > RoundReadingsLimit
        THEN cycle' = FullRereading
        ELSE cycle' = [cycle EXCEPT
                !.phase = "page",
                !.named = IF isRound THEN NamedInRound(changes) ELSE @,
                !.listed = IF cycle.reading = "FullRereading" THEN @ \union DOMAIN changes
                           ELSE @,
                !.next = next,
                !.again = {m \in DOMAIN changes : IsReadAgain(f, m, changes[m])},
                !.batch = batch, !.outdated = StoredOutdated(batch, now)]

\* The messages the page reports as they are now: a first reading lists none
\* that left meanwhile.
Reports(f, reading, page) == IF reading.first THEN page \intersect InFolder(f) ELSE page

\* The page's changes with what it says of one more message.
AlsoSaying(changes, m, entry) ==
    [i \in DOMAIN changes \union {m} |-> IF i = m THEN entry ELSE changes[i]]

\* The page may also have an older entry of one message.
ReadChanges ==
    /\ cycle.phase = "reading"
    /\ LET f == cycle.folder
           reading == ReadingAt(f, cycle.from)
           first   == reading.first
       IN  \E page \in PageOf(reading.left) :
              LET now  == Reports(f, reading, page)
                  next == Link(reading, page)
              IN
              \/ /\ \E changes \in Reported(f, now, first) : TakePage(changes, now, next)
                 /\ UNCHANGED faults
              \/ \E m \in Replayable(f, reading, page) :
                 \E changes \in Reported(f, now \ {m}, first),
                    entry \in IF m \in now THEN WithOlder(f, m, first) ELSE OlderAlone :
                    TakePage(AlsoSaying(changes, m, entry), now, next) /\ Fault
    /\ UNCHANGED <<serviceVars, store, seen, outdated, wishes>>

\* One message read again: kept if the service places it in this folder,
\* taken out of it otherwise.
ReadInFolder(m) ==
    /\ cycle.phase = "page" /\ m \in cycle.again
    /\ LET batch == cycle.batch
           read  == [flags |-> flags[m], content |-> "text"]
       IN  cycle' = [cycle EXCEPT
              !.again = @ \ {m},
              !.batch = IF where[m] = cycle.folder
                        THEN [batch EXCEPT !.arrived =
                                [i \in DOMAIN batch.arrived \union {m} |->
                                    IF i = m THEN read ELSE batch.arrived[i]]]
                        ELSE [batch EXCEPT !.removed = batch.removed \union {m}]]
    /\ UNCHANGED <<serviceVars, store, seen, outdated, wishes, faults>>

LastPage == cycle.next.kind = "position"

\* Mutant: the continued fill is complete without the round after it.
CompletesAtLastPage == LastPage

\* Whether the reading's page completes the cycle: a continued fill goes on
\* with the round of the changes made during its pause.
Completes == LastPage /\ cycle.reading # "ContinuedFill"

\* Mutant: every page saves the link to go on from.
StateAfterPageAnyLink == [synchronized |-> Completes, place |-> cycle.next]

\* The folder's state stored with the page: a fill saves the place to go on
\* from, any other reading keeps the round's start until its last page.
StateAfterPage ==
    [synchronized |-> Completes,
     place |-> IF LastPage \/ cycle.reading \in {"FirstFill", "ContinuedFill"}
               THEN cycle.next ELSE cycle.round_start]

\* What a full reading's last page proves gone.
Unlisted ==
    IF LastPage /\ cycle.reading = "FullRereading" THEN cycle.stored \ cycle.listed ELSE {}

\* History: a row written again is as outdated as its new entry.
OutdatedAfterPage ==
    LET written == KeysOf(cycle.folder.account, DOMAIN cycle.batch.arrived)
        older   == KeysOf(cycle.folder.account, DOMAIN cycle.outdated)
    IN  [key \in ((DOMAIN outdated \ written) \union older) \intersect DOMAIN store'.messages |->
            IF key \in older THEN cycle.outdated[key.identity] ELSE outdated[key]]

\* The page is stored whole.  Changes are sent then, but never within a round.
StorePage ==
    /\ cycle.phase = "page" /\ cycle.again = {}
    /\ store' = StoreBatch(store, cycle.folder,
                    [cycle.batch EXCEPT !.removed = @ \union Unlisted,
                                        !.state = {StateAfterPage}])
    /\ outdated' = OutdatedAfterPage
    /\ LET goesOnAsRound == LastPage /\ ~Completes
           withinRound   == ~LastPage /\ cycle.reading = "Round"
       IN  cycle' = [cycle EXCEPT
                !.phase = IF withinRound THEN "reading" ELSE "sending",
                !.from = cycle.next,
                !.completes = Completes,
                !.reading = IF goesOnAsRound THEN "Round" ELSE @,
                !.round_start = IF goesOnAsRound THEN cycle.next ELSE @,
                !.batch = EmptyBatch, !.outdated = NoRows,
                !.changes = IF withinRound THEN {}
                            ELSE ReadPendingChanges(store', cycle.folder)]
    /\ UNCHANGED <<serviceVars, seen, wishes, faults>>

-----------------------------------------------------------------------------
(* The user's pending changes.                                             *)

\* One change is sent.  The service accepts it (2xx); refuses it (4xx), as it
\* does for a message it no longer has; or fails (5xx) or stays silent, having
\* set the flag or not.
SendChange ==
    /\ cycle.phase = "sending"
    /\ \E c \in cycle.changes, answer \in {"2xx", "4xx", "none"} :
          LET there == where[c.identity] # Nowhere IN
          /\ \/ answer # "4xx" /\ there /\ SetFlag(c.identity, c.flag, c.wanted)
             \/ answer # "2xx" /\ UNCHANGED serviceVars
          /\ IF answer = "2xx" \/ (answer = "4xx" /\ ~there) THEN UNCHANGED faults ELSE Fault
          /\ cycle' = [cycle EXCEPT !.phase = "answered", !.changes = @ \ {c},
                                    !.command = {c}, !.answer = answer]
    /\ Watch(cycle.folder)
    /\ UNCHANGED <<store, outdated, wishes>>

\* Mutant: a failure is taken for a refusal.
RefusesTheChangeAnyway(answer) == answer # "2xx"

RefusesTheChange(answer) == answer = "4xx"

\* History: an accepted flag is stored over the older entry's.
OutdatedAfterAnswer(c) ==
    LET key == Key(cycle.folder.account, c.identity) IN
    IF cycle.answer = "2xx" /\ key \in DOMAIN outdated
    THEN [outdated EXCEPT ![key][c.flag] = c.wanted] ELSE outdated

\* An accepted change ends; a refused one is dropped, and any other answer
\* leaves it pending: both fail the cycle.
TakeAnswer ==
    /\ cycle.phase = "answered"
    /\ \E c \in cycle.command :
          /\ store' = IF cycle.answer = "2xx"
                      THEN SettleFlags(store, cycle.folder.account, {c.identity}, c.flag,
                                       c.wanted)
                      ELSE IF RefusesTheChange(cycle.answer)
                      THEN DropPendingFlags(store, cycle.folder.account, {c.identity}, c.flag,
                                            c.wanted)
                      ELSE store
          /\ outdated' = OutdatedAfterAnswer(c)
    /\ IF cycle.answer = "2xx"
       THEN cycle' = [cycle EXCEPT !.phase = "sending", !.command = {}] /\ UNCHANGED seen
       ELSE cycle' = Idle /\ seen' = NotSeen
    /\ UNCHANGED <<serviceVars, wishes, faults>>

SentAll == cycle.phase = "sending" /\ cycle.changes = {}

GoOn ==
    /\ SentAll /\ ~cycle.completes
    /\ cycle' = [cycle EXCEPT !.phase = "reading"]
    /\ UNCHANGED <<serviceVars, store, seen, outdated, wishes, faults>>

Finish ==
    /\ SentAll /\ cycle.completes
    /\ cycle' = Idle /\ seen' = NotSeen
    /\ UNCHANGED <<serviceVars, store, outdated, wishes, faults>>

\* A cycle ends between any two steps: the service fails or refuses a
\* request, the load is cancelled, the program is killed.
EndEarly ==
    /\ Running /\ Fault
    /\ cycle' = Idle /\ seen' = NotSeen
    /\ UNCHANGED <<serviceVars, store, outdated, wishes>>

-----------------------------------------------------------------------------
(* Beside the cycle: the user and the other clients.                       *)

UserWishes(key, flag, wanted) ==
    /\ wishes < MaxWishes /\ wishes' = wishes + 1
    /\ store' = WritePendingFlag(store, key.account, key.identity, flag, wanted)
    /\ UNCHANGED <<serviceVars, cycle, seen, outdated, faults>>

MailChanges ==
    /\ \/ \E m \in MessageId, to \in FolderRef \union {Nowhere} : Move(m, to)
       \/ \E m \in MessageId, g \in MessageFlag : FlagElsewhere(m, g)
    /\ UNCHANGED <<store, cycle, outdated, wishes, faults>>
    /\ Watch(cycle.folder)

CycleStep ==
    \/ PositionRejected \/ ReadChanges \/ StorePage
    \/ \E m \in MessageId : ReadInFolder(m)
    \/ SendChange \/ TakeAnswer \/ GoOn \/ Finish \/ EndEarly

Next ==
    \/ \E f \in FolderRef : Start(f)
    \/ CycleStep
    \/ \E key \in DOMAIN store.messages, flag \in MessageFlag, wanted \in BOOLEAN :
          UserWishes(key, flag, wanted)
    \/ MailChanges

Spec == Init /\ [][Next]_vars

\* A running cycle takes its steps: every request ends with an answer or, by
\* the wait limit, with a failure.  Nothing starts a cycle by force.  A cycle
\* that runs has a step to take, so this is WF_vars(CycleStep), without an
\* ENABLED to evaluate.
FairSpec == Spec /\ ([]<>~Running \/ []<><<CycleStep>>_vars)

-----------------------------------------------------------------------------
(* Safety.                                                                 *)

PendingChange == [identity : MessageId, flag : MessageFlag, wanted : BOOLEAN]

\* The rows keep their types, and a saved place is a position, or the next
\* page of a first reading whose folder is not synchronized.
TypeInvariant ==
    /\ DOMAIN store.folders = FolderRef
    /\ \A f \in FolderRef : LET state == store.folders[f] IN
          /\ state \in FolderState
          /\ state.synchronized => state.place # NoPlace /\ state.place.kind = "position"
          /\ state.place # NoPlace /\ state.place.kind = "page" => state.place.first
    /\ \A k \in DOMAIN store.messages : k \in MessageKey /\ store.messages[k] \in MessageRow
    /\ store.memberships \subseteq Membership
    /\ Running => /\ cycle.phase \in Phases \ {"idle"}
                  /\ cycle.folder \in FolderRef
                  /\ cycle.reading \in Readings
                  /\ cycle.changes \union cycle.command \subseteq PendingChange
                  /\ cycle.batch.removed \intersect DOMAIN cycle.batch.arrived = {}
    /\ faults <= MaxFaults /\ wishes <= MaxWishes

\* What the message's row shows; of an outdated row, what its page's current
\* entry gave instead.  Such a row is one a page listed as it is and then as it
\* was, and the last of a page's entries counts (specs/009 FR-007): only the
\* next change of the message mends it.
StoredFlags(f, m) ==
    LET key == Key(f.account, m) IN
    IF key \in DOMAIN outdated THEN outdated[key] ELSE store.messages[key].server

\* The store shows the message in the folder as the service has it.
Agrees(f, m) ==
    /\ m \in HeldIn(store, f) <=> where[m] = f
    /\ where[m] = f => StoredFlags(f, m) = flags[m]

\* A saved position is a proof (specs/009 FR-007): of every message that did
\* not change in the folder since that position, the store holds what the
\* service has, so the round from it misses nothing, but for rows outdated by
\* their own page.  Rounds and full readings cut short between pages, replayed
\* entries in any order, and messages moved between a page and the reading of
\* one of its messages must not break it.
PositionProvesTheStore ==
    \A f \in FolderRef : LET place == store.folders[f].place IN
        place # NoPlace /\ place.kind = "position" =>
            \A m \in MessageId : changed[f][m] <= place.since => Agrees(f, m)

\* What FolderMirror speaks of: the service's folders, the stored ones, and
\* the cycle, which has mirrored its folder once its reading is stored whole
\* and the changes are sent.
ServerFolders == [f \in FolderRef |-> [m \in InFolder(f) |-> flags[m]]]
StoredFolders == [f \in FolderRef |-> [m \in HeldIn(store, f) |-> StoredFlags(f, m)]]

MirroringCycle ==
    IF ~Running THEN [phase |-> "none"]
    ELSE [phase  |-> IF SentAll /\ cycle.completes THEN "mirrored" ELSE "reading",
          folder |-> cycle.folder,
          steady |-> seen.steady, ever |-> seen.ever, shown |-> seen.shown]

Mirror == INSTANCE FolderMirror WITH
    Folder <- FolderRef, server <- ServerFolders, mirror <- StoredFolders,
    cycle <- MirroringCycle

\* A cycle does what any cycle promises of its folder (specs/009, FR-004):
\* one that ends complete leaves it with every message that was there since
\* it began, none that was not, and flags the service held meanwhile (those of
\* the page's current entry, for a row outdated by its own page); and none,
\* complete or cut short, takes out a message that stayed, whatever pages it
\* misses, links it loses and entries are replayed in any order.
KeepsTheCyclePromise == Mirror!Spec

\* A wish ends only when the user replaces it, the message leaves the
\* account's folders, or the service accepted or refused that very value:
\* not because a page reported it or an answer was lost (specs/011 FR-009,
\* FR-010).
WishEndsOnlyWithProof ==
    [][\A key \in DOMAIN store.messages, g \in MessageFlag, v \in BOOLEAN :
          LET change == [identity |-> key.identity, flag |-> g, wanted |-> v]
          IN  /\ v \in store.messages[key].pending[g]
              /\ key \in DOMAIN store'.messages => v \notin store'.messages[key].pending[g]
              => \/ UserWishes(key, g, ~v)
                 \/ key \notin DOMAIN store'.messages
                 \/ TakeAnswer /\ change \in cycle.command /\ cycle.answer # "none"]_vars

-----------------------------------------------------------------------------
(* Liveness.                                                               *)

\* A folder whose cycles go on, the other clients and the user resting at
\* last, ends up as the service has it, with no wish left: but for rows
\* outdated by their own page, nothing stays listed, stale or pending for good
\* after rejected positions, replays, lost answers and cycles cut short.
Settled(f) ==
    /\ \A m \in MessageId : Agrees(f, m)
    /\ store.folders[f].synchronized
    /\ ReadPendingChanges(store, f) = {}

Converges ==
    \A f \in FolderRef :
        []<>(cycle.phase = "reading" /\ cycle.folder = f) => <>[]Settled(f)
=============================================================================
