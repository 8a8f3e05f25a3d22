------------------------------ MODULE ImapCycle ------------------------------
(***************************************************************************)
(* One cycle of an IMAP folder, Generic IMAP or Gmail                      *)
(* (crates/mailbag-providers/src/cycle/imap.rs and pending.rs, over        *)
(* crates/mailbag-imap/src/reader.rs), while the user goes on marking      *)
(* messages and other clients go on changing the mail.                     *)
(*                                                                         *)
(* The cycle is one async function; each action is one stretch of it       *)
(* between two points where something else can tell the difference: a      *)
(* command to the server, a transaction of the store, or a read of the     *)
(* user's wishes.  A stretch that only writes a batch is joined to the     *)
(* command before it, since a wish commutes with a batch.  The mail worker *)
(* runs one load at a time, so there is one cycle.                         *)
(***************************************************************************)
EXTENDS ImapServer

CONSTANTS
    BatchSize,          \* BATCH_SIZE: missing messages one batch fetches
    UidsPerCommand,     \* UIDS_PER_COMMAND
    MaxWishes,          \* bound: changes the user makes
    MaxFaults           \* bound: refusals, lost connections, cancelled cycles

ASSUME CycleAssumption ==
    /\ BatchSize \in Nat \ {0} /\ UidsPerCommand \in Nat \ {0}
    /\ MaxWishes \in Nat /\ MaxFaults \in Nat

VARIABLES
    store,      \* the mail store's rows
    cycle,      \* the running cycle's local variables, by phase
    seen,       \* history: what the server held since the cycle opened the folder
    wishes,     \* how many changes the user made
    faults      \* how many faults there were

vars == <<serverVars, store, cycle, seen, wishes, faults>>

Phases == {"idle",          \* no cycle runs
           "opened",        \* the folder is open, what is stored is read
           "settling",      \* `changes`: wishes the listing shows as done
           "sending",       \* `changes`: wishes still to send
           "refused",       \* the server refused `command`
           "reading",       \* `command` was sent, its flags are to be read
           "confirming",    \* `command`: the changes the reading confirmed
           "reopened",      \* the folder is open again for the second pass
           "closing"}       \* the second pass is stored

Idle    == [phase |-> "idle"]
NotSeen == [steady |-> {}, ever |-> {}, shown |-> {}]

\* The account's folder list is stored, and no folder was ever loaded.
Init ==
    /\ ServerInit
    /\ store = [EmptyStore EXCEPT !.folders = [f \in FolderRef |-> NeverSynchronized]]
    /\ cycle = Idle /\ seen = NotSeen
    /\ wishes = 0 /\ faults = 0

Running == cycle # Idle

Fault == faults < MaxFaults /\ faults' = faults + 1

\* The session's UIDs still name the messages they named at its opening.
SameNumbering == box[cycle.folder].validity = cycle.numbers.uid_validity

\* The cycle's history when it opens a folder, and as the mail changes.
SeenAtOpening(f) ==
    [steady |-> IdentitiesIn(f), ever |-> IdentitiesIn(f), shown |-> FlagValues(f)]

Watch(f) ==
    seen' = IF Running
            THEN [steady |-> seen.steady \intersect IdentitiesIn(f)',
                  ever   |-> seen.ever \union IdentitiesIn(f)',
                  shown  |-> seen.shown \union FlagValues(f)']
            ELSE seen

-----------------------------------------------------------------------------
(* The state pass: what it lists, and what the listing proves.             *)

\* Mutant: the user's changes are left out of the choice.
PassPlanWithoutPending(numbers, reference, pending_changes) ==
    IF /\ reference # NoPlace
       /\ reference.highest_modseq # NoModseq /\ numbers.highest_modseq # NoModseq
       /\ [numbers EXCEPT !.highest_modseq = NoModseq]
            = [reference EXCEPT !.highest_modseq = NoModseq]
    THEN [lists |-> IF numbers = reference THEN "Nothing" ELSE "ChangedFlags",
          since |-> reference.highest_modseq]
    ELSE [lists |-> "Everything", since |-> NoModseq]

\* Mutant: an equal next UID is taken for equal messages.
PassPlanWithoutCount(numbers, reference, pending_changes) ==
    IF /\ reference # NoPlace /\ ~pending_changes
       /\ reference.highest_modseq # NoModseq /\ numbers.highest_modseq # NoModseq
       /\ numbers.uid_validity = reference.uid_validity
       /\ numbers.uid_next = reference.uid_next
    THEN [lists |-> IF numbers.highest_modseq = reference.highest_modseq
                    THEN "Nothing" ELSE "ChangedFlags",
          since |-> reference.highest_modseq]
    ELSE [lists |-> "Everything", since |-> NoModseq]

PassPlan(numbers, reference, pending_changes) ==
    IF /\ reference # NoPlace /\ ~pending_changes
       /\ reference.highest_modseq # NoModseq /\ numbers.highest_modseq # NoModseq
       /\ [numbers EXCEPT !.highest_modseq = NoModseq]
            = [reference EXCEPT !.highest_modseq = NoModseq]
    THEN [lists |-> IF numbers = reference THEN "Nothing" ELSE "ChangedFlags",
          since |-> reference.highest_modseq]
    ELSE [lists |-> "Everything", since |-> NoModseq]

\* Mutant: the state is completed while messages are missing.
PassStateDespiteMissing(state, numbers, complete, missing) ==
    IF complete /\ ~(state.synchronized /\ state.place = numbers)
    THEN {[synchronized |-> TRUE, place |-> numbers]}
    ELSE {}

PassState(state, numbers, complete, missing) ==
    IF missing THEN {NeverSynchronized}
    ELSE IF complete /\ ~(state.synchronized /\ state.place = numbers)
    THEN {[synchronized |-> TRUE, place |-> numbers]}
    ELSE {}

ListingChanges(listed, stored, removals_proven) ==
    [EmptyBatch EXCEPT
        !.removed = IF removals_proven THEN DOMAIN stored \ DOMAIN listed ELSE {},
        !.flag_states = [i \in {j \in DOMAIN listed \intersect DOMAIN stored :
                                   listed[j].flags # stored[j]} |-> listed[i].flags]]

\* The UIDs the pass asks for.
AskedUids(f, plan) ==
    CASE plan.lists = "Nothing"      -> {}
      [] plan.lists = "ChangedFlags" -> {u \in Uids(f) : box[f].held[u].modseq > plan.since}
      [] plan.lists = "Everything"   -> Uids(f)

\* The listing ends: `reported` is what the server answered, all of it
\* unless it refused to finish.  No command is sent for a pass that lists
\* nothing, nor for a folder whose opening counted no message.
ListingEnds(reported, complete) ==
    LET asked == AskedUids(cycle.folder, cycle.plan)
        silent == cycle.plan.lists = "Nothing" \/ cycle.numbers.message_count = 0
    IN  IF silent THEN reported = {} /\ complete /\ UNCHANGED faults
        ELSE /\ SameNumbering
             /\ \/ reported = asked /\ complete /\ UNCHANGED faults
                \/ ~complete /\ Fault

\* The listed messages by identity, as `identify` gives them.
Identify(f, uids) ==
    [i \in {IdentityAt(f, u) : u \in uids} |->
        LET u == CHOOSE v \in uids : IdentityAt(f, v) = i
        IN  [uid |-> u, flags |-> FlagsAt(f, u)]]

Missing(listed) == DOMAIN listed \ DOMAIN cycle.stored.stored

StatePassBatch(listed, complete) ==
    [ListingChanges(listed, cycle.stored.stored,
                    complete /\ cycle.plan.lists = "Everything")
        EXCEPT !.state = PassState(cycle.stored.state, cycle.numbers, complete,
                                   Missing(listed) # {})]

-----------------------------------------------------------------------------
(* The steps of the cycle.                                                 *)

\* The first opening; its numbers against a synchronized folder's, whose
\* place is NoPlace otherwise, choose the listing.
Open(f) ==
    LET stored  == ReadFolderSync(store, f)
        pending == ReadPendingChanges(store, f)
        numbers == OpeningNumbers(f)
        reference == IF stored.state.synchronized THEN stored.state.place ELSE NoPlace
    IN
    /\ ~Running
    /\ cycle' = [phase |-> "opened", folder |-> f, numbers |-> numbers,
                 plan |-> PassPlan(numbers, reference, pending # {}),
                 stored |-> stored, changes |-> pending, listed |-> NoRows,
                 complete |-> TRUE, missing |-> {}, fetched |-> FALSE, withheld |-> FALSE,
                 sent |-> {}, command |-> {}]
    /\ seen' = SeenAtOpening(f)
    /\ UNCHANGED <<serverVars, store, wishes, faults>>

\* The wishes, read at the opening, whose value the listing shows.
ShownAlready(listed) ==
    {c \in cycle.changes : c.identity \in DOMAIN listed
                           /\ listed[c.identity].flags[c.flag] = c.wanted}

FirstPass ==
    /\ cycle.phase = "opened"
    /\ \E reported \in SUBSET AskedUids(cycle.folder, cycle.plan), complete \in BOOLEAN :
          LET listed == Identify(cycle.folder, reported) IN
          /\ ListingEnds(reported, complete)
          /\ store' = StoreBatch(store, cycle.folder, StatePassBatch(listed, complete))
          /\ cycle' = [cycle EXCEPT !.phase = "settling",
                                    !.listed = listed,
                                    !.complete = complete,
                                    !.missing = Missing(listed),
                                    !.fetched = Missing(listed) # {},
                                    !.changes = ShownAlready(listed)]
    /\ UNCHANGED <<serverVars, seen, wishes>>

\* One flag and value of `changes`: one settlement, or one or more commands.
SameChange(c) == {d \in cycle.changes : d.flag = c.flag /\ d.wanted = c.wanted}

Identities(changes) == {c.identity : c \in changes}

EndChangesTheListingShows ==
    /\ cycle.phase = "settling"
    /\ \E c \in cycle.changes :
          /\ store' = SettleFlags(store, cycle.folder.account, Identities(SameChange(c)),
                                  c.flag, c.wanted)
          /\ cycle' = [cycle EXCEPT !.changes = @ \ SameChange(c)]
    /\ UNCHANGED <<serverVars, seen, wishes, faults>>

\* The sending step reads the wishes as they are now: those of listed
\* messages, unless this cycle sent that very value before.
PlanChanges ==
    /\ cycle.phase = "settling" /\ cycle.changes = {}
    /\ cycle' = [cycle EXCEPT
                    !.phase = "sending",
                    !.changes = {c \in ReadPendingChanges(store, cycle.folder) :
                                    c.identity \in DOMAIN cycle.listed /\ c \notin cycle.sent}]
    /\ UNCHANGED <<serverVars, store, seen, wishes, faults>>

\* The first `n` changes by UID.
LowestUids(n, changes) ==
    LET Uid(c) == cycle.listed[c.identity].uid
    IN  {c \in changes : Cardinality({d \in changes : Uid(d) < Uid(c)}) < n}

\* The mail the command's UIDs still name.
MailOf(command) ==
    {box[cycle.folder].held[u].mail :
        u \in Uids(cycle.folder) \intersect {cycle.listed[c.identity].uid : c \in command}}

\* What was sent for a message's flag: the latest value only.
SentWith(sent, command) ==
    {s \in sent : \A c \in command : s.identity # c.identity \/ s.flag # c.flag}
        \union command

\* One UID STORE.  It completes; the server refuses it, having applied it to
\* some of the messages or none; or the connection is lost and the cycle
\* ends without knowing.
SendCommand ==
    /\ cycle.phase = "sending" /\ SameNumbering
    /\ \E c \in cycle.changes :
          LET command == LowestUids(UidsPerCommand, SameChange(c)) IN
          \/ /\ SetFlag(MailOf(command), c.flag, c.wanted)
             /\ cycle' = [cycle EXCEPT !.phase = "reading",
                                       !.changes = @ \ command,
                                       !.command = command,
                                       !.sent = SentWith(@, command)]
             /\ UNCHANGED faults
          \/ /\ \E applied \in SUBSET MailOf(command) : SetFlag(applied, c.flag, c.wanted)
             /\ cycle' \in {[cycle EXCEPT !.phase = "refused", !.command = command], Idle}
             /\ Fault
    /\ IF cycle'.phase = "idle" THEN seen' = NotSeen ELSE Watch(cycle.folder)
    /\ UNCHANGED <<store, wishes>>

\* The refused value is dropped, and the cycle fails.
DropRefused ==
    /\ cycle.phase = "refused"
    /\ \E c \in cycle.command :
          store' = DropPendingFlags(store, cycle.folder.account, Identities(cycle.command),
                                    c.flag, c.wanted)
    /\ cycle' = Idle /\ seen' = NotSeen
    /\ UNCHANGED <<serverVars, wishes, faults>>

\* Mutant: the command's completion is taken for the confirmation.
ConfirmedUnread(command, reported) == command

\* The commanded changes the reported flags show.
Confirmed(command, reported) ==
    {c \in command : c.identity \in DOMAIN reported
                     /\ reported[c.identity].flags[c.flag] = c.wanted}

ReadFlags ==
    /\ cycle.phase = "reading" /\ SameNumbering
    /\ LET f == cycle.folder
           asked == Uids(f) \intersect {cycle.listed[c.identity].uid : c \in cycle.command}
       IN  \E reported \in SUBSET asked :
              /\ (reported = asked /\ UNCHANGED faults) \/ Fault
              /\ cycle' = [cycle EXCEPT !.phase = "confirming",
                                        !.command = Confirmed(@, Identify(f, reported))]
    /\ UNCHANGED <<serverVars, store, seen, wishes>>

SettleConfirmed ==
    /\ cycle.phase = "confirming"
    /\ \/ cycle.command = {} /\ UNCHANGED store
       \/ \E c \in cycle.command :
             store' = SettleFlags(store, cycle.folder.account, Identities(cycle.command),
                                  c.flag, c.wanted)
    /\ cycle' = [cycle EXCEPT !.phase = "sending", !.command = {}]
    /\ UNCHANGED <<serverVars, seen, wishes, faults>>

\* Nothing is left to send for now.
SentAll == cycle.phase = "sending" /\ cycle.changes = {}

\* The next batch, newest first.
NextBatch(missing) ==
    LET Uid(i) == cycle.listed[i].uid
    IN  {i \in missing : Cardinality({j \in missing : Uid(j) > Uid(i)}) < BatchSize}

\* Mutant: the batches are taken from the start again.
LeftAfterNone(missing, batch) == missing

LeftAfter(missing, batch) == missing \ batch

\* One batch of missing messages: those the account holds already are
\* related with their listed flags, the rows of the others are fetched as
\* they are now.  A message gone meanwhile is left out, and so is one the
\* server withholds, which ends the fill after this batch's sending step.
FetchArrivals ==
    /\ SentAll /\ ~cycle.withheld /\ cycle.missing # {}
    /\ LET f       == cycle.folder
           batch   == NextBatch(cycle.missing)
           known   == StoredIdentities(store, f.account, batch)
           rows    == {u \in Uids(f) : IdentityAt(f, u) \in batch \ known}
       IN  \E answered \in SUBSET rows, withheld \in BOOLEAN :
              /\ batch = known \/ SameNumbering
              /\ ~withheld => answered = rows
              /\ withheld => batch # known
              /\ IF withheld THEN Fault ELSE UNCHANGED faults
              /\ store' = StoreBatch(store, f,
                    [EmptyBatch EXCEPT
                        !.known_arrived = [i \in known |-> cycle.listed[i].flags],
                        !.arrived = [i \in {IdentityAt(f, u) : u \in answered} |->
                                        [flags |-> Identify(f, answered)[i].flags,
                                         content |-> "text"]]])
              /\ cycle' = [cycle EXCEPT !.phase = "settling",
                                        !.missing = LeftAfter(@, batch),
                                        !.withheld = withheld]
    /\ UNCHANGED <<serverVars, seen, wishes>>

\* The second opening, after the fill and the commands.  Another numbering
\* fails the cycle (EndEarly).
Reopen ==
    LET numbers == OpeningNumbers(cycle.folder)
        reference == IF cycle.complete THEN cycle.numbers ELSE NoPlace
    IN
    /\ SentAll /\ ~cycle.withheld /\ cycle.missing = {} /\ SameNumbering
    /\ cycle.fetched \/ cycle.sent # {}
    /\ cycle' = [cycle EXCEPT !.phase = "reopened",
                              !.numbers = numbers,
                              !.plan = PassPlan(numbers, reference, FALSE),
                              !.stored = ReadFolderSync(store, cycle.folder)]
    /\ seen' = [SeenAtOpening(cycle.folder) EXCEPT !.steady = seen.steady]
    /\ UNCHANGED <<serverVars, store, wishes, faults>>

SecondPass ==
    /\ cycle.phase = "reopened"
    /\ \E reported \in SUBSET AskedUids(cycle.folder, cycle.plan), complete \in BOOLEAN :
          LET listed == Identify(cycle.folder, reported) IN
          /\ ListingEnds(reported, complete)
          /\ store' = StoreBatch(store, cycle.folder, StatePassBatch(listed, complete))
          /\ cycle' = [cycle EXCEPT !.phase = "closing", !.complete = @ /\ complete]
    /\ UNCHANGED <<serverVars, seen, wishes>>

\* Nothing is left to do: the second pass is stored, the server withheld a
\* part, or the first pass found nothing to fetch or to send.
Done ==
    \/ cycle.phase = "closing"
    \/ SentAll /\ cycle.withheld
    \/ SentAll /\ cycle.missing = {} /\ ~cycle.fetched /\ cycle.sent = {}

\* The cycle ends as stored, incomplete when the server refused a part.
Finish ==
    /\ Running /\ Done
    /\ cycle' = Idle /\ seen' = NotSeen
    /\ UNCHANGED <<serverVars, store, wishes, faults>>

\* A cycle ends between any two steps: the connection is lost, the load is
\* cancelled, the program is killed; or its UIDs stopped naming its messages.
EndEarly ==
    /\ Running
    /\ IF SameNumbering THEN Fault ELSE UNCHANGED faults
    /\ cycle' = Idle /\ seen' = NotSeen
    /\ UNCHANGED <<serverVars, store, wishes>>

-----------------------------------------------------------------------------
(* Beside the cycle: the user and the other clients.                       *)

UserWishes(key, flag, wanted) ==
    /\ wishes < MaxWishes /\ wishes' = wishes + 1
    /\ store' = WritePendingFlag(store, key.account, key.identity, flag, wanted)
    /\ UNCHANGED <<serverVars, cycle, seen, faults>>

MailChanges ==
    /\ \/ \E f \in FolderRef, m \in Mail : Arrive(f, m)
       \/ \E f \in FolderRef : \E u \in Uids(f) : Expunge(f, u)
       \/ \E f \in FolderRef : Renumber(f)
       \/ \E m \in Mail, g \in MessageFlag : FlagElsewhere(m, g)
    /\ UNCHANGED <<store, cycle, wishes, faults>>
    /\ Watch(cycle.folder)

CycleStep ==
    \/ FirstPass \/ EndChangesTheListingShows \/ PlanChanges \/ SendCommand
    \/ DropRefused \/ ReadFlags \/ SettleConfirmed \/ FetchArrivals
    \/ Reopen \/ SecondPass \/ Finish \/ EndEarly

Next ==
    \/ \E f \in FolderRef : Open(f)
    \/ CycleStep
    \/ \E key \in DOMAIN store.messages, flag \in MessageFlag, wanted \in BOOLEAN :
          UserWishes(key, flag, wanted)
    \/ MailChanges

Spec == Init /\ [][Next]_vars

\* A running cycle takes its steps: every command ends with an answer or,
\* by the socket timeout, with a failure.  Nothing starts a cycle by force.
FairSpec == Spec /\ WF_vars(CycleStep)

-----------------------------------------------------------------------------
(* Safety.                                                                 *)

PendingChange == [identity : MessageId, flag : MessageFlag, wanted : BOOLEAN]

TypeInvariant ==
    /\ DOMAIN store.folders = FolderRef
    /\ \A f \in FolderRef : store.folders[f] \in FolderState
    /\ \A k \in DOMAIN store.messages : k \in MessageKey /\ store.messages[k] \in MessageRow
    /\ store.memberships \subseteq Membership
    /\ Running => /\ cycle.phase \in Phases \ {"idle"}
                  /\ cycle.folder \in FolderRef
                  /\ cycle.numbers \in Place
                  /\ cycle.changes \union cycle.sent \union cycle.command \subseteq PendingChange
                  /\ cycle.missing \subseteq DOMAIN cycle.listed
                  /\ DOMAIN cycle.listed \subseteq MessageId
    /\ faults <= MaxFaults /\ wishes <= MaxWishes

\* The stored flags of a folder's messages.
StoredFlags(f, id) == store.messages[Key(f.account, id)].server

ServerFlags(f, id) ==
    LET u == CHOOSE v \in Uids(f) : IdentityAt(f, v) = id IN FlagsAt(f, u)

\* The store shows the folder as the server has it.
Mirrored(f) ==
    /\ HeldIn(store, f) = IdentitiesIn(f)
    /\ \A id \in IdentitiesIn(f) : StoredFlags(f, id) = ServerFlags(f, id)

\* Saved numbers are a proof (specs/009 FR-005): whenever an opening would
\* return the very numbers a synchronized folder has saved, the store mirrors
\* the folder, so a pass that lists nothing misses nothing.  Numbers taken
\* before the listing, mail changing between the two, missing messages,
\* batches of other labels and cycles cut short must not break it.
NumbersProveTheStore ==
    \A f \in FolderRef :
        /\ box[f].modseqs
        /\ store.folders[f] = [synchronized |-> TRUE, place |-> OpeningNumbers(f)]
        => Mirrored(f)

\* What FolderMirror speaks of: the server's folders, the stored ones, and
\* the cycle, which has mirrored its folder once it has only to end complete.
ServerFolder(f) ==
    [id \in IdentitiesIn(f) |-> ServerFlags(f, id)]

StoredFolder(f) ==
    [id \in HeldIn(store, f) |-> StoredFlags(f, id)]

MirrorCycle ==
    IF ~Running THEN [phase |-> "none"]
    ELSE [phase  |-> IF Done /\ cycle.complete /\ ~cycle.withheld THEN "mirrored"
                     ELSE "reading",
          folder |-> cycle.folder,
          steady |-> seen.steady, ever |-> seen.ever, shown |-> seen.shown]

ServerFolders == [f \in FolderRef |-> ServerFolder(f)]
StoredFolders == [f \in FolderRef |-> StoredFolder(f)]

Mirror == INSTANCE FolderMirror WITH
    Folder <- FolderRef, server <- ServerFolders, mirror <- StoredFolders,
    cycle <- MirrorCycle

\* A cycle does what any cycle promises of its folder (specs/009 FR-004, the
\* module comment of cycle.rs): one that ends complete leaves it with every
\* message that was there since it opened the folder, none that was not there
\* since its last opening, and flags the server held meanwhile; and none,
\* complete or cut short, takes out a message that stayed.
KeepsTheCyclePromise == Mirror!Spec

\* A wish ends only when the user replaces it, the message leaves the
\* account's folders, the server refused that very value, or the server
\* showed that very value since the cycle opened the folder: not because a
\* command was sent, completed or lost (specs/011 FR-007, FR-009, FR-010).
WishEndsWithProof ==
    \A key \in DOMAIN store.messages, g \in MessageFlag, v \in BOOLEAN :
       LET change == [identity |-> key.identity, flag |-> g, wanted |-> v]
       IN  /\ v \in store.messages[key].pending[g]
           /\ key \in DOMAIN store'.messages => v \notin store'.messages[key].pending[g]
           => \/ UserWishes(key, g, ~v)
              \/ key \notin DOMAIN store'.messages
              \/ DropRefused /\ change \in cycle.command
              \/ Running /\ <<key.identity, g, v>> \in seen.shown

\* No step of the cycle, the user or another client ends a wish otherwise.
WishEndsOnlyWithProof == [][WishEndsWithProof]_vars

-----------------------------------------------------------------------------
(* Liveness.                                                               *)

\* Every cycle ends.
CycleEnds == Running ~> ~Running

\* A folder whose cycles go on, the other clients and the user resting at
\* last, ends up as the server has it, with no wish left: nothing stays
\* missing, stale or pending for good after refusals, lost answers and
\* cycles cut short (specs/009, "the folder becomes as the server has it").
Settled(f) ==
    /\ Mirrored(f)
    /\ store.folders[f].synchronized
    /\ ReadPendingChanges(store, f) = {}

Converges ==
    \A f \in FolderRef :
        []<>(cycle.phase = "opened" /\ cycle.folder = f) => <>[]Settled(f)
=============================================================================
