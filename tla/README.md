# Mailbag: a TLA+ model of its mail store, cycles, loads, session and window

Mailbag is a GNOME mail reader in Rust. It takes its accounts from GNOME
Online Accounts, downloads mail over IMAP or Microsoft Graph into one SQLite
store, and shows what is stored. This directory models the parts where order,
failure and concurrency decide whether the program is right, checks them with
TLC on small instances, and proves with TLAPS, for any instance, what the
cycles of every service promise and the invariants of the store, the loads, the
observer, the sidebar, the IMAP reader, the window, the message list and the
reader. Paths below are relative to `src/`.

1. [The system](#1-the-system)
2. [The modules](#2-the-modules)
3. [The runs](#3-the-runs)
4. [Fairness](#4-fairness)
5. [The proofs](#5-the-proofs)
6. [Where the code and its documents differ](#6-where-the-code-and-its-documents-differ)
7. [What is left out, and why](#7-what-is-left-out-and-why)
8. [The plan](#8-the-plan)

## 1. The system

### Threads of control

| Thread | Runs | State it owns |
| --- | --- | --- |
| GTK's main context | the window, the sidebar, the message list and reader, the observer of Online Accounts, access requests | accounts shown, sidebar, selection, the mailbox shown, the list's rows, running load, outcomes, queue of flag writes |
| the mail worker (one thread, started on demand) | loads, one at a time: a folder list or one folder's cycle | the connection of the running load, the cycle's local variables |
| GIO's thread pool | reads of stored rows and contents, flag writes, deletions of removed accounts | nothing; jobs run in any order |
| outside the program | Online Accounts on D-Bus, the IMAP server or Graph, other mail clients | the accounts, the mail |

They meet in the store (one connection behind a mutex; every operation is one
transaction), in the worker's queue and its events, and in a `Cancellable` per
load. GTK's thread never waits for any of the others.

### Components

| Component (crate) | State | Operations | What makes it right |
| --- | --- | --- | --- |
| Mail store (`mailbag-store`) | tables `folder`, `message`, `folder_message`; per flag the server's value and the user's pending one | replace a folder list, store a cycle's batch, write/settle/drop a pending flag, delete other accounts, open or discard the file | no dangling membership, no message outside every folder, removed accounts leave nothing, a wish ends only by its own answer, a text is not lost, one account or folder at a time |
| IMAP cycle (`mailbag-providers/cycle/imap.rs`, `pending.rs`) | opening numbers, plan, listing, missing messages, changes sent | state pass, settle, send, confirm, fetch a batch, reopen, second pass | saved numbers prove the store; a complete cycle mirrors the folder; nothing is removed without the server's word; every cycle ends; repeated cycles converge |
| Microsoft 365 cycle (`cycle/graph.rs`, `pending.rs`) | saved link or position, page, batch, listed messages | first fill, continued fill, round, full rereading, reading one message again, sending | the saved position proves the store; as above |
| IMAP session and transport (`mailbag-imap/{session,transport,mailbox_list}.rs`) | stream, capabilities, what the connection agreed to | connect, secure, sign in, ask for features, open or list | a credential goes out once, over TLS, by a method announced over TLS |
| IMAP reader (`mailbag-imap/reader.rs`, `fetch_responses.rs`) | the mailbox's numbering, `needs_reconnect` | open, reopen, list, fetch rows and texts, flag commands, reconnect | no UID reaches another numbering; every message asked for is accounted for |
| Mail worker and loads (`mailbag-providers/{lib,worker,store_load}.rs`, `mailbag/refreshes.rs`) | running load, outcomes, worker thread, queue | start, access, run, renew a token, write under the lock, cancel, end | one load alive at a time; every load ends; an excluded account gets no outcome and no late row |
| Account updates and deletion (`mailbag/window_ui.rs`, `mailbag-providers/lib.rs`) | visible accounts, deletions in the pool | apply an answer, cancel, delete | a removed account's mail is gone once its deletion ran, whatever load was late |
| Online Accounts observer (`goa-adapter/client.rs`) | connection, read in progress, `refetch_needed`, published update | signal, read, Retry, stop | no change missed, no Retry forgotten |
| Folder lists (`mailbag-providers/folders.rs`) | none | parents, roles, Gmail's container, for the three services | every folder that can be opened gets a row |
| Sidebar and selection (`sidebar_ui.rs`, `accounts.rs`) | rows, labels, nodes, collapsed rows, selection | apply an update, show folders, select, collapse | labels tell accounts apart; what is selected is a row the user sees; ends showing Online Accounts |
| Window reads and flag writes (`mailbag/window_ui.rs`) | numbered reads, mailbox shown, flag-write queue | select, read, read again, handle each event | the list is the selected mailbox's, never goes back, is current at rest; the later of two changes lands last |
| Message list and reader (`mail_ui.rs`, `mail_ui/message_item.rs`) | row objects, the open message, its content read, the read timer | show rows, close and open rows, filter, open, mark, trash | the list settles on the rows; the reader shows a listed message and its own content; a timer marks the message still open |
| Access to accounts (`goa-adapter`) | none | ask for a password or token | ends a load without access |
| IMAP parsing, message content (`mailbag-imap`, `mailbag-content`) | none | answers, part tree, MIME to text, preview | conversions |
| Failures, dialogs, settings, logging | none | wording | none of it is state |

### What is hard in this code

- **A cycle is cut anywhere.** Any command may fail, time out, be cancelled or
  lose its answer; batches before it are stored and wishes before it are sent.
- **Other clients and the user go on.** Mail arrives, moves, leaves and is
  marked between any two commands, and the user changes his mind between a
  command and its settlement.
- **A saved place is a promise.** IMAP numbers or a Graph position let the next
  cycle skip everything; saved once too early, a message is missing for good.
- **Shared rows.** Gmail labels, and Microsoft 365 messages on the move, share a
  row; one folder's cycle must not break what another's saved place proves.
- **Cancellation is not an end.** A cancelled load still holds the connection
  and maybe the store's lock, while its account's mail is being deleted.
- **A UID means nothing by itself.** An unreadable answer costs the connection,
  and the mailbox opened on the next one may be numbered anew.
- **The pool has no order.** Reads, flag writes and deletions overtake each
  other; only numbers, a queue of one and the account lists tell them apart.
- **Coalescing.** The observer and the shown mailbox both merge requests that
  come during a read into one read after it.
- **Rows in motion.** A row closes over time, and while it does, another read,
  another filter or another removal arrives for it.

`PROJECT.json` lists these as 40 hazards, each at the line where it bites and
with the properties that would catch it; every one has at least one.

## 2. The modules

```
StoreRows             rows and operations of the store    `-- StoreRowsProofs
 |-- MailStore        every operation as an action        `-- MailStoreProofs
 |-- ImapServer       external: the mail on an IMAP server
 |    `-- ImapCycle   one cycle over the same rows ----------.  `-- ImapCycleProofs
 `-- GraphService     external: the mail at Microsoft Graph   |  implement
      `-- GraphCycle  one cycle over the same rows -----------+-> FolderMirror
           `-- GraphCycleProofs
ImapSession           opening a session, command by command
 `-- MailboxReader    the reader's calls on that session      `-- MailboxReaderProofs
Loads                 loads, cancellation, deletions          `-- LoadsProofs
AccountObserver       observer of Online Accounts         ---.
 `-- AccountSidebar   the sidebar that applies its updates   +-- UiProofs
FolderLists           the three services' folder lists    ---|
                      (operators)                            |
MailUi                the message list and the reader     ---'
WindowReads           what the window reads and writes        `-- WindowReadsProofs
MC*                   constants and symmetry for TLC
```

An operator named "Mutant" in a comment is a plausible bug, used to confirm that
the properties notice it; nothing else refers to it.

**StoreRows, MailStore** (`mailbag-store/src/{lib,folders,open}.rs`,
`schema.sql`). A store is a record of three tables. The operators follow the SQL
statement by statement: the cascade of a deleted folder, the upsert that keeps
pending values and decides between two contents, `NULLIF` that ends only an
equal wish, accounts found by `SELECT DISTINCT account FROM folder`. A row keeps
what the store decides on: flags, wishes and the kind of content. The server
position, fill place and opening numbers are one `place`, as they are always
written together. `MailStore` makes each operation one step (the mutex and the
transaction) with the cancellation asked for under the lock, and leaves the
callers open: what holds here holds of every caller.

**ImapServer, ImapCycle** (`cycle/imap.rs`, `cycle/pending.rs`, `cycle.rs`,
`mailbag-imap/src/reader.rs`). `ImapServer` has folders with UIDs, UIDVALIDITY,
optional mod-sequences and flags, which other clients change at any time; in the
accounts of `Gmail` a message is in several labels and shares its flags. It is
external: only what the code asks of it. `ImapCycle` is the async function cut
where something else can tell the difference: at a command, at a transaction
and at a read of the user's wishes. `Open` picks the plan (`PassPlan`),
`FirstPass` stores the listing, `EndChangesTheListingShows`, `PlanChanges`,
`SendCommand`, `ReadFlags`, `SettleConfirmed` and `DropRefused` handle the
wishes, `FetchArrivals` fills by batches newest first, `Reopen` and `SecondPass`
check what changed, `Finish` and `EndEarly` end it. Three liberties, each
because nothing can observe the difference: `store_batch` commutes with a wish
and is joined to the command before it; the groups of commands of different
flags and values are taken in any order (the code has a fixed one); a refused
STORE may have been applied to any subset of its messages. `seen` is a history
variable for the properties and the refinement only. `MCImapServices` has an
account of either service, of which a behaviour uses one.

**GraphService, GraphCycle** (`cycle/graph.rs`, `cycle/pending.rs`,
`mailbag-graph`). The service keeps each message in one folder with a delta
reading by pages. What it is assumed to answer is what the repository's research
(specs/009, research 5) documents or measured: a first reading lists the folder
as it began, each page current at its moment; a round reports every change since
its position; the entries of a page come in no certain order, and beside the
message's current entry, before or after it, there may be an older one of any
kind: a removal, the whole message, or a partial one. In a round an older entry,
but no removal, may also come alone, of a message reported later or reported
before and still held. An older removal alone is left out: research 5 takes the
order across pages to stand ("Across pages the order stands"), and such a removal
would be obeyed. `MergePerMessage` is the merge, and `WithOlder` what it can come
to; `IsReadAgain` decides which of the results are only a name.

One of these results is stored although the page knows better: a message the
account lacks, or any message of a first or full reading, listed as it is and then
as it was. The last entry counts (specs/009 FR-007), so the older flags are
stored, the position is saved after it, and only the message's next change mends
the row. In a round of a message the account holds this cannot happen, since such
an entry is read again. The history variable `outdated` keeps, of exactly these
rows, the flags of the current entry; the properties compare those with the
service's (`StoredFlags`), and everything else of the row as stored. A row leaves
`outdated` when it is written again; the mutant of `IsReadAgain` shows that a
row older than the saved position for any other reason is still found.

`Start` chooses between first fill, continued
fill, round and full rereading from the saved place and the rows held;
`ReadChanges`, `ReadInFolder` and `StorePage` handle a page, `PositionRejected`
and the round's limit lead to the rereading, `SendChange` and `TakeAnswer` send
wishes between pages but never within a round. A renewed token is the same
request, later. Every message counts as recent, so its text always comes.

**FolderMirror** (the module comment of `cycle.rs`). What both cycles promise,
said without UIDs, pages or positions: a cycle that ends complete leaves every
message that stayed in the folder, none that was never there, and flags the
server held meanwhile; no batch takes out a message that stayed or adds or
removes one in another folder. Each cycle instantiates it with a refinement
mapping (its server's folders, the store's effective rows, the running cycle
with its history) and the property `KeepsTheCyclePromise` is its specification:
every step of a cycle is one of `ServerChanges`, `Begin`, `LookAgain`, `Store`,
`Stop` or a stutter. The phase "mirrored" is claimed where the code would end
the cycle as complete.

**ImapSession, MailboxReader** (`mailbag-imap/src/{session,transport,
mailbox_list,reader,fetch_responses}.rs`). The session is the sequence of
awaits of `Session::open`: implicit TLS or STARTTLS, the capabilities that are
asked for again after each change of trust, SASL or LOGIN, COMPRESS, UTF8=ACCEPT,
ID, SELECT or LIST, each with the answers a server may give and the step its
failure is reported for. The reader's calls run on it: a command whose answer
cannot be parsed sets `needs_reconnect` and the next command opens a session
first and compares the numbering; rows that did not come are asked for again
without their structures, and structures one by one. A server may refuse any
command for any reason, also the one for a single structure: because another
client deleted the message meanwhile (`fetch_responses.rs:27-28`), or in passing
without saying UNAVAILABLE. The row then stays without structure although the
message may be readable (`reader.rs:364-377`): `EveryMessageIsAccountedFor` says
that only a refusal of that very command, or an answer that cannot be parsed,
does this, and nothing the server did about another message of the call.
Messages a text command's refusal leaves unanswered are reported as not
returned, which is the code's design.

**Loads** (`mailbag-providers/src/{lib,worker,store_load}.rs`,
`mailbag/src/{refreshes,window_ui}.rs`). A load goes from `access` over
`queued`, `running`, `writing` (under the store's lock) and `renewing` to
`ended` and `over`. The window's `running_load` and `outcomes`, the worker's
thread with its death in two steps (its events close before its queue does) and
the deletions that wait in the pool are separate state. The store is the set of
accounts with rows. A failed or incomplete account check changes no visible
state and is omitted. A deletion that comes late may erase the fresh mail of an
account enabled again meanwhile; specs/007 (research 6) accepts that, the next
refresh brings it back, and the properties state it.

**AccountObserver, FolderLists, AccountSidebar** (`goa-adapter/src/client.rs`,
`mailbag-providers/src/folders.rs`, `mailbag/src/{accounts,sidebar_ui}.rs`). The
observer has its connection, subscription, one read at a time with
`refetch_needed`, Retry, stop; signals and answers cross the bus in any order,
which includes the bus's own. `AccountSidebar` extends it: each update the
observer publishes is applied in the same step to the account list (which
accounts are shown, their labels numbered apart, their problem) and to the tree
(rows, headings, folders nested by their parents, collapsed rows, the selection
and what clears it). `FolderLists` makes the folder lists of Generic IMAP, Gmail
and Microsoft 365 from what each server states, and `MCAccountSidebar` takes its
lists from there, so the sidebar nests what the services' code produces.

**WindowReads** (`mailbag/src/{window_ui,sidebar_ui,accounts,mail_ui}.rs`). The
shown mailbox's five states with the numbered read behind it, the due reread,
the folder-list read of all accounts, the selection, the page the list area
shows (`Page`, in the order of `shown_mail`), the load's events and the queue of
flag writes. A mailbox's rows are a version that every change of them raises, so
"older" has a meaning. `screen` is what `Render` put there. Pool jobs see the
store when they run (`RowsRead`) and are handled later (`RowsAnswered`).
`lists.unread` and `overtaken` are history variables that name the excuses of
two properties: a folder-list read that failed and was forgotten, and mail
erased under a shown mailbox by a late deletion or by two folder lists.

**MailUi** (`mailbag/src/mail_ui.rs`, `mail_ui/message_item.rs`). The methods of
`MailUi` as operators from one widget state to the next, and one action per
callback: rows shown or cleared by the window, rows opened by frames, closed by
their revealers' timers, the change that waits for the closing rows, the filter,
a row opened, trashed or marked, content answers and the read timer. Content
reads are not numbered in the code: an answer is kept if its message is still
open, so that of two answers for the same message the older may come last.
A message trashed in the window stays out while the folder is shown
(specs/010 FR-010), although the comment of `remove_in_window` speaks of the
next read.

## 3. The runs

All runs finish in about three minutes or less with two workers, `accounts` and
`mail_ui` taking the longest.

| Run | What it asks | Instance |
| --- | --- | --- |
| `store_shared` | Does any order of store operations leave a dangling membership, an orphan or a removed account's row, end a wish, lose a text or empty another folder? | 1 account, 2 folders sharing 2 messages, 1 flag, batches that name up to 2 messages, three content kinds |
| `imap` | Do saved numbers prove the store, does the cycle implement `FolderMirror`, when does a wish end? | an account of either service, one of them used: Generic IMAP with 1 folder, 2 mails, 2 UIDs, 3 mod-sequences, 2 numberings, with and without mod-sequences, 2 wishes where it is numbered once; Gmail with 2 labels, 1 mail, 3 mod-sequences, 1 wish; 1 fault, batches and commands of 1 |
| `imap_liveness` | Does every cycle end, and do repeated cycles converge? | 1 folder, 2 mails, 3 mod-sequences, 1 wish, 1 fault |
| `graph` | Does a saved position prove the store, through rereadings, replays, moves and faults; does the cycle implement `FolderMirror`; when does a wish end? | 2 folders, 2 messages, 2 changes, pages of 1 message with up to 2 entries, round limit 1, 1 wish, 2 faults |
| `graph_converges` | Do repeated Microsoft 365 cycles converge? | 1 folder, otherwise as `graph` |
| `accounts` | Is a change missed or a Retry stranded; do labels tell accounts apart, is the selection a row, does every folder have one, does the sidebar end up to date? | 4 account lists over 3 accounts with colliding names, 5 folder lists of the three services, 2 changes, 1 Retry, 1 failure, 3 choices |
| `loads` | One load alive, no late row, no outcome of an excluded account; does every load end, but for the stranded one below? | 2 accounts, 2 loads, 2 answers, 1 batch, 1 failed deletion, 1 dead thread |
| `loads_stranded` (violation) | Does every load end? | 1 account, 2 loads, 4 answers, 1 dead thread |
| `window` | Is the list the selected mailbox's, current at rest, never older, kept while reread; does the later change land last? | 2 mailboxes of 1 account, up to 2 selections, 2 answers, 1 load, 2 flag changes, 1 failure, 4 inputs in all |
| `window_sidebar` (violation) | Does a stored account ever rest on "No mail loaded"? | 2 accounts, 5 inputs in all |
| `mail_ui` | Does the list follow the rows, and settle; does the reader show a listed message of its account; is a read timer always the open message's? | 2 folders of an account and 1 of another with an equal identity, 2 messages with changing looks and flags, 3 reads, 2 content reads in flight |
| `session` | Does the credential go out once, does a UID keep its meaning, is every message accounted for? | every encryption, credential and service against servers of four kinds; 2 UIDs, 2 calls, 1 renumbering |

### Why the bounds are enough to be worth running

- Two messages and two folders are the fewest at which a row is shared, a
  delivery and a removal cancel out in a count, one message of a batch is known
  and another is not, and two entries of a page meet. One account is enough for
  the store because `OneAccountWritten` proves, for any number of accounts, that
  a write changes one account's rows only; where accounts interact (`loads`,
  `accounts`, `mail_ui`, `window_sidebar`) there are two or three.
- Batches, commands and pages of one message make every multi-message operation
  take several steps, so that everything else can come in between.
- Mod-sequences, UIDs, numberings and versions only need to be told apart;
  the bounds allow every message to arrive twice or be renumbered, and to be
  marked between the two passes.
- One fault in a cycle leaves the rest of the behaviour to repair it; Graph has
  two so that a rejected link can meet another fault during the rereading.
- `accounts` has two accounts of one name and a third named as the second is
  numbered, the fewest at which a label can collide with a generated one. Its
  folder lists are the least that nest three levels, hold a folder that cannot be
  opened with one whose parent is not listed, lose Gmail's container, and take
  Microsoft 365's parents; a folder of the first cannot be opened in the second.
- Three reads are what it takes in `mail_ui` for a row to leave, come back while
  it closes, and change again. An edited draft's row (another look) and a row
  read and starred elsewhere are separate messages so that both meet in a read.
- Two calls and one renumbering let the numbering change before, within and
  between calls; two UIDs let one message be unreadable and another refused.
- `MaxInputs` bounds the window's inputs of all kinds together, so that any mix
  of four occurs; the answers to them are unbounded and come in any order.
- `MaxRetries`, `MaxAnswers`, `MaxDeaths`, `MaxFailures`, `MaxWishes`,
  `MaxChanges`, `MaxLoads`, `MaxBatches`, `MaxChoices`, `MaxUpdates`,
  `MaxReads`, `MaxRequests`, `MaxCalls`, `MaxRenumberings` are the inputs of
  outsiders and never guard a step the program takes by itself, except
  `MaxBatches`, which ends a mailbox's fill.

Every property is also run against a mutated definition (`mutants` in
`PROJECT.json`): a dropped guard, a forgotten reset, a swapped check. Symmetry is
used only in runs without liveness, over model values the modules never compare
in order. `CHECK_DEADLOCK FALSE` is set where the bounded inputs run out and the
program may rest: the sidebar, the loads, the window and the reader. The type
invariants of the store (proved, `TypeCorrect`), of `ImapCycle` and of
`WindowReads` document their variables; the runs spend their time on the other
properties.

## 4. Fairness

Nothing forces a user, a server change or an account change to happen. Fairness
is weak and covers only what the program does by itself once it has begun:

- `ImapCycle`, `GraphCycle`: `WF(CycleStep)`. tokio polls a ready task, and every
  command or request ends with an answer or by a timeout (30 s on the IMAP
  socket, 60 s on a Graph request); the timeout is `EndEarly`. Cycles are *not*
  forced to start: `Converges` assumes them (`[]<>` a folder's cycle begins).
  `GraphCycle` states the same fairness as "infinitely often no cycle runs, or
  infinitely often a `CycleStep` is taken": a running cycle always has a step to
  take (each phase has one, and `Running` equals `ENABLED <<CycleStep>>_vars` on
  the run's instance), and TLC need not compute a whole page's batch to know it.
- `Loads`: `WF(LoadStep or WorkerGone)`. D-Bus calls have a default timeout, the
  worker's thread runs its queue, GLib delivers events that are ready.
- `AccountSidebar`: `WF(ObserverStep)` on the observer's own variables, for the
  same reasons; the sidebar applies an update in the callback that publishes it.
  The accounts change finitely often in a bounded instance, which is what "once
  they rest" means in `SidebarEndsUpToDate`.
- `MailUi`: `WF(ChangeAfterClosing)` and `WF(Frame)`: a GLib timeout or tick
  callback that is registered runs. Nothing forces a content answer.

With weak fairness of a disjunction a step the model allows may be put off for
another of the same program for ever only if the others never run out; they do,
so no strong fairness is needed.

## 5. The proofs

TLAPS proves these for every value of the constants that meets the modules'
assumptions (`NoPlace \in Place`, `Batch \subseteq FolderBatch`, no batch removes
a message it brings, numeric bounds are naturals, `Accounts` finite in `Loads`,
`NoLoad` not a number, a folder numbered at least once, `Uids` finite naturals
and `Nothing` not one of them in `MailboxReader`, mailboxes, accounts, loads and
`Nothing` told apart in `WindowReads`, and those of the sidebar and of the message
list given with their proofs). The bounds themselves are arbitrary, so they are no restriction.

**StoreRowsProofs, MailStoreProofs.** `Kept == store \in Tables /\
ReferencesHold(store) /\ NoOrphans(store)` is inductive (`StoreKept`). The three
need each other: deleting messages without a folder keeps references only because
the memberships deleted with them were theirs, and an orphan cannot appear
because every deletion of a membership is followed by the clean-up of its
account, which relies on the account of a membership's folder and message being
one. From it follow `TypeCorrect`, `MembershipsCorrect`, `NoOrphansEver`, and
`DeletionTotal`, which is the reason the code may look for accounts in `folder`
only: a message of a removed account has a folder of that account, so its account
is found. `StoreRowsProofs` says once, per table operation and transaction, what
it preserves, which accounts it touches and which wishes and texts it may end;
the proofs of the store and of the cycles cite it.

`OneAccountWritten`: a folder list, batch, wish or answer changes one account's
rows although identities repeat across accounts; each operation leaves every
other account's rows (`SameElsewhere`), and the operations compose.
`WishEndsByAnswer`, `ContentKept` and `RemovalLocal` are the store's action
properties: per operation it is shown whether rows that stay keep their wishes
and contents (`RowsGoOn`), and which folders lose messages (`LosesFromOne`). A
batch is the hard one: it removes, marks, upserts and relates in a row, and a
message it deleted and inserted again would lose its wishes. `NoOrphans` makes
the removal delete named messages only, and `BatchNamesOnce` keeps a batch from
bringing one of them back; both are needed.

**GraphCycleProofs.** The theorems assume `LinksArePlaces`: every link the
service gives is a `Place` and `NoPlace` is none of them, which the instance
TLC checks satisfies. `PositionProvesTheStore` is far from inductive: a page is
read at one moment, its messages are read again at later ones, the batch is
stored at another and its position becomes the saved one only at the end. So
`Invariant` says what each of these proves of the messages that have not changed
since the link the reading goes on from (`Covered`): the saved places, of page
links too (`SavedProves`); the page in hand and the batch made of it, or that a
full reading has not listed the message (`OnwardProves`, `PageProves`); that a
message about to be stored is in no other folder whose saved place vouches for
its flags, as both folders share the row (`ArrivedFromNowhere`); where each
reading goes on and what it keeps of the saved place (`ReadingsGoOn`); what a
full reading compares with (`ReadingsCompare`); and that the value of an accepted
change, stored later, is still the message's wherever a link covers it
(`AcceptedIsHeld`). Where the page's own order outdated a message, its current
entry stands in for the stored flags: in the batch (`BatchFlags`), and in the row
(`StoredFlags`). Each part is needed by the step of another. From it follow
`GraphTypes`, `GraphPositionProvesTheStore` and `GraphWishEndsOnlyWithProof`.

`GraphKeepsTheCyclePromise` is the step simulation of `FolderMirror`. Its own
invariant, `Promise`, relates the history since the cycle began to the reading:
what stayed is in no removal and, in a full reading, listed or still to be
listed; what the reading has reported will be stored with flags shown since, or its
page's current entry had them (`WillBeMirrored`); an accepted value was shown. It holds only of a reading
begun by this cycle (`OwnReading`), which is why a continued fill must be
followed by a round before the cycle may end complete. `Mirrored`, what
`FolderMirror` asks of the store at that moment, follows from both invariants.

`GraphCompleteStaysMirrored`: a folder the cycle has found complete shows what
`FolderMirror` asks until the cycle ends, although the service's folders go on
changing. This is what "complete" means.

**ImapCycleProofs.** The theorems assume `NumbersArePlaces`: every opening's
numbers are a `Place`, `NoPlace` is none of them, and what names a message (its
place under a numbering, or Gmail's identifier) is a `MessageId`; the instances
TLC checks satisfy it. They hold of Generic IMAP and Gmail accounts in one store,
with and without mod-sequences, for any batch and command size.
`NumbersProveTheStore` is not inductive: an opening's numbers are taken at one
moment, the listing at a later one, its rows and the missing messages are stored
later still, and the numbers only at the end, or after a second pass. `Invariant`
says what numbers prove (`Proves`): if no message arrived since, each of the
folder's is held or still missing, and no more are held than the numbers count;
and a held message whose mod-sequence is not newer shows its flags. That is said
of the saved numbers (`SavedProves`), of the opening before its listing
(`OpeningProves`, whose reference is what the plan goes on from), and of the
listing until the second opening (`FillKeeps`). The rows shared by Gmail's labels
are the hard part: a batch of one label, or a settled wish, rewrites a row whose
flags another label's numbers vouch for. `StillShows` and `Answered` are the
answer: a value read earlier and written later is still the server's wherever
some numbers vouch for the message (`Vouched`), since a change since would have
raised the mod-sequence beyond them, in every label. The counting argument (every
message of the folder held, and no more held than counted, so nothing else is)
is where `pass_plan` may skip the listing; it needs finite sets. From
`Invariant` follow `ImapTypes`, `ImapNumbersProveTheStore` and
`ImapWishEndsOnlyWithProof`.

`ImapKeepsTheCyclePromise` is the step simulation, with an invariant of its own,
`Promise`: a message that stayed since the opening is held or in `missing`, was
listed or is still to be listed with flags shown meanwhile, and nothing is held
that was not there; it says of each phase what the plan's listing may leave out
and why the numbers make up for it. `Reopen` is `LookAgain`: what was there and
what was shown counts from the second opening on, so a message that left before
it must be gone from the store and flags it no longer has must be read again. `ImapCompleteStaysMirrored` is the IMAP side of
`GraphCompleteStaysMirrored`.

**UiProofs.** Three parts: the observer, the sidebar it feeds, and the message
list with its reader.

*The observer.* `CurrentWhenIdle` is not inductive. The invariant `IInv` says
who vouches for a difference between `goa` and what was published: a signal on
its way, a read not yet answered, or `refetch_needed`; and that a pending Retry
has a read. It gives `NoChangeMissed` and `NoRetryStranded` for any number of
changes, Retries and failures. `SidebarObserves` is the refinement `SidebarSpec =>
Spec`: every step of the composed program is one of the observer or leaves it
alone, so both hold with the sidebar too.

*The sidebar.* `SidebarIInv` adds to `LabelsTellApart` and `SelectionIsShown`
what rows and nodes are made of (`AccountRows`, `AccountNodes`). It assumes of the
accounts only that their identities are numbered in order and their names are
sequences (`SidebarAssumption`). Labels are
given in order, each avoiding every name and the labels before it, so two facts
are needed: that a number free of both exists (`Numbered` chooses among one more
candidate than there are labels in use, and candidates differ in length, so
`NumberedIsFree` counts), and that labels exist at all. The second is what
induction would give: `Labels` is a recursive function, over the accounts in
order. With it: a label avoids those given before, so the later of two equal
labels contradicts its own choice (`SidebarLabelsTellApart`). A selection
survives each step for a reason of its own (`SidebarSelectionIsShown`): an update
keeps the nodes of accounts that stay, a list or a collapse looks the selection up
in the tree it leaves, an expansion only adds rows (`ExpandingHidesNone`).

`SidebarShowsEveryFolder` has one hypothesis, that the stored folder lists are
what the providers' code makes of a listing (`IsMade`, which the lists TLC checks
satisfy by their construction with the same operators): of any mailboxes whose
names have a part at least, or of any Graph folders whose parents make no cycle.
`ImapFoldersAreTree`, `GmailFoldersAreTree` and `GraphFoldersAreTree` show that
every set of folders then has one whose parent is the account or outside the set.
For IMAP that is a mailbox with the shortest name; for Gmail the containers are
gone, and their children are under the account. `ShownFolders` is a least fixed
point, so a folder not shown would be in a set that contradicts this.

*The message list and the reader.* `ListFollowsRows` is not inductive; `UiIInv`
has four parts. `Base`: the fields' types; the list is empty without a folder and
otherwise of its account; the content shown and the timers are of the message the
reader opened. `OpenIsListed`: an open message has a row,
which is what makes an identity tell whose answer a late content is.
`GoneWasLast`: once an answer has closed the reader under the filter, nothing is
open until the list changes, so that only one row can be left behind. `Follows`:
without a pending change the rows are those expected, each open or about to open.
A list that changes at once becomes the shown rows, and
one that waits is left to the next read, filter, removal or timer, whichever
comes first; `ChangedShows` and `UpdateShownKeeps` say that each of them then
makes the same list.
From it follow `UiListFollowsRows`, `UiReaderShowsListedMessage` and
`UiReadTimerIsOfOpenMessage`, for any folders, identities, rows, number of reads
and answers. The assumptions: the rows a read may find are of listed identities
(`MailUiAssumption`), and `Nothing` is no message and no read
(`NothingAssumption`).

*In place of induction.* `Labels` and `ShownRows` are recursive functions over
naturals, and what they compute is proved without an induction theorem: `Least`,
from the well-foundedness of `<`, gives the first position where a claim fails,
and the recursion at that position contradicts it. `FirstShownExists` and
`LabelsOfFirst` show in this way that the function the definition chooses exists,
which is what lets its equation be used.

**LoadsProofs.** `IInv == TypeInvariant /\ GtkKnows /\ LockOrders`. `GtkKnows`:
loads are numbered in order, only the running load can be alive, an outcome's
load is over and was not cancelled, and shown accounts have Mail on.
`LockOrders`: the lock is held by the load that writes; once the latest answer's
deletion has run, what is stored and what is being written belongs to accounts
with Mail; and of the deletions that wait, the latest answer's keeps exactly
those. From it follow `LoadsTypes`, `OneLoadAlive`, `LateResultsOut` and
`OutcomesShown`. `LateResultsOut` is the delicate one: it is the check under the
lock, not the cancellation, that orders the write before the deletion.

**MailboxReaderProofs.** Three invariants, one for each property. `SignInInv`:
nothing was sent before the sign-in stage, and what the session knows of the
server at that stage came over TLS; so `CredentialOnce`. `NumberingInv`: an open
session is of the numbering it selected, and while calls run that is the caller's
(`UidsKeepTheirMeaning`). `AccountedInv`: for each message a call still owes,
whether its row, its structure or its text was asked for, came, or was refused, and which structure
commands were refused; a
message that is gone stays gone, since numberings only go up; so
`MessagesAccountedFor`, for any set of UIDs.

**WindowReadsProofs.** `ShowsSelectedMailbox` is not inductive: an answer that is
on its way says nothing of the selection. `ShownInv` says what the numbers are
for: no read is numbered higher than the latest, the read with the latest number
is of the mailbox held, a mailbox held is the selected one (so forgetting takes a
new number, which puts every read out of reach), and what was found is its. Every
handler fills the list through `Render`, and a list kept while its mailbox is
read again was that of the same selection. From it follows
`SelectedMailboxShown`. `QueueInv` is the same for flag changes: they wait in the
order they were made, what was written is no newer than any that waits, and at
most one job of the pool may write, the head's; so `LaterChangeLast`.

The properties of what is current need to know who vouches for a difference
between the window and the store. `HeldInv`: the mailbox held is being read if,
and only if, one job has its latest number, so the window never waits for a read
nobody runs. `RowsInv` orders four versions of the selected mailbox, of the
screen, of the rows found, of what the latest read found and of the store, and
says that an older one is *reported* (a `StoreChanged` event of its account's
load, or a flag write that landed, not yet answered) or read once more. Each
write of the store is one such report; each report, when handled, starts a read,
marks one as due, or finds one that has not run; the exception is mail erased
under the window (`Overtaken`). `ListsInv` says the same of the folder lists,
reported by the load's result. `ScreenInv` ties the screen to the rows found, and
`AwaitedInv` says why a mailbox held may be unread: its load runs, or failed.
Together they give `ListCurrent`, `SidebarCurrent`, `ListNeverBack` and
`RowsStay`, so every property `window` checks is proved.

Every invariant and every action property of the passing runs is proved, and so
is each refinement. Only model-checked are the liveness properties, since fairness
and ENABLED are out of the prover's reach: `CycleEnds` and `Converges` of the IMAP
cycle, `Converges` of the Microsoft 365 one, `RetryEnds` and
`SidebarEndsUpToDate`, those of the loads' ends, and `ListSettles`. What TLC found
violated (section 6) is, of course, not claimed.

## 6. Where the code and its documents differ

**A load stranded in a dying worker's queue** (`loads_stranded`). `worker.rs:85-88`
says a load always ends, "even when the worker stops". A worker's thread that
unwinds from a panic while dropping a cancelled load first drops that load's
event sender, which frees the refresh actions, and only then the queue's
receiver. A load whose request is sent between the two finds the queue open and
is never read; the sender of its events is kept alive by the window's own end of
the channel, so its end never comes. The gap must be as long as Online Accounts
takes to give access, so this is very unlikely; nothing in the code orders the
two. `loads` shows that it is the only way a load fails to end.

**A silent "No mail loaded"** (`window_sidebar`). All folder lists are read in one
job, and `start_load` forgets that the job failed. If the load then fails, no
one reads the lists again, and another account, whose folder list is stored,
stays on "No mail loaded" without failure or Retry. `specs/008-folders/spec.md`
lines 415-417 ask for the failure page with Retry, "not a silent 'not loaded'".

Without a run of its own, met while modelling `GraphCycle`: a page that lists a
message the account lacks as it is and then as it was leaves the older flags
stored under a saved position. This is FR-007 of specs/009 ("the last entry
received for a message wins", `spec.md:243`), so it is no divergence of the code;
but FR-001 asks that every change the service reports before a cycle be stored,
and the reason FR-007 gives for reading known messages again in a round (an entry
may be older) holds of an arriving one too.

Also without a run of its own, met while modelling `MailUi`: a row that starts leaving
in the frame right after it arrived is opened again by the tick callback of its
arrival while the change of another leaving row waits. specs/010 FR-006 excludes
opening a leaving row; it leaves the list with that change at the latest, as `ListSettles`
shows.

## 7. What is left out, and why

- *Widgets, wording, toasts and notices, titles, keyboard focus, logging,
  settings*: no state shared with the rest.
- *TLS, sockets, parsing (part tree, UTF-7), MIME decoding, previews, the tables
  of role names*: conversions and input/output; their tests state them input by
  input. A content is its kind; a sign-in method is its name.
- *A server that states no UIDVALIDITY*, which RFC 3501 requires: the reader then
  has nothing to compare and takes any numbering for the same.
- *The server's alerts and BYE texts*: kept by the code for a failure's wording.
- *Loss of the last commits after a power failure* (WAL, `synchronous=NORMAL`):
  SQLite's. A cycle killed between two steps is modelled (`EndEarly`).
- *A reconnect within a cycle*: the reader's, in `MailboxReader`; for `ImapCycle`
  the one repeated connection is the same command later, and a renumbered folder
  ends the cycle in both cases.
- *A token renewed within a Graph cycle*: the same request, later; `Loads` has
  its wait.
- *Contents in the cycles* are fixed to a text: `MailStore` checks the rule of
  which content replaces which for any order of batches.
- *Older messages at Graph*, whose text is not downloaded: every message counts
  as recent.
- *Settled wishes in the window*: a settled value is the one already shown.
- *Read of each account within one folder-list job*: one lock each in the code;
  the job answers once and the lists of different accounts are independent.
- *The window's reads behind `MailUi`* are any rows of the folder shown:
  `WindowReads` says which read's rows they are.

## 8. The plan

Done, the most important behaviour first: StoreRows and MailStore; ImapCycle
over the same rows; Loads; AccountObserver; GraphCycle; WindowReads;
FolderMirror and its refinements; ImapSession and MailboxReader; AccountSidebar
with FolderLists; MailUi; the proofs of eight modules, which state every
invariant and action property the passing runs check.

Next, in order:

1. **Crash of the store**: the tail of commits lost, composed with ImapCycle: the
   server then has a wish that the store still holds, and the next cycle settles
   it.
2. **Worker**: an abstract specification (one load, it ends) implemented by
   `Loads`.
3. **Token renewal within GraphCycle**, and older messages without text.
