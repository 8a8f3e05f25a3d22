----------------------------- MODULE WindowReads -----------------------------
(***************************************************************************)
(* What the window shows of the stored mail (crates/mailbag/src/           *)
(* window_ui.rs, and the sidebar's selection of sidebar_ui.rs and          *)
(* accounts.rs).  GTK's thread never reads the store: it sends numbered    *)
(* reads and the user's flag changes to GIO's pool, which runs them in any *)
(* order beside the worker's writes, and shows an answer only if no newer  *)
(* read started.                                                           *)
(*                                                                         *)
(* A mailbox's list is a version, which every change of its shown rows     *)
(* raises; a stored folder list is a set of mailboxes that can be opened.  *)
(* MailStore has the rows behind a version, Loads the load behind the      *)
(* events.                                                                 *)
(***************************************************************************)
EXTENDS Naturals, FiniteSets, Sequences, Functions

CONSTANTS
    Mailboxes,      \* records of an account and an identity
    Nothing,        \* no selection, no load, an empty screen
    FolderList,     \* the target of Refresh Account
    EmptyVersions,  \* the versions of a list without messages
    MaxVersion,     \* bound: versions of a mailbox's list
    MaxChoices,     \* bound: selections, collapses and Retries of the user
    MaxUpdates,     \* bound: complete account answers
    MaxLoads,       \* bound: loads started
    MaxChanges,     \* bound: flag changes of the user
    MaxFailures,    \* bound: reads, flag writes and deletions that fail
    MaxInputs       \* bound: all of these together

Accounts == {m.account : m \in Mailboxes}
Targets == Mailboxes \union {FolderList}
LoadRecords ==
    [account : Accounts, target : Targets, cancelled : BOOLEAN, ended : BOOLEAN]

\* Mailboxes, accounts and loads are told apart; Nothing is none of them.
ASSUME WindowAssumption ==
    /\ IsFiniteSet(Mailboxes)
    /\ {MaxVersion, MaxChoices, MaxUpdates, MaxLoads, MaxChanges, MaxFailures, MaxInputs}
           \subseteq Nat
    /\ EmptyVersions \subseteq Nat \ {0}
    /\ Nothing \notin Mailboxes \union {FolderList} \union Accounts \union LoadRecords
    /\ FolderList \notin Mailboxes /\ Accounts \intersect Mailboxes = {}

VARIABLES
    versions,       \* store: the version of each mailbox's list, or NotLoaded
    folders,        \* store: the mailboxes of each account's folder list
    wish,           \* store: the latest flag change written of each account
    shown,          \* GTK: the accounts of the sidebar
    tree,           \* GTK: the mailboxes under each account of the sidebar
    selection,      \* GTK: the selected mailbox or account
    lists,          \* GTK: FolderListsRead, and whether its latest end was a failure
    mailbox,        \* GTK: ShownMailbox
    screen,         \* GTK: MailUi::listed_rows
    load,           \* GTK: the running load
    failed,         \* GTK: what each account's latest refresh loaded, if it failed
    flag_writes,    \* GTK: the queue of flag changes, by their numbers
    pool,           \* the jobs on GIO's pool, and their answers on the way
    events,         \* the load's events on the way
    overtaken,      \* mailboxes whose rows went while the window went on showing them
    spent           \* what the bounds count

store   == <<versions, folders, wish>>
sidebar == <<shown, tree, selection>>
window  == <<lists, mailbox, screen, load, failed, flag_writes>>
vars    == <<store, sidebar, window, pool, events, overtaken, spent>>

Of(account) == {m \in Mailboxes : m.account = account}

\* read_folder_rows returns None: never completed and without messages, or
\* not stored.
NotLoaded == 0

HasRows(list) == list \notin EmptyVersions \union {NotLoaded}

States  == {"NotRead", "Reading", "ReadingAgain", "Read", "ReadFailed"}
Results == {"Stored", "Failed", "Cancelled"}

\* A read of a mailbox's rows, of the folder lists, a flag write, a deletion.
RowsReads   == {j \in pool : j.job = "rows"}
ListReads   == {j \in pool : j.job = "lists"}
FlagWrites  == {j \in pool : j.job = "flag"}
Deletions   == {j \in pool : j.job = "delete"}

NoRows == [of |-> Nothing, list |-> NotLoaded]
Rows   == [of : Mailboxes \union {Nothing}, list : 0..MaxVersion]

TypeInvariant ==
    /\ versions \in [Mailboxes -> 0..MaxVersion]
    /\ \A a \in Accounts : tree[a] \subseteq Of(a) /\ folders[a] \subseteq Of(a)
    /\ \A m \in Mailboxes : versions[m] # NotLoaded => m \in folders[m.account]
    /\ wish \in [Accounts -> 0..MaxChanges]
    /\ shown \subseteq Accounts
    /\ selection \in Mailboxes \union Accounts \union {Nothing}
    /\ lists \in [latest : Nat, reading : BOOLEAN, failed : BOOLEAN, unread : BOOLEAN]
    /\ mailbox \in [folder : Mailboxes \union {Nothing}, latest : Nat, state : States,
                    found : Rows, rereading : BOOLEAN, due : BOOLEAN]
    /\ screen = Nothing \/ screen \in [folder : Mailboxes, rows : Rows]
    /\ load \in LoadRecords \union {Nothing}
    /\ failed \in [Accounts -> Targets \union {Nothing}]
    /\ \A j \in pool : j.at \in {"waits", "done", "failed"}
    /\ overtaken \subseteq Mailboxes \union Accounts

\* The application starts with the mail of an earlier run.
Init ==
    /\ folders \in {f \in [Accounts -> SUBSET Mailboxes] :
                       \A a \in Accounts : f[a] \subseteq Of(a)}
    /\ versions \in {v \in [Mailboxes -> {NotLoaded, 1}] :
                        \A m \in Mailboxes : v[m] # NotLoaded => m \in folders[m.account]}
    /\ wish = [a \in Accounts |-> 0]
    /\ shown = {} /\ tree = [a \in Accounts |-> {}] /\ selection = Nothing
    /\ lists = [latest |-> 0, reading |-> FALSE, failed |-> FALSE, unread |-> FALSE]
    /\ mailbox = [folder |-> Nothing, latest |-> 0, state |-> "NotRead", found |-> NoRows,
                  rereading |-> FALSE, due |-> FALSE]
    /\ screen = Nothing /\ load = Nothing
    /\ failed = [a \in Accounts |-> Nothing]
    /\ flag_writes = <<>> /\ pool = {} /\ events = <<>> /\ overtaken = {}
    /\ spent = [choices |-> 0, updates |-> 0, loads |-> 0, changes |-> 0, failures |-> 0]

Spending(what, bound) ==
    /\ spent[what] < bound
    /\ spent.choices + spent.updates + spent.loads + spent.changes + spent.failures < MaxInputs
    /\ spent' = [spent EXCEPT ![what] = @ + 1]

-----------------------------------------------------------------------------
(* What the list area shows, and the one function that fills it.           *)

SelectedAccount == IF selection \in Mailboxes THEN selection.account ELSE selection

\* shown_mail: the first that applies.  A load's progress and failure concern
\* its mailbox, or the whole account when it loads the folder list.
Page ==
    LET state         == IF mailbox.folder = selection THEN mailbox.state ELSE "NotRead"
        Concerns(t)   == t \in {FolderList, selection}
        loading       == load # Nothing /\ load.account = SelectedAccount /\ Concerns(load.target)
    IN  IF lists.failed THEN "ListsFailed"
        ELSE IF selection = Nothing THEN "SelectMailbox"
        ELSE IF state = "Read" /\ HasRows(mailbox.found.list) THEN "Messages"
        ELSE IF state \in {"Reading", "ReadingAgain"} THEN state
        ELSE IF loading THEN "Loading"
        ELSE IF state = "ReadFailed" THEN "ReadFailed"
        ELSE IF Concerns(failed[SelectedAccount]) THEN "RefreshFailed"
        ELSE IF state = "Read" /\ mailbox.found.list # NotLoaded THEN "Empty"
        ELSE "NoMail"

\* render, with what the handler made of the window.
Render ==
    screen' = IF Page' = "Messages" THEN [folder |-> selection', rows |-> mailbox.found']
              ELSE IF Page' = "ReadingAgain" THEN screen
              ELSE Nothing

-----------------------------------------------------------------------------
(* ShownMailbox and the reads it numbers.                                  *)

Holds(box, m) == box.folder = m /\ box.state \in {"Read", "Reading", "ReadingAgain"}

IsReading(box) == box.rereading \/ box.state \in {"Reading", "ReadingAgain"}

\* Mutant: a mailbox read again is taken for one never shown.
StartReadAnew(box, m) ==
    [folder |-> m, latest |-> box.latest + 1, state |-> "Reading", found |-> NoRows,
     rereading |-> FALSE, due |-> FALSE]

StartRead(box, m) ==
    LET again == /\ box.folder = m
                 /\ \/ box.state = "Read" /\ box.found.list # NotLoaded
                    \/ box.state = "ReadingAgain"
    IN  [folder |-> m, latest |-> box.latest + 1, found |-> NoRows,
         state |-> IF again THEN "ReadingAgain" ELSE "Reading",
         rereading |-> FALSE, due |-> FALSE]

StartReread(box) == [box EXCEPT !.latest = @ + 1, !.rereading = TRUE]

Forget(box) ==
    [folder |-> Nothing, latest |-> box.latest + 1, state |-> "NotRead", found |-> NoRows,
     rereading |-> FALSE, due |-> FALSE]

\* Mutant: a hidden account's mailbox is kept.
ForgetExcludedNone(box, now) == box

ForgetExcluded(box, now) ==
    IF box.folder # Nothing /\ box.folder.account \notin now THEN Forget(box) ELSE box

ForgetReadFailure(box) ==
    IF box.state = "ReadFailed" THEN [box EXCEPT !.state = "NotRead"] ELSE box

\* Mutant: an answer is shown whatever read started since.
IsLatestRowsAny(j) == TRUE

\* An older read's answer is dropped.
IsLatestRows(j) == j.number = mailbox.latest

FinishRead(box, j) ==
    [box EXCEPT !.rereading = FALSE,
                !.state = IF j.at = "failed" THEN "ReadFailed" ELSE "Read",
                !.found = IF j.at = "failed" THEN NoRows
                          ELSE [of |-> j.folder, list |-> j.list]]

RowsJob(number, m) ==
    [job |-> "rows", at |-> "waits", number |-> number, folder |-> m, list |-> NotLoaded]

\* read_shown_mailbox and read_shown_mailbox_again, which the window calls on
\* the mailbox its handler has so far and the pool's other jobs.
ReadShown(box, jobs, m) ==
    /\ mailbox' = StartRead(box, m)
    /\ pool' = jobs \union {RowsJob(box.latest + 1, m)}

\* Mutant: a change during a read starts none after it.
ReadShownAgainOnce(box, jobs) ==
    IF selection \in Mailboxes /\ ~Holds(box, selection) THEN ReadShown(box, jobs, selection)
    ELSE IF selection \in Mailboxes /\ ~IsReading(box)
    THEN /\ mailbox' = StartReread(box)
         /\ pool' = jobs \union {RowsJob(box.latest + 1, selection)}
    ELSE mailbox' = box /\ pool' = jobs

ReadShownAgain(box, jobs) ==
    \/ selection \notin Mailboxes /\ mailbox' = box /\ pool' = jobs
    \/ /\ selection \in Mailboxes /\ ~Holds(box, selection)
       /\ ReadShown(box, jobs, selection)
    \/ /\ selection \in Mailboxes /\ Holds(box, selection)
       /\ IF IsReading(box)
          THEN mailbox' = [box EXCEPT !.due = TRUE] /\ pool' = jobs
          ELSE /\ mailbox' = StartReread(box)
               /\ pool' = jobs \union {RowsJob(box.latest + 1, selection)}

\* A read of every shown account's folder list, in one job.
ListsJob(accounts) ==
    [job |-> "lists", at |-> "waits", number |-> lists.latest + 1,
     lists |-> [a \in accounts |-> {}]]

StartListsRead == lists' = [lists EXCEPT !.latest = @ + 1, !.reading = TRUE]

-----------------------------------------------------------------------------
(* The user.                                                               *)

\* A folder that can be opened, or an account without one.
Selectable == (UNION {tree[a] : a \in shown}) \union {a \in shown : tree[a] = {}}

\* show_selection: the mailbox the window holds is not read again.
Select(choice) ==
    /\ Spending("choices", MaxChoices)
    /\ choice \in Selectable \ {selection} /\ selection' = choice
    /\ IF choice \notin Mailboxes
       THEN mailbox' = Forget(mailbox) /\ UNCHANGED pool
       ELSE IF Holds(mailbox, choice) THEN UNCHANGED <<mailbox, pool>>
       ELSE ReadShown(mailbox, pool, choice)
    /\ UNCHANGED <<store, shown, tree, lists, load, failed, flag_writes, events, overtaken>>
    /\ Render

\* The user collapses the selected mailbox away.
Collapse ==
    /\ Spending("choices", MaxChoices)
    /\ selection \in Mailboxes /\ selection' = Nothing
    /\ mailbox' = Forget(mailbox)
    /\ UNCHANGED <<store, shown, tree, lists, load, failed, flag_writes, pool, events, overtaken>>
    /\ Render

\* The Retry of a read that failed: app.read-stored-mail.
ReadStoredMail ==
    /\ Spending("choices", MaxChoices)
    /\ StartListsRead
    /\ LET jobs == pool \union {ListsJob(shown)} IN
       IF selection \in Mailboxes THEN ReadShown(mailbox, jobs, selection)
       ELSE pool' = jobs /\ UNCHANGED mailbox
    /\ UNCHANGED <<store, sidebar, load, failed, flag_writes, events, overtaken>>
    /\ Render

\* Refresh Mailbox and Refresh Account: the refresh's outcome, the newest, is
\* to show rather than an earlier read that failed.
StartLoad(target) ==
    /\ Spending("loads", MaxLoads)
    /\ load = Nothing /\ selection # Nothing
    /\ target \in {FolderList} \union ({selection} \intersect Mailboxes)
    /\ load' = [account |-> SelectedAccount, target |-> target, cancelled |-> FALSE,
                ended |-> FALSE]
    /\ mailbox' = ForgetReadFailure(mailbox)
    /\ lists' = [lists EXCEPT !.failed = FALSE]
    /\ UNCHANGED <<store, sidebar, failed, flag_writes, pool, events, overtaken>>
    /\ Render

\* The unread filter fills the list anew.
FilterToggled ==
    /\ UNCHANGED <<store, sidebar, lists, mailbox, load, failed, flag_writes, pool, events,
                   overtaken, spent>>
    /\ Render

FlagJob(change) ==
    [job |-> "flag", at |-> "waits", number |-> change.number, account |-> change.account]

\* Mutant: every change goes to the pool when it is made.
WriteFlagAtOnce(change) ==
    /\ flag_writes' = Append(flag_writes, change)
    /\ pool' = pool \union {FlagJob(change)}

\* Changes queue; only the oldest is being written.
WriteFlag(change) ==
    /\ flag_writes' = Append(flag_writes, change)
    /\ pool' = IF flag_writes = <<>> THEN pool \union {FlagJob(change)} ELSE pool

\* A change of a listed message, of the folder whose rows are on screen.
ChangeFlag ==
    /\ Spending("changes", MaxChanges)
    /\ screen # Nothing
    /\ WriteFlag([number |-> spent'.changes, account |-> screen.folder.account])
    /\ UNCHANGED <<store, sidebar, lists, mailbox, screen, load, failed, events, overtaken>>

-----------------------------------------------------------------------------
(* Account updates.                                                        *)

\* A complete answer: now are the accounts to show, keeps those with Mail on.
ApplyUpdate(now, keeps) ==
    /\ Spending("updates", MaxUpdates)
    /\ shown' = now
    /\ tree' = [a \in Accounts |-> IF a \in shown \intersect now THEN tree[a] ELSE {}]
    /\ selection' = IF SelectedAccount \in now THEN selection ELSE Nothing
    /\ failed' = [a \in Accounts |-> IF a \in now THEN failed[a] ELSE Nothing]
    /\ load' = IF load # Nothing /\ load.account \notin now
               THEN [load EXCEPT !.cancelled = TRUE] ELSE load
    /\ mailbox' = ForgetExcluded(mailbox, now)
    /\ StartListsRead
    /\ pool' = pool \union {ListsJob(now),
                            [job |-> "delete", at |-> "waits", number |-> spent'.updates,
                             keeps |-> keeps]}
    /\ UNCHANGED <<store, flag_writes, events, overtaken>>
    /\ Render

-----------------------------------------------------------------------------
(* The load's events.                                                      *)

\* A cycle changed the store: any folder of the account may hold its messages.
StoreChangedDelivered ==
    /\ events # <<>> /\ Head(events) = "StoreChanged" /\ events' = Tail(events)
    /\ IF selection \in Mailboxes /\ selection.account = load.account
       THEN ReadShownAgain(mailbox, pool) ELSE UNCHANGED <<mailbox, pool>>
    /\ UNCHANGED <<store, sidebar, lists, screen, load, failed, flag_writes, overtaken, spent>>

\* Refreshes::finish_load: no outcome of a load cancelled by an exclusion.
FailedAfter(result) ==
    IF result = "Cancelled" \/ load.cancelled THEN failed
    ELSE [failed EXCEPT ![load.account] = IF result = "Failed" THEN load.target ELSE Nothing]

\* A folder list left the mailbox's rows as they were: it is read only if the
\* window does not hold it.  A cycle may have changed any of the account's.
FinishLoad ==
    /\ events # <<>> /\ Head(events) \in Results /\ events' = Tail(events)
    /\ failed' = FailedAfter(Head(events))
    /\ load' = Nothing
    /\ IF Head(events) = "Stored" /\ load.target = FolderList
       THEN /\ StartListsRead
            /\ LET jobs == pool \union {ListsJob(shown)} IN
               IF selection \in Mailboxes /\ ~Holds(mailbox, selection)
               THEN ReadShown(mailbox, jobs, selection)
               ELSE pool' = jobs /\ UNCHANGED mailbox
       ELSE /\ UNCHANGED lists
            /\ IF /\ Head(events) = "Stored" /\ selection \in Mailboxes
                  /\ selection.account = load.account
               THEN ReadShownAgain(mailbox, pool)
               ELSE UNCHANGED <<mailbox, pool>>
    /\ UNCHANGED <<store, sidebar, flag_writes, overtaken, spent>>
    /\ Render

-----------------------------------------------------------------------------
(* The pool's answers.                                                     *)

RowsAnswered(j) ==
    /\ j \in RowsReads /\ j.at # "waits"
    /\ UNCHANGED <<store, sidebar, lists, load, failed, flag_writes, events, overtaken, spent>>
    /\ IF ~IsLatestRows(j) THEN pool' = pool \ {j} /\ UNCHANGED <<mailbox, screen>>
       ELSE LET box == FinishRead(mailbox, j) IN
            /\ IF box.due THEN ReadShownAgain([box EXCEPT !.due = FALSE], pool \ {j})
               ELSE mailbox' = box /\ pool' = pool \ {j}
            /\ Render

\* A selection its account's new folders no longer show is cleared.
SelectionGone(found) ==
    /\ SelectedAccount \in DOMAIN found \intersect shown
    /\ found[SelectedAccount] # tree[SelectedAccount]
    /\ IF selection \in Mailboxes THEN selection \notin found[SelectedAccount]
       ELSE found[SelectedAccount] # {}

ShowFolders(found) ==
    /\ tree' = [a \in Accounts |-> IF a \in DOMAIN found \intersect shown THEN found[a]
                                   ELSE tree[a]]
    /\ IF SelectionGone(found)
       THEN selection' = Nothing /\ mailbox' = Forget(mailbox)
       ELSE UNCHANGED <<selection, mailbox>>

\* Mutant: the folder lists an older read found are shown too.
IsLatestListsAny(j) == TRUE

IsLatestLists(j) == j.number = lists.latest

\* A failed read leaves the sidebar as it was; an older one's answer is dropped.
ListsAnswered(j) ==
    /\ j \in ListReads /\ j.at # "waits" /\ pool' = pool \ {j}
    /\ UNCHANGED <<store, shown, load, failed, flag_writes, events, overtaken, spent>>
    /\ IF ~IsLatestLists(j) THEN UNCHANGED <<lists, tree, selection, mailbox, screen>>
       ELSE /\ lists' = [lists EXCEPT !.reading = FALSE, !.failed = (j.at = "failed"),
                                      !.unread = (j.at = "failed")]
            /\ IF j.at = "failed" THEN UNCHANGED <<tree, selection, mailbox>>
               ELSE ShowFolders(j.lists)
            /\ Render

\* The shown mailbox is read again, then the next change is written; a change
\* not saved changes no row.
FlagAnswered(j) ==
    /\ j \in FlagWrites /\ j.at # "waits"
    /\ flag_writes' = Tail(flag_writes)
    /\ LET next == IF Len(flag_writes) > 1 THEN {FlagJob(flag_writes[2])} ELSE {}
           jobs == (pool \ {j}) \union next
       IN  IF j.at = "done" THEN ReadShownAgain(mailbox, jobs)
           ELSE pool' = jobs /\ UNCHANGED mailbox
    /\ UNCHANGED <<store, sidebar, lists, screen, load, failed, events, overtaken, spent>>

-----------------------------------------------------------------------------
(* The pool: each job takes the store's lock when it gets it.              *)

Ends(j, done) == pool' = (pool \ {j}) \union {done}

\* A read or a write fails, or panics, and changes nothing.
JobFails(j) ==
    /\ j \in pool /\ j.at = "waits" /\ Spending("failures", MaxFailures)
    /\ IF j.job = "delete" THEN pool' = pool \ {j} ELSE Ends(j, [j EXCEPT !.at = "failed"])
    /\ UNCHANGED <<store, sidebar, window, events, overtaken>>

RowsRead(j) ==
    /\ j \in RowsReads /\ j.at = "waits"
    /\ Ends(j, [j EXCEPT !.at = "done", !.list = versions[j.folder]])
    /\ UNCHANGED <<store, sidebar, window, events, overtaken, spent>>

ListsRead(j) ==
    /\ j \in ListReads /\ j.at = "waits"
    /\ Ends(j, [j EXCEPT !.at = "done", !.lists = [a \in DOMAIN j.lists |-> folders[a]]])
    /\ UNCHANGED <<store, sidebar, window, events, overtaken, spent>>

Raised(changed) == [m \in Mailboxes |-> IF m \in changed THEN versions[m] + 1 ELSE versions[m]]

\* The mailboxes whose rows a change of an account's flags can change.
FlagsShownIn(account) ==
    {m \in Of(account) : /\ HasRows(versions[m]) /\ versions[m] < MaxVersion
                         /\ HasRows(versions[m] + 1)}

FlagWritten(j) ==
    /\ j \in FlagWrites /\ j.at = "waits"
    /\ Ends(j, [j EXCEPT !.at = "done"])
    /\ wish' = [wish EXCEPT ![j.account] = j.number]
    /\ \E changed \in SUBSET FlagsShownIn(j.account) : versions' = Raised(changed)
    /\ UNCHANGED <<folders, sidebar, window, events, overtaken, spent>>

\* A deletion that comes late erases the mail of an account shown again.
AccountsDeleted(j) ==
    /\ j \in Deletions
    /\ pool' = pool \ {j}
    /\ folders' = [a \in Accounts |-> IF a \in j.keeps THEN folders[a] ELSE {}]
    /\ versions' = [m \in Mailboxes |-> IF m.account \in j.keeps THEN versions[m] ELSE NotLoaded]
    /\ overtaken' = overtaken \union (shown \ j.keeps)
    /\ UNCHANGED <<wish, sidebar, window, events, spent>>

-----------------------------------------------------------------------------
(* The worker: what the one load writes and reports, in this order.        *)

Loading == load # Nothing /\ ~load.ended
MayWrite == Loading /\ ~load.cancelled

\* A batch: the folder of the cycle, and others that share its messages.
BatchStored(changed) ==
    /\ MayWrite /\ load.target \in folders[load.account]
    /\ changed # {}
    /\ \A m \in changed : /\ m \in folders[load.account] /\ versions[m] < MaxVersion
                          /\ m = load.target \/ versions[m] # NotLoaded
    /\ versions' = Raised(changed)
    /\ events' = Append(events, "StoreChanged")
    /\ UNCHANGED <<folders, wish, sidebar, window, pool, overtaken, spent>>

\* A refused wish is dropped, whether or not the load was cancelled, and the
\* cycle fails.  A settled one changes nothing shown, so it is left out.
WishRefused(changed) ==
    /\ Loading /\ load.target # FolderList
    /\ changed \subseteq FlagsShownIn(load.account)
    /\ versions' = Raised(changed)
    /\ events' = events \o <<"StoreChanged", "Failed">>
    /\ load' = [load EXCEPT !.ended = TRUE]
    /\ UNCHANGED <<folders, wish, sidebar, lists, mailbox, screen, failed, flag_writes, pool,
                   overtaken, spent>>

\* A folder list replaces the account's; the mail of folders gone goes too.
FoldersReplaced(listed) ==
    LET gone == folders[load.account] \ listed IN
    /\ MayWrite /\ load.target = FolderList /\ listed # {}
    /\ folders' = [folders EXCEPT ![load.account] = listed]
    /\ versions' = [m \in Mailboxes |-> IF m \in gone THEN NotLoaded ELSE versions[m]]
    /\ overtaken' = overtaken \union (gone \intersect {mailbox.folder})
    /\ events' = Append(events, "Stored")
    /\ load' = [load EXCEPT !.ended = TRUE]
    /\ UNCHANGED <<wish, sidebar, lists, mailbox, screen, failed, flag_writes, pool, spent>>

\* The load's other ends; a cancelled one may have been past its last wait.
LoadEnds(result) ==
    /\ Loading
    /\ result = "Cancelled" => load.cancelled
    /\ result = "Stored" => load.target # FolderList
    /\ load' = [load EXCEPT !.ended = TRUE]
    /\ events' = Append(events, result)
    /\ UNCHANGED <<store, sidebar, lists, mailbox, screen, failed, flag_writes, pool,
                   overtaken, spent>>

User ==
    \/ \E choice \in Mailboxes \union Accounts : Select(choice)
    \/ Collapse \/ ReadStoredMail \/ FilterToggled \/ ChangeFlag
    \/ \E target \in Targets : StartLoad(target)

Window ==
    \/ \E now, keeps \in SUBSET Accounts : now \subseteq keeps /\ ApplyUpdate(now, keeps)
    \/ StoreChangedDelivered \/ FinishLoad
    \/ \E j \in pool : RowsAnswered(j) \/ ListsAnswered(j) \/ FlagAnswered(j)

Pool ==
    \E j \in pool : \/ JobFails(j) \/ RowsRead(j) \/ ListsRead(j) \/ FlagWritten(j)
                    \/ AccountsDeleted(j)

Worker ==
    \/ load # Nothing /\ \E changed \in SUBSET Of(load.account) :
          BatchStored(changed) \/ WishRefused(changed) \/ FoldersReplaced(changed)
    \/ \E result \in Results : LoadEnds(result)

Next == User \/ Window \/ Pool \/ Worker

Spec == Init /\ [][Next]_vars

-----------------------------------------------------------------------------
(* Correctness.                                                            *)

\* The list never shows rows under another mailbox's name: those on screen
\* are the selected mailbox's, whatever reads of others were under way when
\* it was selected, hidden or forgotten.
ShowsSelectedMailbox ==
    screen # Nothing => screen.folder = selection /\ screen.rows.of = selection

\* No answer is on its way to the window, and no change of it to the store.
AtRest ==
    /\ events = <<>> /\ flag_writes = <<>>
    /\ \A j \in RowsReads : j.number # mailbox.latest
    /\ \A j \in ListReads : j.number # lists.latest

\* A mailbox whose rows, or whose account's, went while it stayed shown.
Overtaken(m) == overtaken \intersect {m, m.account} # {}

\* "Every write to it while selected is followed by a read" (show_selection):
\* once nothing is on its way, the list area shows what the store has of the
\* selected mailbox, or says what failed, or that it loads; it never waits for
\* a read nobody runs.  Left out: mail erased by a deletion that came after its
\* account was shown again, and a folder gone from one list and back in the next.
ListIsCurrentAtRest ==
    /\ AtRest /\ selection \in Mailboxes /\ ~Overtaken(selection)
    => /\ Page \notin {"Reading", "ReadingAgain"}
       /\ Page = "Messages" => screen.rows.list = versions[selection]
       /\ Page = "Empty"    => versions[selection] \in EmptyVersions
       /\ Page = "NoMail"   => versions[selection] = NotLoaded

\* Once nothing is on its way the sidebar shows each account's stored folder
\* list, unless the latest read of them failed or a late deletion erased them.
SidebarIsCurrentAtRest ==
    AtRest /\ ~lists.unread
    => \A a \in shown \ overtaken : tree[a] = folders[a]

\* Without that excuse: an account whose folder list is stored never rests on
\* "No mail loaded".  A list that cannot be read is "the failure page with
\* Retry, not a silent 'not loaded'" (specs/008-folders/spec.md).
NoSilentNotLoaded ==
    AtRest /\ load = Nothing /\ selection \in Accounts \ overtaken /\ Page = "NoMail"
    => folders[selection] = {}

\* What the user sees of a mailbox never goes back to an older reading, unless
\* its mail was erased under it.
ListNeverGoesBack ==
    [][/\ screen # Nothing /\ screen' # Nothing /\ screen'.folder = screen.folder
       /\ ~Overtaken(screen.folder)
       => screen'.rows.list >= screen.rows.list]_vars

\* A mailbox shown keeps its rows while it is read again (specs/008 FR-004,
\* specs/009): they leave the screen for another selection or a page that says
\* why, and for a blank list only when a read of them failed and another runs.
RowsStayWhileRead ==
    [][/\ screen # Nothing /\ screen' = Nothing
       /\ selection' = selection /\ Page' = "Reading"
       => \E j \in RowsReads \ pool' : j.at = "failed"]_vars

\* Of two changes of a message's flag the later one lands last, whatever the
\* pool does (specs/011 research 14).
LaterChangeLandsLast == [][\A a \in Accounts : wish'[a] >= wish[a]]_vars
=============================================================================
