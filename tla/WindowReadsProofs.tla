-------------------------- MODULE WindowReadsProofs --------------------------
(***************************************************************************)
(* What the window shows is of the selected mailbox and, once nothing is   *)
(* on its way, what the store has; it never goes back to an older reading  *)
(* nor blank for a new one; and of two changes of a flag the later one     *)
(* lands last: proved for any mailboxes, reads, loads, account answers and *)
(* changes, in whatever order the pool answers.                            *)
(*                                                                         *)
(* Whose rows are shown follows from the numbers: the read with the latest *)
(* number is of the folder the window holds, which is the selected one.    *)
(* The flags follow from their queue: its changes are in order, and the    *)
(* one job that may write is of its head.  That the rows and the folder    *)
(* lists are current follows from who vouches for a difference: a change   *)
(* of the store is reported, by an event or a flag write that landed,      *)
(* until its report makes the window read, and a read not yet answered     *)
(* makes up for what was reported before it ran.                           *)
(***************************************************************************)
EXTENDS WindowReads, TLAPS

MailboxFields == {"folder", "latest", "state", "found", "rereading", "due"}

\* A job names its kind and how far it is; a read of rows was numbered by the
\* window, and the latest is of the folder it holds.
JobFollows(j, latest, folder) ==
    /\ {"job", "at"} \subseteq DOMAIN j
    /\ j.job = "rows" =>
        /\ {"number", "folder"} \subseteq DOMAIN j
        /\ j.number \in Nat /\ j.number <= latest
        /\ j.folder \in Mailboxes
        /\ j.number = latest => j.folder = folder

JobsFollow(jobs, latest, folder) == \A j \in jobs : JobFollows(j, latest, folder)

\* The mailbox held is the selected one, and what was found is its.
MailboxFollows(box, chosen) ==
    /\ DOMAIN box = MailboxFields
    /\ box.latest \in Nat
    /\ box.folder \in Mailboxes \union {Nothing}
    /\ box.folder # Nothing => box.folder = chosen
    /\ box.state = "Read" => box.folder \in Mailboxes /\ box.found.of = box.folder

ReadsFollow ==
    /\ MailboxFollows(mailbox, selection)
    /\ JobsFollow(pool, mailbox.latest, mailbox.folder)

\* The rows on screen are the selected mailbox's.
ScreenFollows == ShowsSelectedMailbox /\ (screen # Nothing => screen.folder \in Mailboxes)

\* The inductive invariant of what is shown.
ShownInv == ReadsFollow /\ ScreenFollows

-----------------------------------------------------------------------------
(* What the page needs of the mailbox.                                     *)

\* Only a mailbox that is held and selected has its messages or its reading
\* shown.
LEMMA PageOfTheMailboxHeld ==
    /\ Page' = "Messages" => mailbox'.folder = selection' /\ mailbox'.state = "Read"
    /\ Page' = "ReadingAgain" =>
         /\ mailbox'.folder = selection' /\ mailbox'.state = "ReadingAgain"
         /\ selection' # Nothing
BY DEF Page

\* After a handler fills the list area, its rows are the selected mailbox's: a
\* mailbox that is being read again was selected before.
LEMMA RenderFollows ==
    ASSUME MailboxFollows(mailbox', selection'), ScreenFollows, Render,
           /\ mailbox'.state = "ReadingAgain"
           /\ mailbox'.folder = selection'
           /\ selection' # Nothing
           => selection' = selection
    PROVE  ScreenFollows'
<1>1. CASE Page' = "Messages"
    <2>1. screen' = [folder |-> selection', rows |-> mailbox'.found]
        BY <1>1 DEF Render
    <2>2. mailbox'.folder = selection' /\ mailbox'.state = "Read"
        BY <1>1, PageOfTheMailboxHeld
    <2>3. selection' \in Mailboxes /\ mailbox'.found.of = selection'
        BY <2>2 DEF MailboxFollows
    <2> QED BY <2>1, <2>3 DEF ScreenFollows, ShowsSelectedMailbox
<1>2. CASE Page' = "ReadingAgain"
    <2>1. screen' = screen
        BY <1>2 DEF Render
    <2>2. selection' = selection
        BY <1>2, PageOfTheMailboxHeld
    <2> QED BY <2>1, <2>2 DEF ScreenFollows, ShowsSelectedMailbox
<1>3. CASE Page' # "Messages" /\ Page' # "ReadingAgain"
    <2>1. screen' = Nothing
        BY <1>3 DEF Render
    <2> QED BY <2>1 DEF ScreenFollows, ShowsSelectedMailbox
<1> QED BY <1>1, <1>2, <1>3

-----------------------------------------------------------------------------
(* What the mailbox's own steps keep.                                      *)

\* A new read is the latest, and of the mailbox it is started for.
LEMMA ReadShownFollows ==
    ASSUME NEW box, NEW jobs, NEW m \in Mailboxes,
           box.latest \in Nat, JobsFollow(jobs, box.latest, box.folder),
           ReadShown(box, jobs, m)
    PROVE  /\ DOMAIN mailbox' = MailboxFields
           /\ mailbox'.latest \in Nat /\ mailbox'.folder = m
           /\ mailbox'.state \in {"Reading", "ReadingAgain"}
           /\ mailbox'.state = "ReadingAgain" => box.folder = m
           /\ JobsFollow(pool', mailbox'.latest, mailbox'.folder)
<1>1. /\ mailbox' = StartRead(box, m)
      /\ pool' = jobs \union {RowsJob(box.latest + 1, m)}
    BY DEF ReadShown
<1>2. /\ DOMAIN mailbox' = MailboxFields
      /\ mailbox'.latest = box.latest + 1 /\ mailbox'.folder = m
      /\ mailbox'.state \in {"Reading", "ReadingAgain"}
      /\ mailbox'.state = "ReadingAgain" => box.folder = m
    BY <1>1 DEF StartRead, MailboxFields
<1>3. ASSUME NEW j \in pool' PROVE JobFollows(j, box.latest + 1, m)
    <2>1. CASE j \in jobs
        BY <2>1 DEF JobsFollow, JobFollows
    <2>2. CASE j = RowsJob(box.latest + 1, m)
        BY <2>2 DEF JobFollows, RowsJob
    <2> QED BY <1>1, <2>1, <2>2
<1> QED BY <1>2, <1>3 DEF JobsFollow

\* Reading the shown mailbox again never leaves the selected one.
LEMMA ReadShownAgainFollows ==
    ASSUME NEW box, NEW jobs,
           MailboxFollows(box, selection), JobsFollow(jobs, box.latest, box.folder),
           ReadShownAgain(box, jobs)
    PROVE  /\ MailboxFollows(mailbox', selection)
           /\ JobsFollow(pool', mailbox'.latest, mailbox'.folder)
<1>1. CASE selection \notin Mailboxes /\ mailbox' = box /\ pool' = jobs
    BY <1>1
<1>2. CASE selection \in Mailboxes /\ ~Holds(box, selection)
           /\ ReadShown(box, jobs, selection)
    <2>1. /\ DOMAIN mailbox' = MailboxFields
          /\ mailbox'.latest \in Nat /\ mailbox'.folder = selection
          /\ mailbox'.state \in {"Reading", "ReadingAgain"}
          /\ JobsFollow(pool', mailbox'.latest, mailbox'.folder)
        BY <1>2, ReadShownFollows DEF MailboxFollows
    <2> QED BY <1>2, <2>1 DEF MailboxFollows
<1>3. CASE /\ selection \in Mailboxes /\ Holds(box, selection) /\ IsReading(box)
           /\ mailbox' = [box EXCEPT !.due = TRUE] /\ pool' = jobs
    <2>1. /\ DOMAIN mailbox' = MailboxFields
          /\ mailbox'.latest = box.latest /\ mailbox'.folder = box.folder
          /\ mailbox'.state = box.state /\ mailbox'.found = box.found
        BY <1>3 DEF MailboxFollows, MailboxFields
    <2> QED BY <1>3, <2>1 DEF MailboxFollows
<1>4. CASE /\ selection \in Mailboxes /\ Holds(box, selection) /\ ~IsReading(box)
           /\ mailbox' = StartReread(box)
           /\ pool' = jobs \union {RowsJob(box.latest + 1, selection)}
    <2>1. /\ DOMAIN mailbox' = MailboxFields
          /\ mailbox'.latest = box.latest + 1 /\ mailbox'.folder = box.folder
          /\ mailbox'.state = box.state /\ mailbox'.found = box.found
        BY <1>4 DEF MailboxFollows, MailboxFields, StartReread
    <2>2. box.folder = selection
        BY <1>4 DEF Holds
    <2>3. ASSUME NEW j \in pool' PROVE JobFollows(j, mailbox'.latest, mailbox'.folder)
        <3>1. CASE j \in jobs
            BY <3>1, <2>1 DEF JobsFollow, JobFollows, MailboxFollows
        <3>2. CASE j = RowsJob(box.latest + 1, selection)
            BY <3>2, <2>1, <2>2, <1>4 DEF JobFollows, RowsJob, MailboxFollows
        <3> QED BY <1>4, <3>1, <3>2
    <2> QED BY <2>1, <2>2, <2>3 DEF MailboxFollows, JobsFollow
<1> QED BY <1>1, <1>2, <1>3, <1>4 DEF ReadShownAgain

\* A forgotten mailbox takes its number out of every read's reach.
LEMMA ForgetFollows ==
    ASSUME NEW chosen, MailboxFollows(mailbox, selection),
           JobsFollow(pool, mailbox.latest, mailbox.folder)
    PROVE  /\ MailboxFollows(Forget(mailbox), chosen)
           /\ Forget(mailbox).state = "NotRead"
           /\ Forget(mailbox).latest = mailbox.latest + 1
           /\ JobsFollow(pool, Forget(mailbox).latest, Forget(mailbox).folder)
<1>1. /\ DOMAIN Forget(mailbox) = MailboxFields
      /\ Forget(mailbox).latest = mailbox.latest + 1
      /\ Forget(mailbox).folder = Nothing /\ Forget(mailbox).state = "NotRead"
    BY DEF Forget, MailboxFields
<1>2. ASSUME NEW j \in pool PROVE JobFollows(j, mailbox.latest + 1, Nothing)
    BY DEF JobsFollow, JobFollows, MailboxFollows
<1> QED BY <1>1, <1>2 DEF MailboxFollows, JobsFollow

-----------------------------------------------------------------------------
(* One lemma for each kind of step: the user's, the handlers', the pool's. *)

\* Steps that touch neither the mailbox, nor the reads, nor the screen.
LEMMA ElsewhereKeepsShown ==
    ShownInv /\ UNCHANGED <<mailbox, selection, screen, pool>> => ShownInv'
BY DEF ShownInv, ReadsFollow, MailboxFollows, JobsFollow, JobFollows, MailboxFields,
       ScreenFollows, ShowsSelectedMailbox

\* A selection forgets the mailbox, or starts a read of the one chosen; a
\* mailbox held is the selected one and cannot be chosen.
LEMMA SelectKeepsShown ==
    ASSUME ShownInv, NEW choice, Select(choice) PROVE ShownInv'
<1> USE DEF ShownInv, ReadsFollow
<1>1. selection' = choice /\ choice # selection /\ Render
    BY DEF Select
<1>2. ~Holds(mailbox, choice) \/ choice \notin Mailboxes
    BY <1>1, WindowAssumption DEF Holds, MailboxFollows
<1>3. /\ MailboxFollows(mailbox', selection')
      /\ JobsFollow(pool', mailbox'.latest, mailbox'.folder)
      /\ mailbox'.state # "ReadingAgain"
    <2>1. CASE choice \notin Mailboxes
        BY <2>1, <1>1, ForgetFollows DEF Select
    <2>2. CASE choice \in Mailboxes
        <3>1. ReadShown(mailbox, pool, choice)
            BY <2>2, <1>2 DEF Select
        <3>2. mailbox.folder # choice
            BY <2>2, <1>1, WindowAssumption DEF MailboxFollows
        <3>3. /\ DOMAIN mailbox' = MailboxFields
              /\ mailbox'.latest \in Nat /\ mailbox'.folder = choice
              /\ mailbox'.state \in {"Reading", "ReadingAgain"}
              /\ mailbox'.state = "ReadingAgain" => mailbox.folder = choice
              /\ JobsFollow(pool', mailbox'.latest, mailbox'.folder)
            BY <2>2, <3>1, ReadShownFollows DEF MailboxFollows
        <3> QED BY <2>2, <3>2, <3>3, <1>1 DEF MailboxFollows
    <2> QED BY <2>1, <2>2
<1>4. ScreenFollows'
    BY <1>1, <1>3, RenderFollows
<1> QED BY <1>3, <1>4

\* Collapsing the selection away forgets the mailbox.
LEMMA CollapseKeepsShown ==
    ASSUME ShownInv, Collapse PROVE ShownInv'
<1> USE DEF ShownInv, ReadsFollow
<1>1. selection' = Nothing /\ mailbox' = Forget(mailbox) /\ pool' = pool /\ Render
    BY DEF Collapse
<1>2. /\ MailboxFollows(mailbox', selection')
      /\ JobsFollow(pool', mailbox'.latest, mailbox'.folder)
    BY <1>1, ForgetFollows
<1>3. ScreenFollows'
    BY <1>1, <1>2, RenderFollows
<1> QED BY <1>2, <1>3

\* The Retry of a failed read reads the selected mailbox and the folder lists.
LEMMA ReadStoredMailKeepsShown ==
    ASSUME ShownInv, ReadStoredMail PROVE ShownInv'
<1> USE DEF ShownInv, ReadsFollow
<1> DEFINE jobs == pool \union {ListsJob(shown)}
<1>1. selection' = selection /\ Render
    BY DEF ReadStoredMail, sidebar
<1>2. JobsFollow(jobs, mailbox.latest, mailbox.folder)
    BY DEF JobsFollow, JobFollows, ListsJob
<1>3. /\ MailboxFollows(mailbox', selection')
      /\ JobsFollow(pool', mailbox'.latest, mailbox'.folder)
    <2>1. CASE selection \in Mailboxes
        <3>1. ReadShown(mailbox, jobs, selection)
            BY <2>1 DEF ReadStoredMail
        <3>2. /\ DOMAIN mailbox' = MailboxFields
              /\ mailbox'.latest \in Nat /\ mailbox'.folder = selection
              /\ mailbox'.state \in {"Reading", "ReadingAgain"}
              /\ JobsFollow(pool', mailbox'.latest, mailbox'.folder)
            BY <2>1, <3>1, <1>2, ReadShownFollows DEF MailboxFollows
        <3> QED BY <2>1, <3>2, <1>1 DEF MailboxFollows
    <2>2. CASE selection \notin Mailboxes
        BY <2>2, <1>1, <1>2 DEF ReadStoredMail, MailboxFollows
    <2> QED BY <2>1, <2>2
<1>4. ScreenFollows'
    BY <1>1, <1>3, RenderFollows
<1> QED BY <1>3, <1>4

\* A load's start takes a failed read's state from the mailbox, nothing else.
LEMMA StartLoadKeepsShown ==
    ASSUME ShownInv, NEW target, StartLoad(target) PROVE ShownInv'
<1> USE DEF ShownInv, ReadsFollow
<1>1. /\ selection' = selection /\ pool' = pool /\ Render
      /\ mailbox' = ForgetReadFailure(mailbox)
    BY DEF StartLoad, sidebar
<1>2. /\ DOMAIN mailbox' = MailboxFields
      /\ mailbox'.latest = mailbox.latest /\ mailbox'.folder = mailbox.folder
      /\ mailbox'.found = mailbox.found
      /\ mailbox'.state = mailbox.state \/ mailbox'.state = "NotRead"
    BY <1>1 DEF ForgetReadFailure, MailboxFollows, MailboxFields
<1>3. /\ MailboxFollows(mailbox', selection')
      /\ JobsFollow(pool', mailbox'.latest, mailbox'.folder)
    BY <1>1, <1>2 DEF MailboxFollows
<1>4. ScreenFollows'
    BY <1>1, <1>3, RenderFollows
<1> QED BY <1>3, <1>4

\* An account answer clears the selection of an account no longer shown, and
\* the mailbox with it.
LEMMA ApplyUpdateKeepsShown ==
    ASSUME ShownInv, NEW now, NEW keeps, ApplyUpdate(now, keeps) PROVE ShownInv'
<1> USE DEF ShownInv, ReadsFollow
<1> DEFINE added == {ListsJob(now),
                     [job |-> "delete", at |-> "waits", number |-> spent'.updates,
                      keeps |-> keeps]}
<1>1. /\ selection' = IF SelectedAccount \in now THEN selection ELSE Nothing
      /\ mailbox' = ForgetExcluded(mailbox, now)
      /\ pool' = pool \union added /\ Render
    BY DEF ApplyUpdate
<1>2. \A j \in added : {"job", "at"} \subseteq DOMAIN j /\ j.job # "rows"
    BY DEF ListsJob
<1>3. \/ mailbox' = Forget(mailbox)
      \/ mailbox' = mailbox /\ (mailbox.folder = Nothing \/ mailbox.folder.account \in now)
    BY <1>1 DEF ForgetExcluded
<1>4. /\ MailboxFollows(mailbox', selection')
      /\ JobsFollow(pool, mailbox'.latest, mailbox'.folder)
    <2>1. CASE mailbox' = Forget(mailbox)
        BY <2>1, ForgetFollows
    <2>2. CASE mailbox' = mailbox /\ (mailbox.folder = Nothing \/ mailbox.folder.account \in now)
        <3>1. mailbox.folder # Nothing => selection' = selection
            BY <2>2, <1>1, WindowAssumption DEF MailboxFollows, SelectedAccount
        <3> QED BY <2>2, <3>1 DEF MailboxFollows
    <2> QED BY <1>3, <2>1, <2>2
<1>5. JobsFollow(pool', mailbox'.latest, mailbox'.folder)
    BY <1>1, <1>2, <1>4 DEF JobsFollow, JobFollows
<1>6. selection' = selection \/ selection' = Nothing
    BY <1>1
<1>7. ScreenFollows'
    BY <1>1, <1>4, <1>6, RenderFollows
<1> QED BY <1>4, <1>5, <1>7

\* A batch stored reads the shown mailbox again, or leaves all as it is.
LEMMA StoreChangedKeepsShown ==
    ASSUME ShownInv, StoreChangedDelivered PROVE ShownInv'
<1> USE DEF ShownInv, ReadsFollow
<1>1. selection' = selection /\ screen' = screen
    BY DEF StoreChangedDelivered, sidebar
<1>2. ReadShownAgain(mailbox, pool) \/ UNCHANGED <<mailbox, pool>>
    BY DEF StoreChangedDelivered
<1>3. /\ MailboxFollows(mailbox', selection')
      /\ JobsFollow(pool', mailbox'.latest, mailbox'.folder)
    BY <1>1, <1>2, ReadShownAgainFollows
<1> QED BY <1>1, <1>3 DEF ScreenFollows, ShowsSelectedMailbox

\* The end of a load reads what it may have changed.
LEMMA FinishLoadKeepsShown ==
    ASSUME ShownInv, FinishLoad PROVE ShownInv'
<1> USE DEF ShownInv, ReadsFollow
<1> DEFINE jobs == pool \union {ListsJob(shown)}
<1>1. selection' = selection /\ Render
    BY DEF FinishLoad, sidebar
<1>2. JobsFollow(jobs, mailbox.latest, mailbox.folder)
    BY DEF JobsFollow, JobFollows, ListsJob
<1>3. \/ selection \in Mailboxes /\ ReadShown(mailbox, jobs, selection)
      \/ pool' = jobs /\ UNCHANGED mailbox
      \/ ReadShownAgain(mailbox, pool)
      \/ UNCHANGED <<mailbox, pool>>
    BY DEF FinishLoad
<1>4. /\ MailboxFollows(mailbox', selection')
      /\ JobsFollow(pool', mailbox'.latest, mailbox'.folder)
    <2>1. CASE selection \in Mailboxes /\ ReadShown(mailbox, jobs, selection)
        <3>1. /\ DOMAIN mailbox' = MailboxFields
              /\ mailbox'.latest \in Nat /\ mailbox'.folder = selection
              /\ mailbox'.state \in {"Reading", "ReadingAgain"}
              /\ JobsFollow(pool', mailbox'.latest, mailbox'.folder)
            BY <2>1, <1>2, ReadShownFollows DEF MailboxFollows
        <3> QED BY <2>1, <3>1, <1>1 DEF MailboxFollows
    <2>2. CASE pool' = jobs /\ UNCHANGED mailbox
        BY <2>2, <1>1, <1>2
    <2>3. CASE ReadShownAgain(mailbox, pool)
        BY <2>3, <1>1, ReadShownAgainFollows
    <2>4. CASE UNCHANGED <<mailbox, pool>>
        BY <2>4, <1>1
    <2> QED BY <1>3, <2>1, <2>2, <2>3, <2>4
<1>5. ScreenFollows'
    BY <1>1, <1>4, RenderFollows
<1> QED BY <1>4, <1>5

\* Only the latest read's answer fills the mailbox, and it is of its folder.
LEMMA RowsAnsweredKeepsShown ==
    ASSUME ShownInv, NEW j, RowsAnswered(j) PROVE ShownInv'
<1> USE DEF ShownInv, ReadsFollow
<1>1. /\ j \in pool /\ j.job = "rows" /\ selection' = selection
      /\ JobsFollow(pool \ {j}, mailbox.latest, mailbox.folder)
    BY DEF RowsAnswered, RowsReads, sidebar, JobsFollow
<1>2. CASE ~IsLatestRows(j)
    <2>1. pool' = pool \ {j} /\ UNCHANGED <<mailbox, screen>>
        BY <1>2 DEF RowsAnswered
    <2> QED BY <2>1, <1>1 DEF ScreenFollows, ShowsSelectedMailbox
<1>3. CASE IsLatestRows(j)
    <2> DEFINE box == FinishRead(mailbox, j)
               again == [box EXCEPT !.due = FALSE]
    <2>1. j.folder = mailbox.folder /\ j.folder \in Mailboxes
        BY <1>1, <1>3 DEF IsLatestRows, JobsFollow, JobFollows
    <2>2. /\ DOMAIN box = MailboxFields
          /\ box.latest = mailbox.latest /\ box.folder = mailbox.folder
          /\ box.state = IF j.at = "failed" THEN "ReadFailed" ELSE "Read"
          /\ j.at # "failed" => box.found.of = mailbox.folder
        BY <2>1 DEF FinishRead, MailboxFollows, MailboxFields
    <2>3. MailboxFollows(box, selection)
        BY <2>1, <2>2 DEF MailboxFollows
    <2>4. MailboxFollows(again, selection)
          /\ again.latest = mailbox.latest /\ again.folder = mailbox.folder
        <3>1. /\ DOMAIN again = MailboxFields
              /\ again.latest = box.latest /\ again.folder = box.folder
              /\ again.state = box.state /\ again.found = box.found
            BY <2>2 DEF MailboxFields
        <3> QED BY <2>2, <2>3, <3>1 DEF MailboxFollows
    <2>5. /\ IF box.due THEN ReadShownAgain(again, pool \ {j})
             ELSE mailbox' = box /\ pool' = pool \ {j}
          /\ Render
        BY <1>3 DEF RowsAnswered
    <2>6. /\ MailboxFollows(mailbox', selection)
          /\ JobsFollow(pool', mailbox'.latest, mailbox'.folder)
        <3> HIDE DEF box, again
        <3>1. CASE ReadShownAgain(again, pool \ {j})
            BY <3>1, <1>1, <2>4, ReadShownAgainFollows
        <3>2. CASE mailbox' = box /\ pool' = pool \ {j}
            BY <3>2, <1>1, <2>2, <2>3
        <3> QED BY <2>5, <3>1, <3>2
    <2>7. ScreenFollows'
        BY <1>1, <2>5, <2>6, RenderFollows
    <2> QED BY <1>1, <2>6, <2>7
<1> QED BY <1>2, <1>3

\* A folder list that no longer shows the selection clears it.
LEMMA ListsAnsweredKeepsShown ==
    ASSUME ShownInv, NEW j, ListsAnswered(j) PROVE ShownInv'
<1> USE DEF ShownInv, ReadsFollow
<1>1. /\ pool' = pool \ {j}
      /\ JobsFollow(pool \ {j}, mailbox.latest, mailbox.folder)
    BY DEF ListsAnswered, JobsFollow
<1>2. \/ UNCHANGED <<selection, mailbox, screen>>
      \/ UNCHANGED <<selection, mailbox>> /\ Render
      \/ selection' = Nothing /\ mailbox' = Forget(mailbox) /\ Render
    BY DEF ListsAnswered, ShowFolders
<1>3. CASE UNCHANGED <<selection, mailbox, screen>>
    BY <1>1, <1>3 DEF ScreenFollows, ShowsSelectedMailbox
<1>4. CASE UNCHANGED <<selection, mailbox>> /\ Render
    <2>1. ScreenFollows'
        BY <1>4, RenderFollows
    <2> QED BY <1>1, <1>4, <2>1
<1>5. CASE selection' = Nothing /\ mailbox' = Forget(mailbox) /\ Render
    <2>1. /\ MailboxFollows(mailbox', selection')
          /\ JobsFollow(pool, mailbox'.latest, mailbox'.folder)
        BY <1>5, ForgetFollows
    <2>2. ScreenFollows'
        BY <1>5, <2>1, RenderFollows
    <2> QED BY <1>1, <2>1, <2>2 DEF JobsFollow
<1> QED BY <1>2, <1>3, <1>4, <1>5

\* A flag written reads the shown mailbox again, and the next change is written.
LEMMA FlagAnsweredKeepsShown ==
    ASSUME ShownInv, NEW j, FlagAnswered(j) PROVE ShownInv'
<1> USE DEF ShownInv, ReadsFollow
<1> DEFINE next == IF Len(flag_writes) > 1 THEN {FlagJob(flag_writes[2])} ELSE {}
           jobs == (pool \ {j}) \union next
<1>1. selection' = selection /\ screen' = screen
    BY DEF FlagAnswered, sidebar
<1>2. JobsFollow(jobs, mailbox.latest, mailbox.folder)
    BY DEF JobsFollow, JobFollows, FlagJob
<1>3. \/ ReadShownAgain(mailbox, jobs)
      \/ pool' = jobs /\ UNCHANGED mailbox
    BY DEF FlagAnswered
<1>4. /\ MailboxFollows(mailbox', selection')
      /\ JobsFollow(pool', mailbox'.latest, mailbox'.folder)
    <2> HIDE DEF jobs
    <2> QED BY <1>1, <1>2, <1>3, ReadShownAgainFollows
<1> QED BY <1>1, <1>4 DEF ScreenFollows, ShowsSelectedMailbox

\* A change of a flag adds a write to the pool.
LEMMA ChangeFlagKeepsShown ==
    ASSUME ShownInv, ChangeFlag PROVE ShownInv'
<1> USE DEF ShownInv, ReadsFollow
<1>1. UNCHANGED <<mailbox, selection, screen>>
    BY DEF ChangeFlag, sidebar
<1>2. PICK change : pool' = pool \/ pool' = pool \union {FlagJob(change)}
    BY DEF ChangeFlag, WriteFlag
<1>3. JobsFollow(pool', mailbox.latest, mailbox.folder)
    BY <1>2 DEF JobsFollow, JobFollows, FlagJob
<1> QED BY <1>1, <1>3 DEF ScreenFollows, ShowsSelectedMailbox

\* A job that runs keeps its kind, its number and its folder.
LEMMA PoolKeepsShown ==
    ASSUME ShownInv, Pool PROVE ShownInv'
<1> USE DEF ShownInv, ReadsFollow
<1> PICK j \in pool : JobFails(j) \/ RowsRead(j) \/ ListsRead(j) \/ FlagWritten(j)
                      \/ AccountsDeleted(j)
    BY DEF Pool
<1>1. UNCHANGED <<mailbox, selection, screen>>
    BY DEF JobFails, RowsRead, ListsRead, FlagWritten, AccountsDeleted, sidebar, window
<1>2. JobFollows(j, mailbox.latest, mailbox.folder)
    BY DEF JobsFollow
<1>3. PICK done : /\ pool' = pool \ {j} \/ pool' = (pool \ {j}) \union {done}
                  /\ JobFollows(done, mailbox.latest, mailbox.folder)
    <2>1. CASE JobFails(j)
        <3>1. JobFollows([j EXCEPT !.at = "failed"], mailbox.latest, mailbox.folder)
            BY <1>2 DEF JobFollows
        <3> QED BY <2>1, <3>1, <1>2 DEF JobFails, Ends
    <2>2. CASE RowsRead(j)
        <3>1. JobFollows([j EXCEPT !.at = "done", !.list = versions[j.folder]],
                         mailbox.latest, mailbox.folder)
            BY <1>2 DEF JobFollows
        <3> QED BY <2>2, <3>1 DEF RowsRead, Ends
    <2>3. CASE ListsRead(j)
        <3>1. JobFollows([j EXCEPT !.at = "done",
                                   !.lists = [a \in DOMAIN j.lists |-> folders[a]]],
                         mailbox.latest, mailbox.folder)
            BY <1>2 DEF JobFollows
        <3> QED BY <2>3, <3>1 DEF ListsRead, Ends
    <2>4. CASE FlagWritten(j)
        <3>1. JobFollows([j EXCEPT !.at = "done"], mailbox.latest, mailbox.folder)
            BY <1>2 DEF JobFollows
        <3> QED BY <2>4, <3>1 DEF FlagWritten, Ends
    <2>5. CASE AccountsDeleted(j)
        BY <2>5, <1>2 DEF AccountsDeleted
    <2> QED BY <2>1, <2>2, <2>3, <2>4, <2>5
<1>4. JobsFollow(pool', mailbox.latest, mailbox.folder)
    BY <1>3 DEF JobsFollow
<1> QED BY <1>1, <1>4 DEF ScreenFollows, ShowsSelectedMailbox

\* The worker's writes and events reach the window by its handlers only.
LEMMA WorkerKeepsShown ==
    ASSUME ShownInv, Worker PROVE ShownInv'
<1>1. UNCHANGED <<mailbox, selection, screen, pool>>
    BY DEF Worker, BatchStored, WishRefused, FoldersReplaced, LoadEnds, sidebar, window
<1> QED BY <1>1, ElsewhereKeepsShown

-----------------------------------------------------------------------------

\* Nothing is held, read or shown when the window opens.
LEMMA ShownInitially == Init => ShownInv
BY DEF Init, ShownInv, ReadsFollow, MailboxFollows, MailboxFields, JobsFollow,
       ScreenFollows, ShowsSelectedMailbox

\* No step of the user, the window, the pool or the worker breaks the invariant.
LEMMA ShownKept == ShownInv /\ [Next]_vars => ShownInv'
<1> SUFFICES ASSUME ShownInv, [Next]_vars PROVE ShownInv'
    OBVIOUS
<1>1. CASE User
    <2>1. CASE FilterToggled
        <3>1. /\ UNCHANGED <<mailbox, selection, pool>> /\ Render
            BY <2>1 DEF FilterToggled, sidebar
        <3>2. ScreenFollows'
            BY <3>1, RenderFollows DEF ShownInv, ReadsFollow
        <3> QED BY <3>1, <3>2 DEF ShownInv, ReadsFollow
    <2> QED BY <1>1, <2>1, SelectKeepsShown, CollapseKeepsShown, ReadStoredMailKeepsShown,
               ChangeFlagKeepsShown, StartLoadKeepsShown DEF User
<1>2. CASE Window
    BY <1>2, ApplyUpdateKeepsShown, StoreChangedKeepsShown, FinishLoadKeepsShown,
       RowsAnsweredKeepsShown, ListsAnsweredKeepsShown, FlagAnsweredKeepsShown DEF Window
<1>3. CASE Pool
    BY <1>3, PoolKeepsShown
<1>4. CASE Worker
    BY <1>4, WorkerKeepsShown
<1>5. CASE UNCHANGED vars
    BY <1>5, ElsewhereKeepsShown DEF vars, sidebar, window
<1> QED BY <1>1, <1>2, <1>3, <1>4, <1>5 DEF Next

\* The inductive invariant: the read with the latest number is of the mailbox
\* held, the mailbox held is the selected one, and so are the rows on screen.
THEOREM ShownInvariant == Spec => []ShownInv
BY ShownInitially, ShownKept, PTL DEF Spec

\* Whatever reads of other mailboxes were under way when it was selected,
\* hidden or forgotten, the list shows the selected mailbox's rows.
THEOREM SelectedMailboxShown == Spec => []ShowsSelectedMailbox
<1>1. ShownInv => ShowsSelectedMailbox
    BY DEF ShownInv, ScreenFollows
<1> QED BY <1>1, ShownInvariant, PTL

-----------------------------------------------------------------------------
(* The queue of flag changes.                                              *)

Changes == [number : Nat, account : Accounts]

\* Changes wait in the order they were made.
QueueInOrder ==
    /\ flag_writes \in Seq(Changes)
    /\ \A i, k \in 1..Len(flag_writes) :
          i < k => flag_writes[i].number < flag_writes[k].number

\* What was written of a flag is no newer than any change that waits.
WrittenBeforeQueue ==
    /\ "changes" \in DOMAIN spent /\ spent.changes \in Nat
    /\ wish \in [Accounts -> Nat]
    /\ \A i \in 1..Len(flag_writes) : flag_writes[i].number <= spent.changes
    /\ \A a \in Accounts : wish[a] <= spent.changes
    /\ \A a \in Accounts, i \in 1..Len(flag_writes) : wish[a] <= flag_writes[i].number

\* The job of a change is the queue's head's, and the only one.
IsHeadJob(j, queue) ==
    /\ {"job", "at"} \subseteq DOMAIN j
    /\ j.job = "flag" => /\ {"number", "account"} \subseteq DOMAIN j
                         /\ queue # <<>> /\ j.number = queue[1].number

OnlyTheHeadIsWritten(jobs, queue) ==
    /\ \A j \in jobs : IsHeadJob(j, queue)
    /\ \A j, k \in jobs : j.job = "flag" /\ k.job = "flag" => j = k

\* The inductive invariant of the queue.
QueueInv ==
    QueueInOrder /\ WrittenBeforeQueue /\ OnlyTheHeadIsWritten(pool, flag_writes)

\* Reading the shown mailbox again adds no write.
LEMMA ReadAgainWritesNothing ==
    ASSUME NEW box, NEW jobs, NEW queue, OnlyTheHeadIsWritten(jobs, queue),
           ReadShownAgain(box, jobs)
    PROVE  OnlyTheHeadIsWritten(pool', queue)
<1>1. PICK read : /\ pool' = jobs \/ pool' = jobs \union {read}
                  /\ {"job", "at"} \subseteq DOMAIN read /\ read.job = "rows"
    <2>1. /\ {"job", "at"} \subseteq DOMAIN RowsJob(box.latest + 1, selection)
          /\ RowsJob(box.latest + 1, selection).job = "rows"
        BY DEF RowsJob
    <2> QED BY <2>1 DEF ReadShownAgain, ReadShown
<1> QED BY <1>1 DEF OnlyTheHeadIsWritten, IsHeadJob

\* A job that ends stays the job it was.
LEMMA EndedJobKeepsItsPlace ==
    ASSUME NEW j \in pool, NEW done, NEW queue, OnlyTheHeadIsWritten(pool, queue),
           \/ pool' = pool \ {j}
           \/ Ends(j, done) /\ IsHeadJob(done, queue) /\ done.job = j.job
    PROVE  OnlyTheHeadIsWritten(pool', queue)
BY DEF OnlyTheHeadIsWritten, Ends

\* Steps that leave the queue, the flags and their jobs alone.
LEMMA QueueUntouched ==
    QueueInv /\ UNCHANGED <<flag_writes, wish, spent, pool>> => QueueInv'
BY DEF QueueInv, QueueInOrder, WrittenBeforeQueue, OnlyTheHeadIsWritten, IsHeadJob

\* A step that counts no change of a flag.
CountsOther == DOMAIN spent' = DOMAIN spent /\ spent'.changes = spent.changes

\* Steps that only count something else, or add or end other jobs.
LEMMA QueueElsewhere ==
    ASSUME QueueInv, UNCHANGED <<flag_writes, wish>>, CountsOther,
           OnlyTheHeadIsWritten(pool', flag_writes)
    PROVE  QueueInv'
BY DEF QueueInv, QueueInOrder, WrittenBeforeQueue, OnlyTheHeadIsWritten, IsHeadJob, CountsOther

LEMMA SpendingOther ==
    ASSUME QueueInv, NEW what, NEW bound, what # "changes", Spending(what, bound)
    PROVE  CountsOther
BY DEF QueueInv, WrittenBeforeQueue, Spending, CountsOther

\* Every change of a queue has a number.
LEMMA ChangesAreNumbered ==
    ASSUME NEW queue \in Seq(Changes), NEW i \in 1..Len(queue)
    PROVE  queue[i].number \in Nat
<1>1. queue[i] \in Changes
    OBVIOUS
<1> QED BY <1>1 DEF Changes

\* A change waits behind those made before it, or is written at once if none is.
LEMMA ChangeFlagKeepsQueue ==
    ASSUME ShownInv, QueueInv, ChangeFlag PROVE QueueInv'
<1> DEFINE change == [number |-> spent.changes + 1, account |-> screen.folder.account]
<1>1. /\ flag_writes' = Append(flag_writes, change)
      /\ pool' = IF flag_writes = <<>> THEN pool \union {FlagJob(change)} ELSE pool
      /\ wish' = wish
      /\ spent'.changes = spent.changes + 1 /\ "changes" \in DOMAIN spent'
    BY DEF ChangeFlag, Spending, WriteFlag, QueueInv, WrittenBeforeQueue, store
<1>2. change \in Changes
    BY DEF ChangeFlag, ShownInv, ScreenFollows, Changes, Accounts, QueueInv, WrittenBeforeQueue
<1>3. flag_writes \in Seq(Changes) /\ spent.changes \in Nat /\ Len(flag_writes) \in Nat
    BY DEF QueueInv, QueueInOrder, WrittenBeforeQueue
<1>4. /\ flag_writes' \in Seq(Changes) /\ Len(flag_writes') = Len(flag_writes) + 1
      /\ flag_writes'[Len(flag_writes) + 1] = change
      /\ \A i \in 1..Len(flag_writes) : flag_writes'[i] = flag_writes[i]
    <2> HIDE DEF change
    <2> QED BY <1>1, <1>2, <1>3
<1>5. \A i \in 1..Len(flag_writes) : flag_writes[i].number \in Nat
    BY <1>3, ChangesAreNumbered
<1>6. change.number = spent.changes + 1
    OBVIOUS
<1> HIDE DEF change
<1>7. QueueInOrder'
    BY <1>3, <1>4, <1>5, <1>6 DEF QueueInv, QueueInOrder, WrittenBeforeQueue
<1>8. WrittenBeforeQueue'
    BY <1>1, <1>3, <1>4, <1>5, <1>6 DEF QueueInv, WrittenBeforeQueue
<1>9. OnlyTheHeadIsWritten(pool', flag_writes')
    <2>1. CASE flag_writes = <<>>
        <3>1. \A j \in pool : j.job # "flag"
            BY <2>1 DEF QueueInv, OnlyTheHeadIsWritten, IsHeadJob
        <3>2. IsHeadJob(FlagJob(change), flag_writes') /\ FlagJob(change).job = "flag"
            BY <2>1, <1>4 DEF IsHeadJob, FlagJob
        <3> QED BY <2>1, <1>1, <3>1, <3>2 DEF QueueInv, OnlyTheHeadIsWritten, IsHeadJob
    <2>2. CASE flag_writes # <<>>
        <3>1. flag_writes' # <<>> /\ flag_writes'[1] = flag_writes[1]
            BY <2>2, <1>3, <1>4
        <3> QED BY <2>2, <1>1, <3>1 DEF QueueInv, OnlyTheHeadIsWritten, IsHeadJob
    <2> QED BY <2>1, <2>2
<1> QED BY <1>7, <1>8, <1>9 DEF QueueInv

\* The next change is written once the one before it ended.
LEMMA FlagAnsweredKeepsQueue ==
    ASSUME QueueInv, NEW j, FlagAnswered(j) PROVE QueueInv'
<1> DEFINE next == IF Len(flag_writes) > 1 THEN {FlagJob(flag_writes[2])} ELSE {}
           jobs == (pool \ {j}) \union next
<1>1. /\ j \in pool /\ j.job = "flag"
      /\ flag_writes' = Tail(flag_writes)
      /\ UNCHANGED <<wish, spent>>
      /\ ReadShownAgain(mailbox, jobs) \/ pool' = jobs
    BY DEF FlagAnswered, FlagWrites, store
<1>2. flag_writes \in Seq(Changes) /\ flag_writes # <<>>
    BY <1>1 DEF QueueInv, QueueInOrder, OnlyTheHeadIsWritten, IsHeadJob
<1>3. /\ flag_writes' \in Seq(Changes) /\ Len(flag_writes') = Len(flag_writes) - 1
      /\ \A i \in 1..Len(flag_writes') : flag_writes'[i] = flag_writes[i + 1]
    BY <1>1, <1>2
<1>4. /\ \A i \in 1..Len(flag_writes') : i + 1 \in 1..Len(flag_writes)
      /\ Len(flag_writes) \in Nat
    BY <1>2, <1>3
<1>5. QueueInOrder'
    BY <1>2, <1>3, <1>4 DEF QueueInv, QueueInOrder
<1>6. WrittenBeforeQueue'
    BY <1>1, <1>3, <1>4 DEF QueueInv, WrittenBeforeQueue
<1>7. \A k \in pool \ {j} : k.job # "flag" /\ {"job", "at"} \subseteq DOMAIN k
    BY <1>1 DEF QueueInv, OnlyTheHeadIsWritten, IsHeadJob
<1>8. \A k \in next : IsHeadJob(k, flag_writes')
    <2>1. CASE Len(flag_writes) > 1
        <3>1. flag_writes' # <<>> /\ flag_writes'[1] = flag_writes[2]
            BY <2>1, <1>2, <1>3, <1>4
        <3> QED BY <2>1, <3>1 DEF IsHeadJob, FlagJob
    <2> QED BY <2>1
<1>9. OnlyTheHeadIsWritten(jobs, flag_writes')
    BY <1>7, <1>8 DEF OnlyTheHeadIsWritten, IsHeadJob
<1>10. OnlyTheHeadIsWritten(pool', flag_writes')
    <2> HIDE DEF jobs
    <2>1. PICK queue : queue = flag_writes'
        OBVIOUS
    <2> QED BY <2>1, <1>1, <1>9, ReadAgainWritesNothing
<1> QED BY <1>5, <1>6, <1>10 DEF QueueInv

\* The write that runs is the oldest change's: no newer one was written before.
LEMMA FlagWrittenIsOldest ==
    ASSUME QueueInv, NEW j, FlagWritten(j), j \in pool
    PROVE  /\ QueueInv'
           /\ \A a \in Accounts : wish'[a] >= wish[a]
<1>1. /\ j.job = "flag" /\ Ends(j, [j EXCEPT !.at = "done"])
      /\ wish' = [wish EXCEPT ![j.account] = j.number]
      /\ UNCHANGED <<flag_writes, spent>>
    BY DEF FlagWritten, FlagWrites, window
<1>2. /\ IsHeadJob(j, flag_writes) /\ flag_writes # <<>> /\ j.number = flag_writes[1].number
    BY <1>1 DEF QueueInv, OnlyTheHeadIsWritten, IsHeadJob
<1>3. /\ flag_writes \in Seq(Changes) /\ 1 \in 1..Len(flag_writes)
      /\ j.number \in Nat
    <2>1. flag_writes \in Seq(Changes)
        BY DEF QueueInv, QueueInOrder
    <2>2. 1 \in 1..Len(flag_writes)
        BY <1>2, <2>1
    <2> QED BY <1>2, <2>1, <2>2, ChangesAreNumbered
<1>4. \A a \in Accounts : wish'[a] \in {wish[a], j.number}
    BY <1>1 DEF QueueInv, WrittenBeforeQueue
<1>5. \A a \in Accounts : wish[a] <= j.number
    BY <1>2, <1>3 DEF QueueInv, WrittenBeforeQueue
<1>6. \A i \in 1..Len(flag_writes) : j.number <= flag_writes[i].number
    <2>1. \A i \in 1..Len(flag_writes) : flag_writes[i].number \in Nat
        BY <1>3, ChangesAreNumbered
    <2> QED BY <1>2, <1>3, <2>1 DEF QueueInv, QueueInOrder
<1>7. WrittenBeforeQueue'
    <2>1. wish' \in [Accounts -> Nat]
        BY <1>1, <1>3 DEF QueueInv, WrittenBeforeQueue
    <2>2. \A a \in Accounts, i \in 1..Len(flag_writes) : wish'[a] <= flag_writes[i].number
        BY <1>4, <1>6 DEF QueueInv, WrittenBeforeQueue
    <2>3. j.number <= spent.changes
        BY <1>2, <1>3 DEF QueueInv, WrittenBeforeQueue
    <2>4. \A a \in Accounts : wish'[a] <= spent.changes
        BY <1>4, <2>3 DEF QueueInv, WrittenBeforeQueue
    <2> QED BY <1>1, <2>1, <2>2, <2>4 DEF QueueInv, WrittenBeforeQueue
<1>8. OnlyTheHeadIsWritten(pool', flag_writes)
    <2>1. IsHeadJob([j EXCEPT !.at = "done"], flag_writes)
          /\ [j EXCEPT !.at = "done"].job = j.job
        BY <1>2 DEF IsHeadJob
    <2> QED BY <1>1, <2>1, EndedJobKeepsItsPlace DEF QueueInv
<1>9. QueueInv'
    BY <1>1, <1>7, <1>8 DEF QueueInv, QueueInOrder
<1>10. \A a \in Accounts : wish'[a] >= wish[a]
    BY <1>3, <1>4, <1>5 DEF QueueInv, WrittenBeforeQueue
<1> QED BY <1>9, <1>10

\* Jobs that fail, read rows or lists, or delete, leave the writes' order.
LEMMA PoolKeepsQueue ==
    ASSUME QueueInv, NEW j \in pool,
           JobFails(j) \/ RowsRead(j) \/ ListsRead(j) \/ AccountsDeleted(j)
    PROVE  QueueInv' /\ UNCHANGED wish
<1>1. UNCHANGED <<flag_writes, wish>>
    BY DEF JobFails, RowsRead, ListsRead, AccountsDeleted, store, window
<1>2. CountsOther
    BY SpendingOther DEF JobFails, RowsRead, ListsRead, AccountsDeleted, CountsOther
<1>3. IsHeadJob(j, flag_writes) /\ OnlyTheHeadIsWritten(pool, flag_writes)
    BY DEF QueueInv, OnlyTheHeadIsWritten
<1>4. OnlyTheHeadIsWritten(pool', flag_writes)
    <2>1. CASE JobFails(j)
        <3>1. IsHeadJob([j EXCEPT !.at = "failed"], flag_writes)
              /\ [j EXCEPT !.at = "failed"].job = j.job
            BY <1>3 DEF IsHeadJob
        <3> QED BY <2>1, <3>1, <1>3, EndedJobKeepsItsPlace DEF JobFails
    <2>2. CASE RowsRead(j)
        <3> DEFINE done == [j EXCEPT !.at = "done", !.list = versions[j.folder]]
        <3>1. IsHeadJob(done, flag_writes) /\ done.job = j.job
            BY <1>3 DEF IsHeadJob
        <3> QED BY <2>2, <3>1, <1>3, EndedJobKeepsItsPlace DEF RowsRead
    <2>3. CASE ListsRead(j)
        <3> DEFINE done == [j EXCEPT !.at = "done",
                                     !.lists = [a \in DOMAIN j.lists |-> folders[a]]]
        <3>1. IsHeadJob(done, flag_writes) /\ done.job = j.job
            BY <1>3 DEF IsHeadJob
        <3> QED BY <2>3, <3>1, <1>3, EndedJobKeepsItsPlace DEF ListsRead
    <2>4. CASE AccountsDeleted(j)
        BY <2>4, <1>3, EndedJobKeepsItsPlace DEF AccountsDeleted
    <2> QED BY <2>1, <2>2, <2>3, <2>4
<1> QED BY <1>1, <1>2, <1>4, QueueElsewhere

\* The window's reads and deletions are jobs of other kinds.
LEMMA OtherJobsWriteNothing ==
    ASSUME NEW jobs, NEW others, NEW queue, OnlyTheHeadIsWritten(jobs, queue),
           \A j \in others : {"job", "at"} \subseteq DOMAIN j /\ j.job # "flag"
    PROVE  OnlyTheHeadIsWritten(jobs \union others, queue)
BY DEF OnlyTheHeadIsWritten, IsHeadJob

\* A read of the shown mailbox is a job of another kind.
LEMMA ReadShownWritesNothing ==
    ASSUME NEW box, NEW jobs, NEW m, NEW queue, OnlyTheHeadIsWritten(jobs, queue),
           ReadShown(box, jobs, m)
    PROVE  OnlyTheHeadIsWritten(pool', queue)
<1>1. \A j \in {RowsJob(box.latest + 1, m)} : {"job", "at"} \subseteq DOMAIN j /\ j.job # "flag"
    BY DEF RowsJob
<1> QED BY <1>1, OtherJobsWriteNothing DEF ReadShown

\* A folder-list read is a job of another kind.
LEMMA ListsJobWritesNothing ==
    ASSUME NEW accounts, NEW queue, OnlyTheHeadIsWritten(pool, queue)
    PROVE  OnlyTheHeadIsWritten(pool \union {ListsJob(accounts)}, queue)
<1>1. \A j \in {ListsJob(accounts)} : {"job", "at"} \subseteq DOMAIN j /\ j.job # "flag"
    BY DEF ListsJob
<1> QED BY <1>1, OtherJobsWriteNothing

\* The user's choices, Retries and loads read, and write no flag.
LEMMA ChoicesKeepQueue ==
    ASSUME QueueInv,
           \/ \E choice \in Mailboxes \union Accounts : Select(choice)
           \/ Collapse \/ ReadStoredMail \/ FilterToggled
           \/ \E target \in Targets : StartLoad(target)
    PROVE  QueueInv' /\ UNCHANGED wish
<1>1. UNCHANGED <<flag_writes, wish>>
    BY DEF Select, Collapse, ReadStoredMail, FilterToggled, StartLoad, store
<1>2. CountsOther
    BY SpendingOther DEF Select, Collapse, ReadStoredMail, FilterToggled, StartLoad, CountsOther
<1>3. OnlyTheHeadIsWritten(pool, flag_writes)
    BY DEF QueueInv
<1>4. OnlyTheHeadIsWritten(pool', flag_writes)
    <2>1. ASSUME NEW choice, Select(choice) PROVE OnlyTheHeadIsWritten(pool', flag_writes)
        BY <2>1, <1>3, ReadShownWritesNothing DEF Select
    <2>2. CASE ReadStoredMail
        <3>1. OnlyTheHeadIsWritten(pool \union {ListsJob(shown)}, flag_writes)
            BY <1>3, ListsJobWritesNothing
        <3> QED BY <2>2, <3>1, ReadShownWritesNothing DEF ReadStoredMail
    <2>3. CASE Collapse \/ FilterToggled \/ \E target \in Targets : StartLoad(target)
        BY <2>3, <1>3 DEF Collapse, FilterToggled, StartLoad
    <2> QED BY <2>1, <2>2, <2>3
<1> QED BY <1>1, <1>2, <1>4, QueueElsewhere

\* Account answers, load events and answered reads read again, and write no flag.
LEMMA HandlersKeepQueue ==
    ASSUME QueueInv,
           \/ \E now, keeps \in SUBSET Accounts : ApplyUpdate(now, keeps)
           \/ StoreChangedDelivered \/ FinishLoad
           \/ \E j \in pool : RowsAnswered(j) \/ ListsAnswered(j)
    PROVE  QueueInv' /\ UNCHANGED wish
<1>1. UNCHANGED <<flag_writes, wish>>
    BY DEF ApplyUpdate, StoreChangedDelivered, FinishLoad, RowsAnswered, ListsAnswered, store
<1>2. CountsOther
    BY SpendingOther DEF ApplyUpdate, StoreChangedDelivered, FinishLoad, RowsAnswered,
       ListsAnswered, CountsOther
<1>3. OnlyTheHeadIsWritten(pool, flag_writes)
    BY DEF QueueInv
<1>4. \A gone : OnlyTheHeadIsWritten(pool \ gone, flag_writes)
    BY <1>3 DEF OnlyTheHeadIsWritten
<1>5. OnlyTheHeadIsWritten(pool \union {ListsJob(shown)}, flag_writes)
    BY <1>3, ListsJobWritesNothing
<1>6. OnlyTheHeadIsWritten(pool', flag_writes)
    <2>1. ASSUME NEW now, NEW keeps, ApplyUpdate(now, keeps)
          PROVE  OnlyTheHeadIsWritten(pool', flag_writes)
        <3> DEFINE added == {ListsJob(now),
                             [job |-> "delete", at |-> "waits", number |-> spent'.updates,
                              keeps |-> keeps]}
        <3>1. \A j \in added : {"job", "at"} \subseteq DOMAIN j /\ j.job # "flag"
            BY DEF ListsJob
        <3>2. pool' = pool \union added
            BY <2>1 DEF ApplyUpdate
        <3> HIDE DEF added
        <3> QED BY <3>1, <3>2, <1>3, OtherJobsWriteNothing
    <2>2. CASE StoreChangedDelivered
        BY <2>2, <1>3, ReadAgainWritesNothing DEF StoreChangedDelivered
    <2>3. CASE FinishLoad
        BY <2>3, <1>3, <1>5, ReadAgainWritesNothing, ReadShownWritesNothing DEF FinishLoad
    <2>4. ASSUME NEW j, RowsAnswered(j) PROVE OnlyTheHeadIsWritten(pool', flag_writes)
        <3>1. \/ pool' = pool \ {j}
              \/ ReadShownAgain([FinishRead(mailbox, j) EXCEPT !.due = FALSE], pool \ {j})
            BY <2>4 DEF RowsAnswered
        <3> QED BY <3>1, <1>4, ReadAgainWritesNothing
    <2>5. ASSUME NEW j, ListsAnswered(j) PROVE OnlyTheHeadIsWritten(pool', flag_writes)
        BY <2>5, <1>4 DEF ListsAnswered
    <2> QED BY <2>1, <2>2, <2>3, <2>4, <2>5
<1> QED BY <1>1, <1>2, <1>6, QueueElsewhere

-----------------------------------------------------------------------------

\* No change waits when the window opens.
LEMMA QueueInitially == Init => QueueInv
BY DEF Init, QueueInv, QueueInOrder, WrittenBeforeQueue, OnlyTheHeadIsWritten

\* Every step keeps the queue's order, and writes no older change over a newer.
LEMMA QueueKept ==
    ShownInv /\ QueueInv /\ [Next]_vars => QueueInv' /\ \A a \in Accounts : wish'[a] >= wish[a]
<1> SUFFICES ASSUME ShownInv, QueueInv, [Next]_vars
             PROVE  QueueInv' /\ \A a \in Accounts : wish'[a] >= wish[a]
    OBVIOUS
<1>1. UNCHANGED wish => \A a \in Accounts : wish'[a] >= wish[a]
    BY DEF QueueInv, WrittenBeforeQueue
<1>2. CASE ChangeFlag
    BY <1>1, <1>2, ChangeFlagKeepsQueue DEF ChangeFlag, store
<1>3. ASSUME NEW j, FlagAnswered(j) PROVE QueueInv' /\ UNCHANGED wish
    BY <1>3, FlagAnsweredKeepsQueue DEF FlagAnswered, store
<1>4. CASE User
    BY <1>1, <1>2, <1>4, ChoicesKeepQueue DEF User
<1>5. CASE Window
    BY <1>1, <1>3, <1>5, HandlersKeepQueue DEF Window
<1>6. CASE Pool
    BY <1>1, <1>6, PoolKeepsQueue, FlagWrittenIsOldest DEF Pool
<1>7. CASE Worker \/ UNCHANGED vars
    <2>1. UNCHANGED <<flag_writes, wish, spent, pool>>
        BY <1>7 DEF Worker, BatchStored, WishRefused, FoldersReplaced, LoadEnds, vars, store,
           sidebar, window
    <2> QED BY <2>1, <1>1, QueueUntouched
<1> QED BY <1>4, <1>5, <1>6, <1>7 DEF Next

\* The inductive invariant: changes wait in order, what was written is no newer
\* than they are, and the one write that may run is the oldest change's.
THEOREM QueueInvariant == Spec => []QueueInv
BY ShownInvariant, QueueInitially, QueueKept, PTL DEF Spec

\* Whatever the pool does, of two changes of a flag the later one lands last.
THEOREM LaterChangeLast == Spec => LaterChangeLandsLast
<1>1. ShownInv /\ QueueInv /\ [Next]_vars => [\A a \in Accounts : wish'[a] >= wish[a]]_vars
    BY QueueKept
<1> QED BY <1>1, ShownInvariant, QueueInvariant, PTL DEF Spec, LaterChangeLandsLast

-----------------------------------------------------------------------------
(* What is shown is current: the invariants.  Each step of the store is      *)
(* reported by an event or a flag write that landed, and each report makes   *)
(* the window read again.                                                    *)

\* The store has versions and mailboxes, each under its account.
StoreTyped ==
    /\ versions \in [Mailboxes -> Nat]
    /\ DOMAIN folders = Accounts /\ \A a \in Accounts : folders[a] \subseteq Of(a)

\* The sidebar shows mailboxes under their accounts, as the folder lists read do.
ListsTyped(j, latest) ==
    /\ {"at", "number", "lists"} \subseteq DOMAIN j
    /\ j.at \in {"waits", "done", "failed"}
    /\ j.number \in Nat /\ j.number <= latest
    /\ DOMAIN j.lists \subseteq Accounts
    /\ \A a \in DOMAIN j.lists : j.lists[a] \subseteq Of(a)

SidebarTyped ==
    /\ DOMAIN tree = Accounts /\ \A a \in Accounts : tree[a] \subseteq Of(a)
    /\ shown \subseteq Accounts
    /\ selection \in Mailboxes \union Accounts \union {Nothing}
    /\ selection \in Mailboxes => selection.account \in shown
    /\ DOMAIN lists = {"latest", "reading", "failed", "unread"} /\ lists.latest \in Nat
    /\ \A j \in ListReads : ListsTyped(j, lists.latest)

\* A load's result is its last event, and no event comes without a load.
LoadInv ==
    /\ load \in LoadRecords \union {Nothing}
    /\ events \in Seq({"StoreChanged"} \union Results)
    /\ load = Nothing => events = <<>>
    /\ \A i \in 1..Len(events) : events[i] \in Results =>
          /\ i = Len(events) /\ load.ended
          /\ events[i] = "Cancelled" => load.cancelled

\* What the three say of each other's types holds together.
TypedInv == StoreTyped /\ SidebarTyped /\ LoadInv

\* The mailbox held is being read if, and only if, one read has its number.
RowsTyped(j, latest) ==
    /\ {"at", "number", "list"} \subseteq DOMAIN j
    /\ j.at \in {"waits", "done", "failed"}
    /\ j.number \in Nat /\ j.number <= latest /\ j.list \in Nat

Numbered(box, reads) ==
    /\ DOMAIN box = MailboxFields /\ box.latest \in Nat /\ box.state \in States
    /\ box.state = "Read" => box.found.list \in Nat
    /\ \A j \in reads : RowsTyped(j, box.latest)
    /\ \A j, k \in reads : j.number = k.number => j = k
    /\ IsReading(box) <=> \E j \in reads : j.number = box.latest

\* The mailbox selected is held.
HeldInv ==
    /\ selection \in Mailboxes => mailbox.folder = selection
    /\ Numbered(mailbox, RowsReads)

\* The rows on screen are of a mailbox read, or being read again.
ScreenInv ==
    /\ screen # Nothing => /\ mailbox.folder = selection
                           /\ \/ mailbox.state = "Read" /\ HasRows(mailbox.found.list)
                              \/ mailbox.state = "ReadingAgain"
    /\ Page = "Messages" => screen = [folder |-> selection, rows |-> mailbox.found]

\* A mailbox held and neither read nor failed waits for a load, or a load of
\* its failed.
Awaited(m) ==
    \/ /\ load # Nothing /\ ~load.cancelled
       /\ load.account = m.account /\ load.target \in {FolderList, m}
    \/ load = Nothing /\ failed[m.account] \in {FolderList, m}

AwaitedInv ==
    /\ DOMAIN failed = Accounts
    /\ mailbox.folder \in Mailboxes /\ mailbox.state = "NotRead" => Awaited(mailbox.folder)

\* What tells the window that a mailbox's rows changed.
FlagLanded(jobs) == \E j \in jobs : j.job = "flag" /\ j.at = "done"

StoreReported(account) ==
    /\ load # Nothing /\ load.account = account
    /\ \E i \in 1..Len(events) : events[i] = "StoreChanged"

Reported(m) == FlagLanded(pool) \/ StoreReported(m.account)

\* The version on screen.
Seen == IF screen = Nothing THEN NotLoaded ELSE screen.rows.list

\* What was seen is no newer than what was found, nor that than what a read
\* found, nor that than the store; and what is older than the store is
\* reported, or read again.
CurrentRows(box, reads, seen, version, reported) ==
    /\ seen \in 0..version
    /\ box.state = "Read" =>
        /\ seen <= box.found.list /\ box.found.list <= version
        /\ box.found.list = version \/ reported \/ IsReading(box)
    /\ \A j \in reads : j.number = box.latest /\ j.at = "done" =>
        /\ seen <= j.list /\ j.list <= version
        /\ box.state = "Read" => box.found.list <= j.list
        /\ j.list = version \/ reported \/ box.due

RowsInv ==
    selection \in Mailboxes /\ ~Overtaken(selection) =>
        CurrentRows(mailbox, RowsReads, Seen, versions[selection], Reported(selection))

\* An account's folder list replaced is reported by its load's result.
ListReported(account) ==
    /\ load # Nothing /\ load.account = account /\ load.target = FolderList
    /\ \E i \in 1..Len(events) : events[i] = "Stored"

\* A folder list in the sidebar older than the store's is reported, or read
\* again, or the latest read of them failed.
ListsInv ==
    /\ \A a \in shown \ overtaken :
          \/ tree[a] = folders[a] \/ lists.unread \/ ListReported(a)
          \/ \E j \in ListReads : j.number = lists.latest
    /\ \A j \in ListReads : j.number = lists.latest =>
          /\ DOMAIN j.lists = shown
          /\ j.at = "done" =>
                \A a \in shown \ overtaken : j.lists[a] = folders[a] \/ ListReported(a)

-----------------------------------------------------------------------------
(* The jobs of each kind.                                                    *)

Kind(jobs, kind) == {j \in jobs : j.job = kind}

\* Reading the shown mailbox adds at most a read of rows.
LEMMA ReadShownAddsRows ==
    ASSUME NEW box, NEW jobs, NEW m, ReadShown(box, jobs, m), NEW kind, kind # "rows"
    PROVE  Kind(pool', kind) = Kind(jobs, kind)
BY DEF ReadShown, RowsJob, Kind

LEMMA ReadAgainAddsRows ==
    ASSUME NEW box, NEW jobs, ReadShownAgain(box, jobs), NEW kind, kind # "rows"
    PROVE  Kind(pool', kind) = Kind(jobs, kind)
<1>1. PICK m : pool' = jobs \/ pool' = jobs \union {RowsJob(box.latest + 1, m)}
    BY DEF ReadShownAgain, ReadShown
<1> QED BY <1>1 DEF RowsJob, Kind

\* A job that ends stays of its kind.
LEMMA EndedStaysOfItsKind ==
    ASSUME ShownInv, NEW j \in pool, NEW done, Ends(j, done), done.job = j.job, NEW kind
    PROVE  Kind(pool', kind) =
               IF j.job = kind THEN (Kind(pool, kind) \ {j}) \union {done} ELSE Kind(pool, kind)
BY DEF Ends, Kind

\* Every job names its kind and how far it is.
LEMMA JobsAreNamed == ShownInv => \A j \in pool : {"job", "at"} \subseteq DOMAIN j
BY DEF ShownInv, ReadsFollow, JobsFollow, JobFollows

LEMMA KindsOfReads == RowsReads = Kind(pool, "rows") /\ ListReads = Kind(pool, "lists")
BY DEF RowsReads, ListReads, Kind

-----------------------------------------------------------------------------
(* The store's versions and folder lists.                                    *)

\* The steps that write the store.
StoreWritten ==
    \/ \E j \in pool : FlagWritten(j) \/ AccountsDeleted(j)
    \/ /\ load # Nothing
       /\ \E changed \in SUBSET Of(load.account) :
             BatchStored(changed) \/ WishRefused(changed) \/ FoldersReplaced(changed)

LEMMA OtherStepsKeepTheStore ==
    [Next]_vars => StoreWritten \/ UNCHANGED <<versions, folders, overtaken>>
<1> SUFFICES ASSUME [Next]_vars PROVE StoreWritten \/ UNCHANGED <<versions, folders, overtaken>>
    OBVIOUS
<1>1. CASE User
    BY <1>1 DEF User, Select, Collapse, ReadStoredMail, FilterToggled, ChangeFlag, StartLoad, store
<1>2. CASE Window
    BY <1>2 DEF Window, ApplyUpdate, StoreChangedDelivered, FinishLoad, RowsAnswered,
       ListsAnswered, FlagAnswered, store
<1>3. CASE Pool
    BY <1>3 DEF Pool, JobFails, RowsRead, ListsRead, StoreWritten, store
<1>4. CASE Worker
    BY <1>4 DEF Worker, LoadEnds, StoreWritten, store
<1>5. CASE UNCHANGED vars
    BY <1>5 DEF vars, store
<1> QED BY <1>1, <1>2, <1>3, <1>4, <1>5 DEF Next

\* A change raises the versions of its mailboxes.
LEMMA RaisedVersions ==
    ASSUME StoreTyped, NEW changed
    PROVE  /\ Raised(changed) \in [Mailboxes -> Nat]
           /\ \A m \in Mailboxes : Raised(changed)[m] >= versions[m]
BY DEF Raised, StoreTyped

\* Of is of the account's mailboxes.
LEMMA OfAccount == \A a \in Accounts : \A m \in Of(a) : m \in Mailboxes /\ m.account = a
BY DEF Of

LEMMA StoreTypedInitially == Init => StoreTyped
<1> SUFFICES ASSUME Init PROVE StoreTyped
    OBVIOUS
<1>1. versions \in [Mailboxes -> {NotLoaded, 1}]
    BY DEF Init
<1>2. folders \in [Accounts -> SUBSET Mailboxes] /\ \A a \in Accounts : folders[a] \subseteq Of(a)
    BY DEF Init
<1> QED BY <1>1, <1>2 DEF StoreTyped, NotLoaded

LEMMA StoreTypedKept == LoadInv /\ StoreTyped /\ [Next]_vars => StoreTyped'
<1> SUFFICES ASSUME LoadInv, StoreTyped, [Next]_vars PROVE StoreTyped'
    OBVIOUS
<1>1. CASE UNCHANGED <<versions, folders, overtaken>>
    BY <1>1 DEF StoreTyped
<1>2. ASSUME NEW j \in pool, FlagWritten(j) PROVE StoreTyped'
    BY <1>2, RaisedVersions DEF FlagWritten, StoreTyped
<1>3. ASSUME NEW j \in pool, AccountsDeleted(j) PROVE StoreTyped'
    BY <1>3 DEF AccountsDeleted, StoreTyped, NotLoaded
<1>4. ASSUME NEW changed, BatchStored(changed) \/ WishRefused(changed) PROVE StoreTyped'
    BY <1>4, RaisedVersions DEF BatchStored, WishRefused, StoreTyped
<1>5. ASSUME load # Nothing, NEW changed \in SUBSET Of(load.account), FoldersReplaced(changed)
      PROVE  StoreTyped'
    <2>1. load.account \in Accounts
        BY <1>5 DEF LoadInv, LoadRecords
    <2>2. versions' \in [Mailboxes -> Nat]
        BY <1>5 DEF FoldersReplaced, StoreTyped, NotLoaded
    <2>3. folders' = [folders EXCEPT ![load.account] = changed]
        BY <1>5 DEF FoldersReplaced
    <2> QED BY <2>1, <2>2, <2>3, <1>5 DEF StoreTyped
<1> QED BY OtherStepsKeepTheStore, <1>1, <1>2, <1>3, <1>4, <1>5 DEF StoreWritten

-----------------------------------------------------------------------------
(* The load and its events.                                                  *)

\* The steps of a load.
LoadStep ==
    \/ \E target \in Targets : StartLoad(target)
    \/ \E now, keeps \in SUBSET Accounts : ApplyUpdate(now, keeps)
    \/ StoreChangedDelivered \/ FinishLoad
    \/ \E changed : BatchStored(changed) \/ WishRefused(changed) \/ FoldersReplaced(changed)
    \/ \E result \in Results : LoadEnds(result)

LEMMA OtherStepsKeepTheLoad == [Next]_vars => LoadStep \/ UNCHANGED <<load, events>>
<1> SUFFICES ASSUME [Next]_vars PROVE LoadStep \/ UNCHANGED <<load, events>>
    OBVIOUS
<1>1. CASE User
    BY <1>1 DEF User, LoadStep, Select, Collapse, ReadStoredMail, FilterToggled, ChangeFlag
<1>2. CASE Window
    BY <1>2 DEF Window, LoadStep, RowsAnswered, ListsAnswered, FlagAnswered
<1>3. CASE Pool
    BY <1>3 DEF Pool, JobFails, RowsRead, ListsRead, FlagWritten, AccountsDeleted, window
<1>4. CASE Worker
    BY <1>4 DEF Worker, LoadStep
<1>5. CASE UNCHANGED vars
    BY <1>5 DEF vars, window
<1> QED BY <1>1, <1>2, <1>3, <1>4, <1>5 DEF Next

\* Before a load ended none of its events is a result.
LEMMA NoResultYet ==
    ASSUME LoadInv, Loading PROVE \A i \in 1..Len(events) : events[i] = "StoreChanged"
<1>1. \A i \in 1..Len(events) : events[i] \in {"StoreChanged"} \union Results
    BY DEF LoadInv
<1> QED BY <1>1 DEF LoadInv, Loading

\* The events of a load are StoreChanged until a result ends them.
LEMMA EventsAppended ==
    ASSUME LoadInv, Loading, NEW event \in {"StoreChanged"} \union Results
    PROVE  LET longer == Append(events, event) IN
           /\ longer \in Seq({"StoreChanged"} \union Results)
           /\ Len(longer) = Len(events) + 1 /\ longer[Len(longer)] = event
           /\ \A i \in 1..Len(longer) : longer[i] \in Results => i = Len(longer)
<1>1. events \in Seq({"StoreChanged"} \union Results)
    BY DEF LoadInv
<1>2. "StoreChanged" \notin Results
    BY DEF Results
<1> QED BY <1>1, <1>2, NoResultYet

LEMMA LoadInvKept == SidebarTyped /\ LoadInv /\ [Next]_vars => LoadInv'
<1> SUFFICES ASSUME SidebarTyped, LoadInv, [Next]_vars PROVE LoadInv'
    OBVIOUS
<1>0. events \in Seq({"StoreChanged"} \union Results)
    BY DEF LoadInv
<1>1. CASE UNCHANGED <<load, events>>
    BY <1>1 DEF LoadInv
<1>2. ASSUME NEW target \in Targets, StartLoad(target) PROVE LoadInv'
    <2>1. load = Nothing /\ events = <<>> /\ events' = events
        BY <1>2 DEF StartLoad, LoadInv
    <2>2. SelectedAccount \in Accounts
        BY <1>2 DEF StartLoad, SelectedAccount, SidebarTyped, Accounts
    <2>3. load' \in LoadRecords
        BY <1>2, <2>2 DEF StartLoad, LoadRecords
    <2> QED BY <2>1, <2>3 DEF LoadInv
<1>3. ASSUME NEW now, NEW keeps, ApplyUpdate(now, keeps) PROVE LoadInv'
    <2>1. /\ events' = events
          /\ load' = load \/ (load # Nothing /\ load' = [load EXCEPT !.cancelled = TRUE])
        BY <1>3 DEF ApplyUpdate
    <2>2. CASE load # Nothing /\ load' = [load EXCEPT !.cancelled = TRUE]
        <3>1. load \in LoadRecords
            BY <2>2 DEF LoadInv
        <3>2. load' \in LoadRecords /\ load'.ended = load.ended /\ load'.cancelled
            BY <2>2, <3>1 DEF LoadRecords
        <3> QED BY <2>1, <2>2, <3>1, <3>2, WindowAssumption DEF LoadInv
    <2> QED BY <2>1, <2>2 DEF LoadInv
<1>4. CASE StoreChangedDelivered
    <2>1. events # <<>> /\ events' = Tail(events) /\ load' = load
        BY <1>4 DEF StoreChangedDelivered
    <2>2. /\ events' \in Seq({"StoreChanged"} \union Results) /\ Len(events') = Len(events) - 1
          /\ Len(events) \in Nat
          /\ \A i \in 1..Len(events') : i + 1 \in 1..Len(events) /\ events'[i] = events[i + 1]
        BY <2>1, <1>0
    <2>3. load \in LoadRecords
        BY <2>1 DEF LoadInv
    <2>4. ASSUME NEW i \in 1..Len(events'), events'[i] \in Results
          PROVE  i = Len(events') /\ load.ended /\ (events'[i] = "Cancelled" => load.cancelled)
        <3>1. i + 1 \in 1..Len(events) /\ events[i + 1] = events'[i]
            BY <2>2
        <3> QED BY <2>2, <2>4, <3>1 DEF LoadInv
    <2> QED BY <2>1, <2>2, <2>3, <2>4, WindowAssumption DEF LoadInv
<1>5. CASE FinishLoad
    <2>1. events # <<>> /\ Head(events) \in Results /\ events' = Tail(events) /\ load' = Nothing
        BY <1>5 DEF FinishLoad
    <2>2. 1 \in 1..Len(events) /\ events[1] \in Results
        BY <2>1, <1>0
    <2>3. Len(events) = 1
        BY <2>2 DEF LoadInv
    <2>4. events' = <<>>
        BY <2>1, <2>3, <1>0
    <2> QED BY <2>1, <2>4 DEF LoadInv
<1>6. ASSUME NEW changed, BatchStored(changed) PROVE LoadInv'
    <2>1. Loading /\ load' = load /\ events' = Append(events, "StoreChanged")
        BY <1>6 DEF BatchStored, MayWrite, window
    <2>2. "StoreChanged" \notin Results
        BY DEF Results
    <2>3. \A i \in 1..Len(events') : events'[i] \notin Results
        BY <2>1, <2>2, <1>0, NoResultYet
    <2> QED BY <2>1, <2>3, <1>0 DEF LoadInv, Loading
<1>7. ASSUME NEW result \in Results, LoadEnds(result) PROVE LoadInv'
    <2>1. /\ Loading /\ load' = [load EXCEPT !.ended = TRUE] /\ events' = Append(events, result)
          /\ result = "Cancelled" => load.cancelled
        BY <1>7 DEF LoadEnds
    <2>2. load \in LoadRecords
        BY <2>1 DEF Loading, LoadInv
    <2>3. load' \in LoadRecords /\ load'.ended /\ load'.cancelled = load.cancelled
        BY <2>1, <2>2 DEF LoadRecords
    <2>4. /\ events' \in Seq({"StoreChanged"} \union Results)
          /\ events'[Len(events')] = result
          /\ \A i \in 1..Len(events') : events'[i] \in Results => i = Len(events')
        BY <2>1, EventsAppended
    <2> QED BY <2>1, <2>3, <2>4, WindowAssumption DEF LoadInv
<1>8. ASSUME NEW changed, FoldersReplaced(changed) PROVE LoadInv'
    <2>1. Loading /\ load' = [load EXCEPT !.ended = TRUE] /\ events' = Append(events, "Stored")
        BY <1>8 DEF FoldersReplaced, MayWrite
    <2>2. load \in LoadRecords
        BY <2>1 DEF Loading, LoadInv
    <2>3. load' \in LoadRecords /\ load'.ended
        BY <2>1, <2>2 DEF LoadRecords
    <2>4. /\ events' \in Seq({"StoreChanged"} \union Results)
          /\ events'[Len(events')] = "Stored"
          /\ \A i \in 1..Len(events') : events'[i] \in Results => i = Len(events')
        BY <2>1, EventsAppended DEF Results
    <2> QED BY <2>1, <2>3, <2>4, WindowAssumption DEF LoadInv
<1>9. ASSUME NEW changed, WishRefused(changed) PROVE LoadInv'
    <2>1. /\ Loading /\ load' = [load EXCEPT !.ended = TRUE]
          /\ events' = events \o <<"StoreChanged", "Failed">>
        BY <1>9 DEF WishRefused
    <2>2. load \in LoadRecords
        BY <2>1 DEF Loading, LoadInv
    <2>3. load' \in LoadRecords /\ load'.ended
        BY <2>1, <2>2 DEF LoadRecords
    <2>4. <<"StoreChanged", "Failed">> \in Seq({"StoreChanged"} \union Results)
        BY DEF Results
    <2>5. /\ events' \in Seq({"StoreChanged"} \union Results) /\ Len(events') = Len(events) + 2
          /\ \A i \in 1..Len(events) : events'[i] = events[i]
          /\ events'[Len(events) + 1] = "StoreChanged" /\ events'[Len(events) + 2] = "Failed"
        BY <2>1, <2>4, <1>0
    <2>6. \A i \in 1..Len(events') : events'[i] \in Results => i = Len(events') /\ events'[i] = "Failed"
        BY <2>1, <2>5, <1>0, NoResultYet DEF Results
    <2> QED BY <2>1, <2>3, <2>5, <2>6, WindowAssumption DEF LoadInv
<1> QED BY OtherStepsKeepTheLoad, <1>1, <1>2, <1>3, <1>4, <1>5, <1>6, <1>7, <1>8, <1>9 DEF LoadStep


-----------------------------------------------------------------------------
(* The folder-list reads.                                                    *)

\* Neither the sidebar nor the latest read is touched.
ListsKept ==
    /\ UNCHANGED <<shown, tree>>
    /\ lists' = lists \/ lists' = [lists EXCEPT !.failed = FALSE]
    /\ ListReads' \subseteq ListReads
    /\ \A j \in ListReads : j.number = lists.latest => j \in ListReads'

\* A new read of the accounts shown.
ListsStarted ==
    /\ \/ UNCHANGED <<shown, tree>>
       \/ \E now, keeps \in SUBSET Accounts : ApplyUpdate(now, keeps)
    /\ StartListsRead
    /\ ListReads' = ListReads \union {ListsJob(shown')}

\* The pool runs a read.
ListsEnded(j) ==
    /\ UNCHANGED <<shown, tree, lists>>
    /\ j \in ListReads /\ j.at = "waits"
    /\ \/ ListReads' = (ListReads \ {j}) \union {[j EXCEPT !.at = "failed"]}
       \/ /\ ListReads' = (ListReads \ {j}) \union
                 {[j EXCEPT !.at = "done", !.lists = [a \in DOMAIN j.lists |-> folders[a]]]}
          /\ UNCHANGED <<folders, load, events, overtaken>>

\* The latest read's answer.
ListsTaken(j) == ListsAnswered(j) /\ IsLatestLists(j)

LEMMA UserListReads == ShownInv /\ User => ListsKept \/ ListsStarted
<1> SUFFICES ASSUME ShownInv, User PROVE ListsKept \/ ListsStarted
    OBVIOUS
<1>1. ASSUME NEW choice, Select(choice) PROVE ListsKept
    <2>1. UNCHANGED <<shown, tree, lists>>
        BY <1>1 DEF Select
    <2>2. Kind(pool', "lists") = Kind(pool, "lists")
        BY <1>1, ReadShownAddsRows DEF Select
    <2> QED BY <2>1, <2>2 DEF ListsKept, ListReads, Kind
<1>2. CASE ReadStoredMail
    <2>1. UNCHANGED sidebar /\ StartListsRead
        BY <1>2 DEF ReadStoredMail
    <2>2. Kind(pool', "lists") = Kind(pool \union {ListsJob(shown)}, "lists")
        BY <1>2, ReadShownAddsRows DEF ReadStoredMail
    <2> QED BY <2>1, <2>2 DEF ListsStarted, ListReads, Kind, ListsJob, sidebar
<1>3. ASSUME NEW target, StartLoad(target) PROVE ListsKept
    BY <1>3 DEF StartLoad, ListsKept, ListReads, sidebar
<1>4. CASE Collapse \/ FilterToggled
    BY <1>4 DEF Collapse, FilterToggled, ListsKept, ListReads, sidebar
<1>5. CASE ChangeFlag
    <2>1. PICK change : pool' = pool \/ pool' = pool \union {FlagJob(change)}
        BY <1>5 DEF ChangeFlag, WriteFlag
    <2>2. UNCHANGED <<shown, tree, lists>>
        BY <1>5 DEF ChangeFlag, sidebar
    <2> QED BY <2>1, <2>2 DEF ListsKept, ListReads, FlagJob
<1> QED BY <1>1, <1>2, <1>3, <1>4, <1>5 DEF User

\* A folder list stored is read.
LEMMA FolderListFinished ==
    ASSUME FinishLoad, Head(events) = "Stored", load.target = FolderList
    PROVE  ListsStarted
<1>1. UNCHANGED <<shown, tree>> /\ StartListsRead
    BY DEF FinishLoad, sidebar
<1>2. Kind(pool', "lists") = Kind(pool \union {ListsJob(shown)}, "lists")
    BY ReadShownAddsRows DEF FinishLoad
<1> QED BY <1>1, <1>2 DEF ListsStarted, ListReads, Kind, ListsJob

LEMMA WindowListReads ==
    ShownInv /\ Window => ListsKept \/ ListsStarted \/ \E j \in pool : ListsTaken(j)
<1> SUFFICES ASSUME ShownInv, Window
             PROVE  ListsKept \/ ListsStarted \/ \E j \in pool : ListsTaken(j)
    OBVIOUS
<1>1. ASSUME NEW now \in SUBSET Accounts, NEW keeps \in SUBSET Accounts, ApplyUpdate(now, keeps)
      PROVE  ListsStarted
    <2> DEFINE deletion == [job |-> "delete", at |-> "waits", number |-> spent'.updates,
                            keeps |-> keeps]
    <2>1. shown' = now /\ StartListsRead /\ pool' = pool \union {ListsJob(now), deletion}
        BY <1>1 DEF ApplyUpdate
    <2>2. deletion.job = "delete" /\ ListsJob(now).job = "lists"
        BY DEF ListsJob
    <2> HIDE DEF deletion
    <2> QED BY <2>1, <2>2, <1>1 DEF ListsStarted, ListReads
<1>2. CASE StoreChangedDelivered
    <2>1. UNCHANGED <<shown, tree, lists>>
        BY <1>2 DEF StoreChangedDelivered, sidebar
    <2>2. Kind(pool', "lists") = Kind(pool, "lists")
        BY <1>2, ReadAgainAddsRows DEF StoreChangedDelivered
    <2> QED BY <2>1, <2>2 DEF ListsKept, ListReads, Kind
<1>3. CASE FinishLoad
    <2>1. UNCHANGED <<shown, tree>>
        BY <1>3 DEF FinishLoad, sidebar
    <2>2. CASE Head(events) = "Stored" /\ load.target = FolderList
        BY <1>3, <2>2, FolderListFinished
    <2>3. CASE ~(Head(events) = "Stored" /\ load.target = FolderList)
        <3>1. Kind(pool', "lists") = Kind(pool, "lists") /\ lists' = lists
            BY <1>3, <2>3, ReadAgainAddsRows DEF FinishLoad
        <3> QED BY <2>1, <3>1 DEF ListsKept, ListReads, Kind
    <2> QED BY <2>2, <2>3
<1>4. ASSUME NEW j, RowsAnswered(j) PROVE ListsKept
    <2>1. UNCHANGED <<shown, tree, lists>> /\ j.job = "rows"
        BY <1>4 DEF RowsAnswered, RowsReads, sidebar
    <2>2. \/ pool' = pool \ {j}
          \/ ReadShownAgain([FinishRead(mailbox, j) EXCEPT !.due = FALSE], pool \ {j})
        BY <1>4 DEF RowsAnswered
    <2>3. Kind(pool', "lists") = Kind(pool \ {j}, "lists")
        BY <2>2, ReadAgainAddsRows
    <2> QED BY <2>1, <2>3 DEF ListsKept, ListReads, Kind
<1>5. ASSUME NEW j \in pool, ListsAnswered(j) PROVE ListsKept \/ ListsTaken(j)
    <2>1. CASE ~IsLatestLists(j)
        <3>1. pool' = pool \ {j} /\ UNCHANGED <<shown, tree, lists>>
            BY <1>5, <2>1 DEF ListsAnswered
        <3> QED BY <2>1, <3>1 DEF ListsKept, ListReads, IsLatestLists
    <2> QED BY <2>1, <1>5 DEF ListsTaken
<1>6. ASSUME NEW j, FlagAnswered(j) PROVE ListsKept
    <2> DEFINE next == IF Len(flag_writes) > 1 THEN {FlagJob(flag_writes[2])} ELSE {}
               jobs == (pool \ {j}) \union next
    <2>1. UNCHANGED <<shown, tree, lists>> /\ j.job = "flag"
        BY <1>6 DEF FlagAnswered, FlagWrites, sidebar
    <2>2. ReadShownAgain(mailbox, jobs) \/ pool' = jobs
        BY <1>6 DEF FlagAnswered
    <2>3. Kind(jobs, "lists") = Kind(pool, "lists")
        BY <2>1 DEF Kind, FlagJob
    <2>4. Kind(pool', "lists") = Kind(jobs, "lists")
        <3> HIDE DEF jobs
        <3> QED BY <2>2, ReadAgainAddsRows
    <2> QED BY <2>1, <2>3, <2>4 DEF ListsKept, ListReads, Kind
<1> QED BY <1>1, <1>2, <1>3, <1>4, <1>5, <1>6 DEF Window

LEMMA PoolListReads == ShownInv /\ Pool => ListsKept \/ \E j \in pool : ListsEnded(j)
<1> SUFFICES ASSUME ShownInv, NEW j \in pool,
                    \/ JobFails(j) \/ RowsRead(j) \/ ListsRead(j) \/ FlagWritten(j)
                    \/ AccountsDeleted(j)
             PROVE  ListsKept \/ ListsEnded(j)
    BY DEF Pool
<1>1. UNCHANGED <<shown, tree, lists>>
    BY DEF JobFails, RowsRead, ListsRead, FlagWritten, AccountsDeleted, sidebar, window
<1>2. {"job", "at"} \subseteq DOMAIN j
    BY JobsAreNamed
<1>3. CASE AccountsDeleted(j) \/ (JobFails(j) /\ j.job = "delete")
    <2>1. pool' = pool \ {j} /\ j.job # "lists"
        BY <1>3 DEF JobFails, AccountsDeleted, Deletions
    <2> QED BY <1>1, <2>1 DEF ListsKept, ListReads
<1>4. CASE JobFails(j) /\ Ends(j, [j EXCEPT !.at = "failed"])
    <2> DEFINE done == [j EXCEPT !.at = "failed"]
    <2>1. done.job = j.job /\ j.at = "waits"
        BY <1>2, <1>4 DEF JobFails
    <2>2. Kind(pool', "lists") = IF j.job = "lists"
                                 THEN (Kind(pool, "lists") \ {j}) \union {done}
                                 ELSE Kind(pool, "lists")
        BY <1>4, <2>1, EndedStaysOfItsKind
    <2> HIDE DEF done
    <2>3. CASE j.job # "lists"
        BY <1>1, <2>2, <2>3 DEF ListsKept, ListReads, Kind
    <2>4. CASE j.job = "lists"
        BY <1>1, <2>1, <2>2, <2>4 DEF ListsEnded, ListReads, Kind, done
    <2> QED BY <2>3, <2>4
<1>5. CASE RowsRead(j)
    <2> DEFINE done == [j EXCEPT !.at = "done", !.list = versions[j.folder]]
    <2>1. done.job = j.job /\ j.job = "rows" /\ Ends(j, done)
        BY <1>2, <1>5 DEF RowsRead, RowsReads
    <2>2. Kind(pool', "lists") = Kind(pool, "lists")
        BY <2>1, EndedStaysOfItsKind
    <2> QED BY <1>1, <2>2 DEF ListsKept, ListReads, Kind
<1>6. CASE FlagWritten(j)
    <2> DEFINE done == [j EXCEPT !.at = "done"]
    <2>1. done.job = j.job /\ j.job = "flag" /\ Ends(j, done)
        BY <1>2, <1>6 DEF FlagWritten, FlagWrites
    <2>2. Kind(pool', "lists") = Kind(pool, "lists")
        BY <2>1, EndedStaysOfItsKind
    <2> QED BY <1>1, <2>2 DEF ListsKept, ListReads, Kind
<1>7. CASE ListsRead(j)
    <2> DEFINE done == [j EXCEPT !.at = "done", !.lists = [a \in DOMAIN j.lists |-> folders[a]]]
    <2>1. /\ done.job = j.job /\ j.job = "lists" /\ j.at = "waits" /\ Ends(j, done)
          /\ UNCHANGED <<folders, load, events, overtaken>>
        BY <1>2, <1>7 DEF ListsRead, ListReads, store, window
    <2>2. Kind(pool', "lists") = (Kind(pool, "lists") \ {j}) \union {done}
        BY <2>1, EndedStaysOfItsKind
    <2> QED BY <1>1, <2>1, <2>2 DEF ListsEnded, ListReads, Kind
<1> QED BY <1>3, <1>4, <1>5, <1>6, <1>7 DEF JobFails

\* Every step leaves the folder-list reads alone, starts one, runs one, or
\* takes the latest one's answer.
LEMMA ListReadsSteps ==
    ASSUME ShownInv, [Next]_vars
    PROVE  ListsKept \/ ListsStarted \/ \E j \in pool : ListsEnded(j) \/ ListsTaken(j)
<1>1. Worker \/ UNCHANGED vars => ListsKept
    BY DEF Worker, BatchStored, WishRefused, FoldersReplaced, LoadEnds, ListsKept, ListReads,
       vars, sidebar, window
<1> QED BY <1>1, UserListReads, WindowListReads, PoolListReads DEF Next

-----------------------------------------------------------------------------
(* The sidebar.                                                              *)

\* The selection stays while its account is shown, is cleared, or is chosen.
LEMMA SelectionSteps ==
    ASSUME [Next]_vars
    PROVE  \/ UNCHANGED <<selection, shown>>
           \/ selection' = selection /\ SelectedAccount \in shown'
           \/ selection' = Nothing
           \/ \E choice \in Mailboxes \union Accounts : Select(choice)
<1>1. CASE User
    BY <1>1 DEF User, Collapse, ReadStoredMail, FilterToggled, ChangeFlag, StartLoad, sidebar
<1>2. CASE Window
    <2>1. ASSUME NEW now, NEW keeps, ApplyUpdate(now, keeps)
          PROVE  selection' = Nothing \/ (selection' = selection /\ SelectedAccount \in shown')
        BY <2>1 DEF ApplyUpdate
    <2>2. ASSUME NEW j, ListsAnswered(j)
          PROVE  selection' = Nothing \/ UNCHANGED <<selection, shown>>
        BY <2>2 DEF ListsAnswered, ShowFolders
    <2> QED BY <1>2, <2>1, <2>2 DEF Window, StoreChangedDelivered, FinishLoad, RowsAnswered,
               FlagAnswered, sidebar
<1>3. CASE Pool \/ Worker \/ UNCHANGED vars
    BY <1>3 DEF Pool, Worker, JobFails, RowsRead, ListsRead, FlagWritten, AccountsDeleted,
       BatchStored, WishRefused, FoldersReplaced, LoadEnds, vars, sidebar
<1> QED BY <1>1, <1>2, <1>3 DEF Next

LEMMA SelectionTyped ==
    ASSUME SidebarTyped, [Next]_vars
    PROVE  /\ selection' \in Mailboxes \union Accounts \union {Nothing}
           /\ selection' \in Mailboxes => selection'.account \in shown'
<1>1. CASE UNCHANGED <<selection, shown>>
    BY <1>1 DEF SidebarTyped
<1>2. CASE selection' = selection /\ SelectedAccount \in shown'
    BY <1>2 DEF SidebarTyped, SelectedAccount
<1>3. CASE selection' = Nothing
    BY <1>3, WindowAssumption
<1>4. ASSUME NEW choice \in Mailboxes \union Accounts, Select(choice)
      PROVE  /\ selection' \in Mailboxes \union Accounts \union {Nothing}
             /\ selection' \in Mailboxes => selection'.account \in shown'
    <2>1. /\ selection' = choice /\ shown' = shown
          /\ choice \in Selectable
        BY <1>4 DEF Select
    <2>2. ASSUME choice \in Mailboxes PROVE choice.account \in shown
        <3>1. choice \notin Accounts
            BY <2>2, WindowAssumption
        <3>2. PICK a \in shown : choice \in tree[a]
            BY <2>1, <3>1 DEF Selectable, SidebarTyped
        <3> QED BY <3>2, OfAccount DEF SidebarTyped
    <2> QED BY <2>1, <2>2
<1> QED BY SelectionSteps, <1>1, <1>2, <1>3, <1>4

\* A read that ends finds folders of its accounts.
LEMMA EndedListsTyped ==
    ASSUME StoreTyped, SidebarTyped, NEW j, ListsEnded(j)
    PROVE  \A k \in ListReads' : ListsTyped(k, lists.latest)
<1>1. ListsTyped(j, lists.latest) /\ j \in ListReads
    BY DEF ListsEnded, SidebarTyped
<1>2. ListsTyped([j EXCEPT !.at = "failed"], lists.latest)
    BY <1>1 DEF ListsTyped
<1>3. ListsTyped([j EXCEPT !.at = "done", !.lists = [a \in DOMAIN j.lists |-> folders[a]]],
                lists.latest)
    <2> DEFINE done == [j EXCEPT !.at = "done",
                                 !.lists = [a \in DOMAIN j.lists |-> folders[a]]]
    <2>1. /\ DOMAIN done = DOMAIN j /\ done.number = j.number
          /\ done.lists = [a \in DOMAIN j.lists |-> folders[a]]
        BY <1>1 DEF ListsTyped
    <2>2. \A a \in DOMAIN j.lists : folders[a] \subseteq Of(a)
        BY <1>1 DEF ListsTyped, StoreTyped
    <2> QED BY <1>1, <2>1, <2>2 DEF ListsTyped
<1> QED BY <1>2, <1>3 DEF ListsEnded, SidebarTyped

LEMMA SidebarTypedKept == ShownInv /\ TypedInv /\ [Next]_vars => SidebarTyped'
<1> SUFFICES ASSUME ShownInv, TypedInv, [Next]_vars PROVE SidebarTyped'
    OBVIOUS
<1>0. StoreTyped /\ SidebarTyped
    BY DEF TypedInv
<1>1. /\ selection' \in Mailboxes \union Accounts \union {Nothing}
      /\ selection' \in Mailboxes => selection'.account \in shown'
    BY <1>0, SelectionTyped
<1> DEFINE TreeTyped == DOMAIN tree = Accounts /\ \A a \in Accounts : tree[a] \subseteq Of(a)
           LatestTyped == /\ DOMAIN lists = {"latest", "reading", "failed", "unread"}
                          /\ lists.latest \in Nat
<1>2. TreeTyped /\ shown \subseteq Accounts /\ LatestTyped
      /\ \A j \in ListReads : ListsTyped(j, lists.latest)
    BY <1>0 DEF SidebarTyped
<1>3. CASE ListsKept
    <2>1. LatestTyped' /\ lists'.latest = lists.latest
        BY <1>2, <1>3 DEF ListsKept
    <2> QED BY <1>1, <1>2, <1>3, <2>1 DEF ListsKept, SidebarTyped, ListsTyped
<1>4. CASE ListsStarted
    <2>1. LatestTyped' /\ lists'.latest = lists.latest + 1
        BY <1>2, <1>4 DEF ListsStarted, StartListsRead
    <2>2. TreeTyped' /\ shown' \subseteq Accounts
        <3>1. ASSUME NEW now \in SUBSET Accounts, NEW keeps, ApplyUpdate(now, keeps)
              PROVE  TreeTyped' /\ shown' \subseteq Accounts
            BY <3>1, <1>2 DEF ApplyUpdate
        <3> QED BY <3>1, <1>2, <1>4 DEF ListsStarted
    <2>3. ASSUME NEW j \in ListReads PROVE ListsTyped(j, lists'.latest)
        BY <2>1, <1>2 DEF ListsTyped
    <2>4. ListsTyped(ListsJob(shown'), lists'.latest)
        BY <2>1, <2>2, <1>2 DEF ListsTyped, ListsJob
    <2>5. \A j \in ListReads' : ListsTyped(j, lists'.latest)
        BY <2>3, <2>4, <1>4 DEF ListsStarted
    <2> QED BY <1>1, <2>1, <2>2, <2>5 DEF SidebarTyped
<1>5. ASSUME NEW j, ListsEnded(j) PROVE SidebarTyped'
    <2>1. \A k \in ListReads' : ListsTyped(k, lists.latest)
        BY <1>0, <1>5, EndedListsTyped
    <2>2. UNCHANGED <<shown, tree, lists>>
        BY <1>5 DEF ListsEnded
    <2> QED BY <1>1, <1>2, <2>1, <2>2 DEF SidebarTyped, ListsTyped
<1>6. ASSUME NEW j, ListsTaken(j) PROVE SidebarTyped'
    <2>1. /\ ListReads' \subseteq ListReads /\ shown' = shown /\ j \in ListReads
          /\ lists' = [lists EXCEPT !.reading = FALSE, !.failed = (j.at = "failed"),
                                    !.unread = (j.at = "failed")]
          /\ tree' = tree \/ ShowFolders(j.lists)
        BY <1>6 DEF ListsTaken, ListsAnswered, ListReads
    <2>2. LatestTyped' /\ lists'.latest = lists.latest
        BY <2>1, <1>2
    <2>3. TreeTyped'
        <3>1. CASE ShowFolders(j.lists)
            <4>1. tree' = [a \in Accounts |-> IF a \in DOMAIN j.lists \intersect shown
                                              THEN j.lists[a] ELSE tree[a]]
                BY <3>1 DEF ShowFolders
            <4>2. \A a \in DOMAIN j.lists : j.lists[a] \subseteq Of(a)
                BY <2>1, <1>2 DEF ListsTyped
            <4> QED BY <4>1, <4>2, <1>2
        <3> QED BY <2>1, <3>1, <1>2
    <2> QED BY <1>1, <1>2, <2>1, <2>2, <2>3 DEF SidebarTyped, ListsTyped
<1> QED BY ListReadsSteps, <1>3, <1>4, <1>5, <1>6

LEMMA TypedInitially == Init => TypedInv
<1> SUFFICES ASSUME Init PROVE TypedInv
    OBVIOUS
<1>1. LoadInv
    BY DEF Init, LoadInv
<1>2. SidebarTyped
    BY WindowAssumption DEF Init, SidebarTyped, ListReads
<1> QED BY <1>1, <1>2, StoreTypedInitially DEF TypedInv

\* Mailboxes stay under their accounts in the store, in the sidebar and in what
\* was read for it, and the selection under an account shown; and a load's
\* result is its last event.
THEOREM TypedInvariant == Spec => []TypedInv
<1>1. ShownInv /\ TypedInv /\ [Next]_vars => TypedInv'
    BY StoreTypedKept, SidebarTypedKept, LoadInvKept DEF TypedInv
<1> QED BY <1>1, TypedInitially, ShownInvariant, PTL DEF Spec

-----------------------------------------------------------------------------
(* The sidebar's folder lists are current.                                   *)

\* An account whose folder list is replaced is reported.
LEMMA FoldersReported ==
    ASSUME TypedInv, [Next]_vars
    PROVE  /\ overtaken \subseteq overtaken'
           /\ \A a \in shown \ overtaken' : folders'[a] = folders[a] \/ ListReported(a)'
<1>1. CASE UNCHANGED <<versions, folders, overtaken>>
    BY <1>1
<1>2. ASSUME NEW j, FlagWritten(j) PROVE UNCHANGED <<folders, overtaken>>
    BY <1>2 DEF FlagWritten
<1>3. ASSUME NEW j, AccountsDeleted(j)
      PROVE  /\ overtaken \subseteq overtaken'
             /\ \A a \in shown \ overtaken' : folders'[a] = folders[a]
    BY <1>3 DEF AccountsDeleted, TypedInv, SidebarTyped
<1>4. ASSUME NEW changed, BatchStored(changed) \/ WishRefused(changed)
      PROVE  UNCHANGED <<folders, overtaken>>
    BY <1>4 DEF BatchStored, WishRefused
<1>5. ASSUME NEW changed, FoldersReplaced(changed)
      PROVE  /\ overtaken \subseteq overtaken'
             /\ \A a \in shown \ overtaken' : folders'[a] = folders[a] \/ ListReported(a)'
    <2>1. /\ Loading /\ load.target = FolderList /\ overtaken \subseteq overtaken'
          /\ folders' = [folders EXCEPT ![load.account] = changed]
          /\ load' = [load EXCEPT !.ended = TRUE] /\ events' = Append(events, "Stored")
        BY <1>5 DEF FoldersReplaced, MayWrite
    <2>2. load \in LoadRecords
        BY <2>1 DEF TypedInv, LoadInv, Loading
    <2>3. /\ load' # Nothing /\ load'.account = load.account /\ load'.target = FolderList
        BY <2>1, <2>2, WindowAssumption DEF LoadRecords
    <2>4. events' # <<>> /\ events'[Len(events')] = "Stored" /\ Len(events') \in 1..Len(events')
        BY <2>1, EventsAppended DEF TypedInv, Results
    <2>5. ListReported(load.account)'
        BY <2>3, <2>4 DEF ListReported
    <2>6. \A a \in shown : a = load.account \/ folders'[a] = folders[a]
        BY <2>1 DEF TypedInv, SidebarTyped, StoreTyped
    <2>7. \A a : a = load.account => ListReported(a)'
        BY <2>3, <2>4 DEF ListReported
    <2> QED BY <2>1, <2>6, <2>7
<1> QED BY OtherStepsKeepTheStore, <1>1, <1>2, <1>3, <1>4, <1>5 DEF StoreWritten

\* A report stands until the window reads the lists.
LEMMA ListReportStands ==
    ASSUME TypedInv, [Next]_vars, NEW a, ListReported(a)
    PROVE  ListReported(a)' \/ ListsStarted
<1>0. PICK i \in 1..Len(events) : events[i] = "Stored"
    BY DEF ListReported
<1>1. /\ load \in LoadRecords /\ events \in Seq({"StoreChanged"} \union Results)
      /\ i = Len(events) /\ load.ended
    BY <1>0 DEF ListReported, TypedInv, LoadInv, Results
<1>2. CASE UNCHANGED <<load, events>>
    BY <1>2 DEF ListReported
<1>3. ASSUME NEW target, StartLoad(target) PROVE FALSE
    BY <1>3 DEF StartLoad, ListReported
<1>4. ASSUME NEW now, NEW keeps, ApplyUpdate(now, keeps) PROVE ListReported(a)'
    <2>1. events' = events /\ (load' = load \/ load' = [load EXCEPT !.cancelled = TRUE])
        BY <1>4 DEF ApplyUpdate
    <2>2. load' # Nothing /\ load'.account = load.account /\ load'.target = load.target
        BY <2>1, <1>1, WindowAssumption DEF LoadRecords
    <2> QED BY <2>1, <2>2 DEF ListReported
<1>5. CASE StoreChangedDelivered
    <2>1. load' = load /\ Head(events) = "StoreChanged" /\ events' = Tail(events)
        BY <1>5 DEF StoreChangedDelivered
    <2>2. i # 1
        BY <2>1, <1>0, <1>1
    <2>3. i - 1 \in 1..Len(events') /\ events'[i - 1] = "Stored"
        BY <2>1, <2>2, <1>0, <1>1
    <2> QED BY <2>1, <2>3 DEF ListReported
<1>6. CASE FinishLoad
    <2>1. Head(events) \in Results
        BY <1>6 DEF FinishLoad
    <2>2. 1 \in 1..Len(events) /\ events[1] \in Results
        BY <2>1, <1>0, <1>1
    <2>3. i = 1
        BY <2>2, <1>1 DEF TypedInv, LoadInv
    <2>4. Head(events) = "Stored"
        BY <2>3, <1>0, <1>1
    <2> QED BY <1>6, <2>4, FolderListFinished DEF ListReported
<1>7. ASSUME NEW changed, BatchStored(changed) \/ WishRefused(changed) \/ FoldersReplaced(changed)
      PROVE  FALSE
    BY <1>1, <1>7 DEF BatchStored, WishRefused, FoldersReplaced, MayWrite, Loading
<1>8. ASSUME NEW result, LoadEnds(result) PROVE FALSE
    BY <1>1, <1>8 DEF LoadEnds, Loading
<1> QED BY OtherStepsKeepTheLoad, <1>2, <1>3, <1>4, <1>5, <1>6, <1>7, <1>8 DEF LoadStep

\* A new read of the lists makes up for all.
LEMMA StartedListsAreCurrent ==
    ASSUME TypedInv, ListsStarted PROVE ListsInv'
<1>1. /\ lists'.latest = lists.latest + 1 /\ lists.latest \in Nat
      /\ ListReads' = ListReads \union {ListsJob(shown')}
    BY DEF ListsStarted, StartListsRead, TypedInv, SidebarTyped
<1>2. /\ ListsJob(shown').number = lists'.latest /\ ListsJob(shown').at = "waits"
      /\ DOMAIN ListsJob(shown').lists = shown'
    BY <1>1 DEF ListsJob
<1>3. \A j \in ListReads : j.number # lists'.latest
    BY <1>1 DEF TypedInv, SidebarTyped, ListsTyped
<1> HIDE DEF ListsJob
<1>4. PICK job : job = ListsJob(shown')
    OBVIOUS
<1>5. /\ ListReads' = ListReads \union {job} /\ job.number = lists'.latest /\ job.at = "waits"
      /\ DOMAIN job.lists = shown'
    BY <1>1, <1>2, <1>4
<1> QED BY <1>3, <1>5 DEF ListsInv

LEMMA ListsInvKept == ShownInv /\ TypedInv /\ ListsInv /\ [Next]_vars => ListsInv'
<1> SUFFICES ASSUME ShownInv, TypedInv, ListsInv, [Next]_vars, ~ListsStarted PROVE ListsInv'
    BY StartedListsAreCurrent
<1>1. /\ overtaken \subseteq overtaken'
      /\ \A a \in shown \ overtaken' : folders'[a] = folders[a] \/ ListReported(a)'
    BY FoldersReported
<1>2. \A a : ListReported(a) => ListReported(a)'
    BY ListReportStands
<1>3. CASE ListsKept
    <2>1. /\ shown' = shown /\ tree' = tree
          /\ lists'.latest = lists.latest /\ lists'.unread = lists.unread
        BY <1>3 DEF ListsKept, TypedInv, SidebarTyped
    <2>2. ASSUME NEW a \in shown' \ overtaken'
          PROVE  \/ tree'[a] = folders'[a] \/ lists'.unread \/ ListReported(a)'
                 \/ \E j \in ListReads' : j.number = lists'.latest
        BY <2>1, <1>1, <1>2, <1>3 DEF ListsKept, ListsInv
    <2>3. ASSUME NEW j \in ListReads', j.number = lists'.latest
          PROVE  /\ DOMAIN j.lists = shown'
                 /\ j.at = "done" => \A a \in shown' \ overtaken' :
                                         j.lists[a] = folders'[a] \/ ListReported(a)'
        <3>1. j \in ListReads
            BY <1>3 DEF ListsKept
        <3> QED BY <2>1, <2>3, <3>1, <1>1, <1>2 DEF ListsInv
    <2> QED BY <2>2, <2>3 DEF ListsInv
<1>4. ASSUME NEW j, ListsEnded(j) PROVE ListsInv'
    <2>1. UNCHANGED <<shown, tree, lists>> /\ j \in ListReads /\ j.at = "waits"
        BY <1>4 DEF ListsEnded
    <2>2. ListsTyped(j, lists.latest)
        BY <2>1 DEF TypedInv, SidebarTyped
    <2>3. PICK done : /\ ListReads' = (ListReads \ {j}) \union {done}
                      /\ done.number = j.number
                      /\ \/ done.at = "failed" /\ done.lists = j.lists
                         \/ /\ UNCHANGED <<folders, load, events, overtaken>>
                            /\ done.lists = [a \in DOMAIN j.lists |-> folders[a]]
        <3>1. CASE ListReads' = (ListReads \ {j}) \union {[j EXCEPT !.at = "failed"]}
            <4>1. /\ [j EXCEPT !.at = "failed"].at = "failed"
                  /\ [j EXCEPT !.at = "failed"].number = j.number
                  /\ [j EXCEPT !.at = "failed"].lists = j.lists
                BY <2>2 DEF ListsTyped
            <4> QED BY <3>1, <4>1
        <3>2. CASE /\ ListReads' = (ListReads \ {j}) \union
                        {[j EXCEPT !.at = "done",
                                   !.lists = [a \in DOMAIN j.lists |-> folders[a]]]}
                   /\ UNCHANGED <<folders, load, events, overtaken>>
            <4> DEFINE ended == [j EXCEPT !.at = "done",
                                          !.lists = [a \in DOMAIN j.lists |-> folders[a]]]
            <4>1. /\ ended.number = j.number
                  /\ ended.lists = [a \in DOMAIN j.lists |-> folders[a]]
                BY <2>2 DEF ListsTyped
            <4> HIDE DEF ended
            <4>2. ListReads' = (ListReads \ {j}) \union {ended}
                BY <3>2 DEF ended
            <4> QED BY <3>2, <4>1, <4>2
        <3> QED BY <1>4, <3>1, <3>2 DEF ListsEnded
    <2>4. ASSUME NEW a \in shown' \ overtaken'
          PROVE  \/ tree'[a] = folders'[a] \/ lists'.unread \/ ListReported(a)'
                 \/ \E k \in ListReads' : k.number = lists'.latest
        <3>1. CASE \E k \in ListReads : k.number = lists.latest
            BY <3>1, <2>1, <2>3
        <3> QED BY <3>1, <2>1, <2>4, <1>1, <1>2 DEF ListsInv
    <2>5. ASSUME NEW k \in ListReads', k.number = lists'.latest
          PROVE  /\ DOMAIN k.lists = shown'
                 /\ k.at = "done" => \A a \in shown' \ overtaken' :
                                         k.lists[a] = folders'[a] \/ ListReported(a)'
        <3>1. CASE k \in ListReads
            BY <2>1, <2>5, <3>1, <1>1, <1>2 DEF ListsInv
        <3>2. CASE k = done
            <4>1. DOMAIN j.lists = shown
                BY <3>2, <2>1, <2>3, <2>5 DEF ListsInv
            <4> QED BY <3>2, <4>1, <2>1, <2>3
        <3> QED BY <2>3, <2>5, <3>1, <3>2
    <2> QED BY <2>4, <2>5 DEF ListsInv
<1>5. ASSUME NEW j, ListsTaken(j) PROVE ListsInv'
    <2>1. /\ j \in ListReads /\ j.at # "waits" /\ j.number = lists.latest
          /\ ListReads' \subseteq ListReads
          /\ UNCHANGED <<folders, shown, load, events, overtaken>>
          /\ lists' = [lists EXCEPT !.reading = FALSE, !.failed = (j.at = "failed"),
                                    !.unread = (j.at = "failed")]
          /\ j.at # "failed" => ShowFolders(j.lists)
        BY <1>5 DEF ListsTaken, ListsAnswered, IsLatestLists, ListReads, store
    <2>2. lists'.latest = lists.latest /\ lists'.unread = (j.at = "failed")
        BY <2>1 DEF TypedInv, SidebarTyped
    <2>3. \A a : ListReported(a)' <=> ListReported(a)
        BY <2>1 DEF ListReported
    <2>4. ASSUME NEW a \in shown' \ overtaken', j.at # "failed"
          PROVE  tree'[a] = folders'[a] \/ ListReported(a)'
        <3>1. j.at = "done" /\ DOMAIN j.lists = shown
            BY <2>1, <2>4 DEF TypedInv, SidebarTyped, ListsTyped, ListsInv
        <3>2. a \in Accounts
            BY <2>1, <2>4 DEF TypedInv, SidebarTyped
        <3>3. tree'[a] = j.lists[a]
            BY <2>1, <2>4, <3>1, <3>2 DEF ShowFolders
        <3>4. j.lists[a] = folders[a] \/ ListReported(a)
            BY <2>1, <2>4, <3>1 DEF ListsInv
        <3> QED BY <2>1, <2>3, <3>3, <3>4
    <2>5. ASSUME NEW k \in ListReads', k.number = lists'.latest
          PROVE  /\ DOMAIN k.lists = shown'
                 /\ k.at = "done" => \A a \in shown' \ overtaken' :
                                         k.lists[a] = folders'[a] \/ ListReported(a)'
        BY <2>1, <2>2, <2>3, <2>5 DEF ListsInv
    <2> QED BY <2>2, <2>4, <2>5 DEF ListsInv
<1> QED BY ListReadsSteps, <1>3, <1>4, <1>5

\* The inductive invariant of the folder lists: one in the sidebar that is not
\* the store's is reported, or read again, or the latest read of them failed.
THEOREM ListsInvariant == Spec => []ListsInv
<1>1. Init => ListsInv
    BY DEF Init, ListsInv, ListReads
<1> QED BY <1>1, ListsInvKept, ShownInvariant, TypedInvariant, PTL DEF Spec

\* Once nothing is on its way the sidebar shows the stored folder lists.
THEOREM SidebarCurrent == Spec => []SidebarIsCurrentAtRest
<1>1. ListsInv => SidebarIsCurrentAtRest
    <2> SUFFICES ASSUME ListsInv, AtRest, ~lists.unread, NEW a \in shown \ overtaken
                 PROVE  tree[a] = folders[a]
        BY DEF SidebarIsCurrentAtRest
    <2>1. Len(events) = 0 /\ \A j \in ListReads : j.number # lists.latest
        BY DEF AtRest
    <2> QED BY <2>1 DEF ListsInv, ListReported
<1> QED BY <1>1, ListsInvariant, PTL

-----------------------------------------------------------------------------
(* The reads of the mailbox's rows.                                          *)

\* The mailbox and its latest read are left alone.
RowsKept ==
    /\ UNCHANGED mailbox
    /\ selection' = selection \/ selection' \notin Mailboxes
    /\ RowsReads' \subseteq RowsReads
    /\ \A j \in RowsReads : j.number = mailbox.latest => j \in RowsReads'

RowsForgotten ==
    mailbox' = Forget(mailbox) /\ RowsReads' = RowsReads /\ selection' \notin Mailboxes

\* The mailbox selected is read, or read again.
RowsStarted ==
    /\ selection' \in Mailboxes
    /\ \E jobs : ReadShown(mailbox, jobs, selection') /\ Kind(jobs, "rows") = RowsReads

RowsAgain ==
    /\ UNCHANGED selection
    /\ \E jobs : ReadShownAgain(mailbox, jobs) /\ Kind(jobs, "rows") = RowsReads

\* The pool runs a read.
RowsEnded(j) ==
    /\ UNCHANGED <<mailbox, selection, screen>> /\ j \in RowsReads /\ j.at = "waits"
    /\ \/ RowsReads' = (RowsReads \ {j}) \union {[j EXCEPT !.at = "failed"]}
       \/ /\ RowsReads' = (RowsReads \ {j}) \union
                 {[j EXCEPT !.at = "done", !.list = versions[j.folder]]}
          /\ UNCHANGED <<versions, load, events, overtaken>>

\* The latest read's answer.
RowsTaken(j) == RowsAnswered(j) /\ IsLatestRows(j)

RowsStep ==
    \/ RowsKept \/ RowsForgotten \/ RowsStarted \/ RowsAgain
    \/ \E target \in Targets : StartLoad(target)
    \/ \E j \in pool : RowsEnded(j) \/ RowsTaken(j)

LEMMA ListsJobReadsNoRows ==
    ASSUME NEW accounts, NEW jobs
    PROVE  Kind(jobs \union {ListsJob(accounts)}, "rows") = Kind(jobs, "rows")
BY DEF Kind, ListsJob

LEMMA UserRowsReads == ShownInv /\ User => RowsStep
<1> SUFFICES ASSUME ShownInv, User PROVE RowsStep
    OBVIOUS
<1>1. ASSUME NEW choice, Select(choice) PROVE RowsStep
    <2>1. selection' = choice /\ choice # selection
        BY <1>1 DEF Select
    <2>2. ~Holds(mailbox, choice) \/ choice \notin Mailboxes
        BY <2>1, WindowAssumption DEF Holds, MailboxFollows, ShownInv, ReadsFollow
    <2>3. CASE choice \notin Mailboxes
        BY <1>1, <2>1, <2>3 DEF Select, RowsForgotten, RowsReads, RowsStep
    <2>4. CASE choice \in Mailboxes
        <3>1. ReadShown(mailbox, pool, choice)
            BY <1>1, <2>2, <2>4 DEF Select
        <3> QED BY <2>1, <2>4, <3>1, KindsOfReads DEF RowsStarted, RowsStep
    <2> QED BY <2>3, <2>4
<1>2. CASE ReadStoredMail
    <2> DEFINE jobs == pool \union {ListsJob(shown)}
    <2>1. selection' = selection /\ Kind(jobs, "rows") = RowsReads
        BY <1>2, ListsJobReadsNoRows, KindsOfReads DEF ReadStoredMail, sidebar
    <2>2. CASE selection \in Mailboxes
        <3>1. ReadShown(mailbox, jobs, selection)
            BY <1>2, <2>2 DEF ReadStoredMail
        <3> HIDE DEF jobs
        <3> QED BY <2>1, <2>2, <3>1 DEF RowsStarted, RowsStep
    <2>3. CASE selection \notin Mailboxes
        <3>1. pool' = jobs /\ mailbox' = mailbox
            BY <1>2, <2>3 DEF ReadStoredMail
        <3> HIDE DEF jobs
        <3> QED BY <2>1, <3>1 DEF RowsKept, RowsStep, RowsReads, Kind
    <2> QED BY <2>2, <2>3
<1>3. CASE Collapse
    BY <1>3, WindowAssumption DEF Collapse, RowsForgotten, RowsReads, RowsStep
<1>4. CASE FilterToggled
    BY <1>4 DEF FilterToggled, RowsKept, RowsReads, sidebar, RowsStep
<1>5. CASE ChangeFlag
    <2>1. PICK change : pool' = pool \/ pool' = pool \union {FlagJob(change)}
        BY <1>5 DEF ChangeFlag, WriteFlag
    <2>2. UNCHANGED <<mailbox, selection>>
        BY <1>5 DEF ChangeFlag, sidebar
    <2> QED BY <2>1, <2>2 DEF RowsKept, RowsReads, FlagJob, RowsStep
<1> QED BY <1>1, <1>2, <1>3, <1>4, <1>5 DEF User, RowsStep

\* The end of a load, of an account's refresh or of a mailbox's.
LEMMA FinishedRowsReads ==
    ASSUME FinishLoad
    PROVE  \/ RowsStarted \/ RowsAgain
           \/ /\ RowsKept /\ UNCHANGED selection
              /\ Head(events) = "Stored" /\ selection \in Mailboxes =>
                    \/ load.target = FolderList /\ Holds(mailbox, selection)
                    \/ load.target # FolderList /\ selection.account # load.account
<1> DEFINE jobs == pool \union {ListsJob(shown)}
<1>1. selection' = selection /\ Kind(jobs, "rows") = RowsReads
    BY ListsJobReadsNoRows, KindsOfReads DEF FinishLoad, sidebar
<1>2. CASE /\ Head(events) = "Stored" /\ load.target = FolderList
           /\ selection \in Mailboxes /\ ~Holds(mailbox, selection)
    <2>1. ReadShown(mailbox, jobs, selection)
        BY <1>2 DEF FinishLoad
    <2> HIDE DEF jobs
    <2> QED BY <1>1, <1>2, <2>1 DEF RowsStarted
<1>3. CASE /\ Head(events) = "Stored" /\ load.target = FolderList
           /\ ~(selection \in Mailboxes /\ ~Holds(mailbox, selection))
    <2>1. pool' = jobs /\ mailbox' = mailbox
        BY <1>3 DEF FinishLoad
    <2> HIDE DEF jobs
    <2> QED BY <1>1, <1>3, <2>1 DEF RowsKept, RowsReads, Kind
<1>4. CASE ~(Head(events) = "Stored" /\ load.target = FolderList)
    <2>1. CASE /\ Head(events) = "Stored" /\ selection \in Mailboxes
               /\ selection.account = load.account
        <3>1. ReadShownAgain(mailbox, pool)
            BY <1>4, <2>1 DEF FinishLoad
        <3> QED BY <1>1, <3>1, KindsOfReads DEF RowsAgain
    <2>2. CASE ~(/\ Head(events) = "Stored" /\ selection \in Mailboxes
                 /\ selection.account = load.account)
        <3>1. UNCHANGED <<mailbox, pool>>
            BY <1>4, <2>2 DEF FinishLoad
        <3> QED BY <1>1, <1>4, <2>2, <3>1 DEF RowsKept, RowsReads
    <2> QED BY <2>1, <2>2
<1> QED BY <1>2, <1>3, <1>4

LEMMA WindowRowsReads == ShownInv /\ Window => RowsStep
<1> SUFFICES ASSUME ShownInv, Window PROVE RowsStep
    OBVIOUS
<1>1. ASSUME NEW now, NEW keeps, ApplyUpdate(now, keeps) PROVE RowsStep
    <2> DEFINE deletion == [job |-> "delete", at |-> "waits", number |-> spent'.updates,
                            keeps |-> keeps]
    <2>1. /\ selection' = IF SelectedAccount \in now THEN selection ELSE Nothing
          /\ mailbox' = ForgetExcluded(mailbox, now)
          /\ pool' = pool \union {ListsJob(now), deletion}
        BY <1>1 DEF ApplyUpdate
    <2>2. deletion.job = "delete" /\ ListsJob(now).job = "lists"
        BY DEF ListsJob
    <2> HIDE DEF deletion
    <2>3. RowsReads' = RowsReads
        BY <2>1, <2>2 DEF RowsReads
    <2>4. CASE mailbox.folder # Nothing /\ mailbox.folder.account \notin now
        <3>1. mailbox.folder = selection /\ selection \in Mailboxes
            BY <2>4 DEF ShownInv, ReadsFollow, MailboxFollows
        <3>2. selection' = Nothing
            BY <2>1, <2>4, <3>1 DEF SelectedAccount
        <3> QED BY <2>1, <2>3, <2>4, <3>2, WindowAssumption
                DEF ForgetExcluded, RowsForgotten, RowsStep
    <2>5. CASE ~(mailbox.folder # Nothing /\ mailbox.folder.account \notin now)
        BY <2>1, <2>3, <2>5, WindowAssumption DEF ForgetExcluded, RowsKept, RowsStep
    <2> QED BY <2>4, <2>5
<1>2. CASE StoreChangedDelivered
    <2>1. selection' = selection
        BY <1>2 DEF StoreChangedDelivered, sidebar
    <2>2. ReadShownAgain(mailbox, pool) \/ UNCHANGED <<mailbox, pool>>
        BY <1>2 DEF StoreChangedDelivered
    <2> QED BY <2>1, <2>2, KindsOfReads DEF RowsAgain, RowsKept, RowsReads, RowsStep
<1>3. CASE FinishLoad
    BY <1>3, FinishedRowsReads DEF RowsStep
<1>4. ASSUME NEW j \in pool, RowsAnswered(j) PROVE RowsStep
    <2>1. CASE ~IsLatestRows(j)
        <3>1. pool' = pool \ {j} /\ UNCHANGED <<mailbox, selection>>
            BY <1>4, <2>1 DEF RowsAnswered, sidebar
        <3> QED BY <2>1, <3>1 DEF RowsKept, RowsReads, IsLatestRows, RowsStep
    <2> QED BY <2>1, <1>4 DEF RowsTaken, RowsStep
<1>5. ASSUME NEW j, ListsAnswered(j) PROVE RowsStep
    <2>1. pool' = pool \ {j} /\ j.job = "lists"
        BY <1>5 DEF ListsAnswered, ListReads
    <2>2. \/ UNCHANGED <<selection, mailbox>>
          \/ selection' = Nothing /\ mailbox' = Forget(mailbox)
        BY <1>5 DEF ListsAnswered, ShowFolders
    <2> QED BY <2>1, <2>2, WindowAssumption DEF RowsKept, RowsForgotten, RowsReads, RowsStep
<1>6. ASSUME NEW j, FlagAnswered(j) PROVE RowsStep
    <2> DEFINE next == IF Len(flag_writes) > 1 THEN {FlagJob(flag_writes[2])} ELSE {}
               jobs == (pool \ {j}) \union next
    <2>1. selection' = selection /\ j.job = "flag"
        BY <1>6 DEF FlagAnswered, FlagWrites, sidebar
    <2>2. ReadShownAgain(mailbox, jobs) \/ (pool' = jobs /\ mailbox' = mailbox)
        BY <1>6 DEF FlagAnswered
    <2>3. Kind(jobs, "rows") = RowsReads
        BY <2>1 DEF Kind, FlagJob, RowsReads
    <2> HIDE DEF jobs
    <2> QED BY <2>1, <2>2, <2>3 DEF RowsAgain, RowsKept, RowsReads, Kind, RowsStep
<1> QED BY <1>1, <1>2, <1>3, <1>4, <1>5, <1>6 DEF Window

LEMMA PoolRowsReads == ShownInv /\ Pool => RowsStep
<1> SUFFICES ASSUME ShownInv, NEW j \in pool,
                    \/ JobFails(j) \/ RowsRead(j) \/ ListsRead(j) \/ FlagWritten(j)
                    \/ AccountsDeleted(j)
             PROVE  RowsKept \/ RowsEnded(j)
    BY DEF Pool, RowsStep
<1>1. UNCHANGED <<mailbox, selection, screen>>
    BY DEF JobFails, RowsRead, ListsRead, FlagWritten, AccountsDeleted, sidebar, window
<1>2. {"job", "at"} \subseteq DOMAIN j
    BY JobsAreNamed
<1>3. CASE AccountsDeleted(j) \/ (JobFails(j) /\ j.job = "delete")
    <2>1. pool' = pool \ {j} /\ j.job # "rows"
        BY <1>3 DEF JobFails, AccountsDeleted, Deletions
    <2> QED BY <1>1, <2>1 DEF RowsKept, RowsReads
<1>4. CASE JobFails(j) /\ Ends(j, [j EXCEPT !.at = "failed"])
    <2> DEFINE done == [j EXCEPT !.at = "failed"]
    <2>1. done.job = j.job /\ j.at = "waits"
        BY <1>2, <1>4 DEF JobFails
    <2>2. Kind(pool', "rows") = IF j.job = "rows"
                                THEN (Kind(pool, "rows") \ {j}) \union {done}
                                ELSE Kind(pool, "rows")
        BY <1>4, <2>1, EndedStaysOfItsKind
    <2> HIDE DEF done
    <2>3. CASE j.job # "rows"
        BY <1>1, <2>2, <2>3 DEF RowsKept, RowsReads, Kind
    <2>4. CASE j.job = "rows"
        BY <1>1, <2>1, <2>2, <2>4 DEF RowsEnded, RowsReads, Kind, done
    <2> QED BY <2>3, <2>4
<1>5. CASE ListsRead(j)
    <2> DEFINE done == [j EXCEPT !.at = "done", !.lists = [a \in DOMAIN j.lists |-> folders[a]]]
    <2>1. done.job = j.job /\ j.job = "lists" /\ Ends(j, done)
        BY <1>2, <1>5 DEF ListsRead, ListReads
    <2>2. Kind(pool', "rows") = Kind(pool, "rows")
        BY <2>1, EndedStaysOfItsKind
    <2> QED BY <1>1, <2>2 DEF RowsKept, RowsReads, Kind
<1>6. CASE FlagWritten(j)
    <2> DEFINE done == [j EXCEPT !.at = "done"]
    <2>1. done.job = j.job /\ j.job = "flag" /\ Ends(j, done)
        BY <1>2, <1>6 DEF FlagWritten, FlagWrites
    <2>2. Kind(pool', "rows") = Kind(pool, "rows")
        BY <2>1, EndedStaysOfItsKind
    <2> QED BY <1>1, <2>2 DEF RowsKept, RowsReads, Kind
<1>7. CASE RowsRead(j)
    <2> DEFINE done == [j EXCEPT !.at = "done", !.list = versions[j.folder]]
    <2>1. /\ done.job = j.job /\ j.job = "rows" /\ j.at = "waits" /\ Ends(j, done)
          /\ UNCHANGED <<versions, load, events, overtaken>>
        BY <1>2, <1>7 DEF RowsRead, RowsReads, store, window
    <2>2. Kind(pool', "rows") = (Kind(pool, "rows") \ {j}) \union {done}
        BY <2>1, EndedStaysOfItsKind
    <2> QED BY <1>1, <2>1, <2>2 DEF RowsEnded, RowsReads, Kind
<1> QED BY <1>3, <1>4, <1>5, <1>6, <1>7 DEF JobFails

\* Every step leaves the mailbox alone, forgets it, reads it, or takes what a
\* read found.
LEMMA RowsReadsSteps == ASSUME ShownInv, [Next]_vars PROVE RowsStep
<1>1. Worker \/ UNCHANGED vars => RowsKept
    BY DEF Worker, BatchStored, WishRefused, FoldersReplaced, LoadEnds, RowsKept, RowsReads,
       vars, sidebar, window
<1> QED BY <1>1, UserRowsReads, WindowRowsReads, PoolRowsReads DEF Next, RowsStep

-----------------------------------------------------------------------------
(* The mailbox held and its reads.                                           *)

\* A read started is the only one with its number.
LEMMA ReadShownNumbered ==
    ASSUME NEW box, NEW jobs, NEW m,
           Numbered(box, Kind(jobs, "rows")), ReadShown(box, jobs, m)
    PROVE  Numbered(mailbox', RowsReads') /\ mailbox'.folder = m
<1> DEFINE job == RowsJob(box.latest + 1, m)
<1>1. /\ mailbox' = StartRead(box, m)
      /\ RowsReads' = Kind(jobs, "rows") \union {job}
    BY DEF ReadShown, RowsJob, Kind, RowsReads
<1>2. /\ DOMAIN mailbox' = MailboxFields /\ mailbox'.latest = box.latest + 1
      /\ mailbox'.state \in {"Reading", "ReadingAgain"} /\ mailbox'.folder = m
    BY <1>1 DEF StartRead, MailboxFields
<1>3. box.latest \in Nat /\ RowsTyped(job, box.latest + 1) /\ job.number = box.latest + 1
    BY DEF Numbered, RowsTyped, RowsJob, NotLoaded
<1>4. \A j \in Kind(jobs, "rows") : RowsTyped(j, box.latest + 1) /\ j.number # box.latest + 1
    BY DEF Numbered, RowsTyped
<1>5. IsReading(mailbox')
    BY <1>2 DEF IsReading
<1> HIDE DEF job
<1> QED BY <1>1, <1>2, <1>3, <1>4, <1>5 DEF Numbered, States

\* Reading the shown mailbox again numbers at most one more read.
LEMMA ReadAgainNumbered ==
    ASSUME NEW box, NEW jobs, Numbered(box, Kind(jobs, "rows")),
           selection \in Mailboxes => box.folder = selection,
           ReadShownAgain(box, jobs)
    PROVE  /\ Numbered(mailbox', RowsReads')
           /\ selection \in Mailboxes => mailbox'.folder = selection
<1>1. CASE selection \notin Mailboxes /\ mailbox' = box /\ pool' = jobs
    BY <1>1 DEF RowsReads, Kind
<1>2. CASE selection \in Mailboxes /\ ReadShown(box, jobs, selection)
    BY <1>2, ReadShownNumbered
<1>3. CASE /\ selection \in Mailboxes
           /\ mailbox' = [box EXCEPT !.due = TRUE] /\ pool' = jobs
    <2>1. /\ DOMAIN mailbox' = MailboxFields
          /\ mailbox'.latest = box.latest /\ mailbox'.folder = box.folder
          /\ mailbox'.state = box.state /\ mailbox'.found = box.found
          /\ mailbox'.rereading = box.rereading
        BY <1>3 DEF Numbered, MailboxFields
    <2>2. IsReading(mailbox') <=> IsReading(box)
        BY <2>1 DEF IsReading
    <2>3. RowsReads' = Kind(jobs, "rows")
        BY <1>3 DEF RowsReads, Kind
    <2> QED BY <2>1, <2>2, <2>3 DEF Numbered
<1>4. CASE /\ selection \in Mailboxes
           /\ mailbox' = StartReread(box)
           /\ pool' = jobs \union {RowsJob(box.latest + 1, selection)}
    <2> DEFINE job == RowsJob(box.latest + 1, selection)
    <2>1. /\ DOMAIN mailbox' = MailboxFields
          /\ mailbox'.latest = box.latest + 1 /\ mailbox'.folder = box.folder
          /\ mailbox'.state = box.state /\ mailbox'.found = box.found
          /\ mailbox'.rereading = TRUE
        BY <1>4 DEF StartReread, Numbered, MailboxFields
    <2>2. RowsReads' = Kind(jobs, "rows") \union {job}
        BY <1>4 DEF RowsReads, Kind, RowsJob
    <2>3. box.latest \in Nat /\ RowsTyped(job, box.latest + 1) /\ job.number = box.latest + 1
        BY DEF Numbered, RowsTyped, RowsJob, NotLoaded
    <2>4. \A j \in Kind(jobs, "rows") : RowsTyped(j, box.latest + 1) /\ j.number # box.latest + 1
        BY DEF Numbered, RowsTyped
    <2>5. IsReading(mailbox')
        BY <2>1 DEF IsReading
    <2> HIDE DEF job
    <2> QED BY <2>1, <2>2, <2>3, <2>4, <2>5 DEF Numbered
<1> QED BY <1>1, <1>2, <1>3, <1>4 DEF ReadShownAgain

\* After its answer nothing reads the mailbox.
LEMMA FinishedIsIdle ==
    ASSUME HeldInv, NEW j \in RowsReads, IsLatestRows(j), j.at # "waits"
    PROVE  LET box == FinishRead(mailbox, j) IN
           /\ Numbered(box, RowsReads \ {j}) /\ ~IsReading(box)
           /\ box.folder = mailbox.folder /\ box.latest = mailbox.latest
           /\ box.due = mailbox.due
           /\ box.state = IF j.at = "failed" THEN "ReadFailed" ELSE "Read"
           /\ j.at # "failed" => box.found.list = j.list
<1> DEFINE box == FinishRead(mailbox, j)
<1>1. Numbered(mailbox, RowsReads) /\ RowsTyped(j, mailbox.latest)
    BY DEF HeldInv, Numbered
<1>2. /\ DOMAIN box = MailboxFields
      /\ box.folder = mailbox.folder /\ box.latest = mailbox.latest
      /\ box.due = mailbox.due /\ box.rereading = FALSE
      /\ box.state = IF j.at = "failed" THEN "ReadFailed" ELSE "Read"
      /\ j.at # "failed" => box.found.list = j.list
    BY <1>1 DEF FinishRead, Numbered, MailboxFields
<1>3. ~IsReading(box)
    BY <1>2 DEF IsReading
<1>4. \A k \in RowsReads \ {j} : k.number # mailbox.latest
    BY <1>1 DEF Numbered, IsLatestRows
<1> HIDE DEF box
<1>5. Numbered(box, RowsReads \ {j})
    BY <1>1, <1>2, <1>3, <1>4 DEF Numbered, RowsTyped, States
<1> QED BY <1>2, <1>3, <1>5 DEF box

\* That nothing more is due changes nothing else.
LEMMA NothingDueNumbered ==
    ASSUME NEW box, NEW reads, Numbered(box, reads)
    PROVE  LET again == [box EXCEPT !.due = FALSE] IN
           /\ Numbered(again, reads) /\ again.folder = box.folder
           /\ again.latest = box.latest /\ again.state = box.state /\ again.found = box.found
           /\ again.due = FALSE /\ (IsReading(again) <=> IsReading(box))
<1> DEFINE again == [box EXCEPT !.due = FALSE]
<1>1. /\ DOMAIN again = MailboxFields /\ again.folder = box.folder
      /\ again.latest = box.latest /\ again.state = box.state /\ again.found = box.found
      /\ again.due = FALSE /\ again.rereading = box.rereading
    BY DEF Numbered, MailboxFields
<1>2. IsReading(again) <=> IsReading(box)
    BY <1>1 DEF IsReading
<1> HIDE DEF again
<1>3. Numbered(again, reads)
    BY <1>1, <1>2 DEF Numbered
<1> QED BY <1>1, <1>2, <1>3 DEF again

\* The handler of the latest read's answer: read again if that is due.
LEMMA TakenSteps ==
    ASSUME NEW j, RowsTaken(j)
    PROVE  LET box == FinishRead(mailbox, j) IN
           /\ j \in RowsReads /\ j.at # "waits" /\ IsLatestRows(j) /\ Render
           /\ Kind(pool \ {j}, "rows") = RowsReads \ {j}
           /\ UNCHANGED <<versions, folders, shown, tree, selection, lists, load, failed, events,
                          overtaken>>
           /\ \/ box.due /\ ReadShownAgain([box EXCEPT !.due = FALSE], pool \ {j})
              \/ ~box.due /\ mailbox' = box /\ pool' = pool \ {j}
BY DEF RowsTaken, RowsAnswered, RowsReads, Kind, store, sidebar

LEMMA TakenHeld ==
    ASSUME HeldInv, NEW j, RowsTaken(j) PROVE HeldInv'
<1> DEFINE box == FinishRead(mailbox, j)
           again == [box EXCEPT !.due = FALSE]
<1>1. /\ j \in RowsReads /\ j.at # "waits" /\ IsLatestRows(j) /\ selection' = selection
      /\ Kind(pool \ {j}, "rows") = RowsReads \ {j}
      /\ \/ ReadShownAgain(again, pool \ {j})
         \/ mailbox' = box /\ pool' = pool \ {j}
    BY TakenSteps
<1>2. Numbered(box, RowsReads \ {j}) /\ box.folder = mailbox.folder
    BY <1>1, FinishedIsIdle
<1> HIDE DEF box
<1>3. Numbered(again, RowsReads \ {j}) /\ again.folder = mailbox.folder
    BY <1>2, NothingDueNumbered
<1>4. selection \in Mailboxes => mailbox.folder = selection
    BY DEF HeldInv
<1>5. CASE ReadShownAgain(again, pool \ {j})
    <2> HIDE DEF again
    <2> QED BY <1>1, <1>3, <1>4, <1>5, ReadAgainNumbered DEF HeldInv
<1>6. CASE mailbox' = box /\ pool' = pool \ {j}
    <2>1. RowsReads' = RowsReads \ {j}
        BY <1>6 DEF RowsReads
    <2> QED BY <1>1, <1>2, <1>4, <1>6, <2>1 DEF HeldInv
<1> QED BY <1>1, <1>5, <1>6

\* A read that ends keeps its number.
LEMMA EndedRows ==
    ASSUME ShownInv, StoreTyped, HeldInv, NEW j, RowsEnded(j)
    PROVE  \E done : /\ RowsReads' = (RowsReads \ {j}) \union {done}
                     /\ RowsTyped(done, mailbox.latest) /\ done.number = j.number
                     /\ \/ done.at = "failed"
                        \/ /\ done.at = "done" /\ done.list = versions[j.folder]
                           /\ UNCHANGED <<versions, load, events, overtaken>>
<1>1. RowsTyped(j, mailbox.latest) /\ j \in RowsReads
    BY DEF RowsEnded, HeldInv, Numbered
<1>2. "folder" \in DOMAIN j /\ j.folder \in Mailboxes
    BY <1>1 DEF ShownInv, ReadsFollow, JobsFollow, JobFollows, RowsReads
<1>3. CASE RowsReads' = (RowsReads \ {j}) \union {[j EXCEPT !.at = "failed"]}
    <2> DEFINE done == [j EXCEPT !.at = "failed"]
    <2>1. RowsTyped(done, mailbox.latest) /\ done.number = j.number /\ done.at = "failed"
        BY <1>1 DEF RowsTyped
    <2> HIDE DEF done
    <2> QED BY <1>3, <2>1 DEF done
<1>4. CASE /\ RowsReads' = (RowsReads \ {j}) \union
                  {[j EXCEPT !.at = "done", !.list = versions[j.folder]]}
           /\ UNCHANGED <<versions, load, events, overtaken>>
    <2> DEFINE done == [j EXCEPT !.at = "done", !.list = versions[j.folder]]
    <2>1. versions[j.folder] \in Nat
        BY <1>2 DEF StoreTyped
    <2>2. /\ RowsTyped(done, mailbox.latest) /\ done.number = j.number /\ done.at = "done"
          /\ done.list = versions[j.folder]
        BY <1>1, <2>1 DEF RowsTyped
    <2> HIDE DEF done
    <2> QED BY <1>4, <2>2 DEF done
<1> QED BY <1>3, <1>4 DEF RowsEnded

LEMMA HeldKept == ShownInv /\ TypedInv /\ HeldInv /\ [Next]_vars => HeldInv'
<1> SUFFICES ASSUME ShownInv, TypedInv, HeldInv, [Next]_vars PROVE HeldInv'
    OBVIOUS
<1>0. /\ selection \in Mailboxes => mailbox.folder = selection
      /\ Numbered(mailbox, RowsReads)
    BY DEF HeldInv
<1>1. CASE RowsKept
    BY <1>0, <1>1 DEF RowsKept, HeldInv, Numbered
<1>2. CASE RowsForgotten
    <2>1. /\ DOMAIN mailbox' = MailboxFields /\ mailbox'.latest = mailbox.latest + 1
          /\ mailbox'.state = "NotRead" /\ mailbox'.rereading = FALSE
        BY <1>2 DEF RowsForgotten, Forget, MailboxFields
    <2>2. ~IsReading(mailbox')
        BY <2>1 DEF IsReading
    <2>3. \A j \in RowsReads : RowsTyped(j, mailbox.latest + 1) /\ j.number # mailbox.latest + 1
        BY <1>0 DEF Numbered, RowsTyped
    <2>4. Numbered(mailbox', RowsReads)
        BY <1>0, <2>1, <2>2, <2>3 DEF Numbered, States
    <2> QED BY <1>2, <2>4 DEF RowsForgotten, HeldInv
<1>3. CASE RowsStarted
    <2> PICK jobs : ReadShown(mailbox, jobs, selection') /\ Kind(jobs, "rows") = RowsReads
        BY <1>3 DEF RowsStarted
    <2>1. PICK m : m = selection'
        OBVIOUS
    <2>2. ReadShown(mailbox, jobs, m) /\ Numbered(mailbox, Kind(jobs, "rows"))
        BY <1>0, <2>1
    <2>3. Numbered(mailbox', RowsReads') /\ mailbox'.folder = m
        BY <2>2, ReadShownNumbered
    <2> QED BY <2>1, <2>3 DEF HeldInv
<1>4. CASE RowsAgain
    <2> PICK jobs : ReadShownAgain(mailbox, jobs) /\ Kind(jobs, "rows") = RowsReads
        BY <1>4 DEF RowsAgain
    <2>1. /\ Numbered(mailbox', RowsReads')
          /\ selection \in Mailboxes => mailbox'.folder = selection
        BY <1>0, ReadAgainNumbered
    <2> QED BY <1>4, <2>1 DEF RowsAgain, HeldInv
<1>5. ASSUME NEW target, StartLoad(target) PROVE HeldInv'
    <2>1. mailbox' = ForgetReadFailure(mailbox) /\ UNCHANGED <<pool, selection>>
        BY <1>5 DEF StartLoad, sidebar
    <2>2. CASE mailbox' = mailbox
        BY <2>1, <2>2, <1>0 DEF HeldInv, RowsReads
    <2>3. CASE mailbox.state = "ReadFailed" /\ mailbox' = [mailbox EXCEPT !.state = "NotRead"]
        <3>1. /\ DOMAIN mailbox' = MailboxFields /\ mailbox'.latest = mailbox.latest
              /\ mailbox'.state = "NotRead" /\ mailbox'.rereading = mailbox.rereading
              /\ mailbox'.folder = mailbox.folder
            BY <1>0, <2>3 DEF Numbered, MailboxFields
        <3>2. IsReading(mailbox') <=> IsReading(mailbox)
            BY <3>1, <2>3 DEF IsReading
        <3>3. Numbered(mailbox', RowsReads)
            BY <1>0, <3>1, <3>2 DEF Numbered, States
        <3> QED BY <1>0, <2>1, <3>1, <3>3 DEF HeldInv, RowsReads
    <2> QED BY <2>1, <2>2, <2>3 DEF ForgetReadFailure
<1>6. ASSUME NEW j, RowsEnded(j) PROVE HeldInv'
    <2>1. PICK done : /\ RowsReads' = (RowsReads \ {j}) \union {done}
                      /\ RowsTyped(done, mailbox.latest) /\ done.number = j.number
        BY <1>6, EndedRows DEF TypedInv
    <2>2. j \in RowsReads /\ UNCHANGED <<mailbox, selection>>
        BY <1>6 DEF RowsEnded
    <2>3. Numbered(mailbox, RowsReads')
        BY <1>0, <2>1, <2>2 DEF Numbered
    <2> QED BY <1>0, <2>2, <2>3 DEF HeldInv
<1>7. ASSUME NEW j, RowsTaken(j) PROVE HeldInv'
    BY <1>7, TakenHeld
<1> QED BY RowsReadsSteps, <1>1, <1>2, <1>3, <1>4, <1>5, <1>6, <1>7 DEF RowsStep

\* The inductive invariant of the reads: the mailbox selected is held, and it
\* is being read if, and only if, one read has the number it waits for.
THEOREM HeldInvariant == Spec => []HeldInv
<1>1. Init => HeldInv
    <2> SUFFICES ASSUME Init PROVE HeldInv
        OBVIOUS
    <2>1. RowsReads = {} /\ selection \notin Mailboxes
        BY WindowAssumption DEF Init, RowsReads
    <2>2. /\ DOMAIN mailbox = MailboxFields /\ mailbox.latest = 0 /\ mailbox.state = "NotRead"
          /\ ~IsReading(mailbox)
        BY DEF Init, MailboxFields, IsReading
    <2> QED BY <2>1, <2>2 DEF HeldInv, Numbered, States
<1> QED BY <1>1, HeldKept, ShownInvariant, TypedInvariant, PTL DEF Spec

-----------------------------------------------------------------------------
(* The screen.                                                               *)

\* What the page says of the mailbox held.
LEMMA PageShowsMessages ==
    Page = "Messages" <=> /\ ~lists.failed /\ selection # Nothing
                          /\ mailbox.folder = selection /\ mailbox.state = "Read"
                          /\ HasRows(mailbox.found.list)
BY DEF Page

LEMMA PageShowsReading ==
    Page \in {"Reading", "ReadingAgain"} => mailbox.folder = selection /\ mailbox.state = Page
BY DEF Page

\* Filling the list area shows the mailbox held, or nothing.
LEMMA RenderedScreen == ASSUME Render PROVE ScreenInv'
<1>1. CASE Page' = "Messages"
    <2>1. screen' = [folder |-> selection', rows |-> mailbox'.found]
        BY <1>1 DEF Render
    <2>2. /\ mailbox'.folder = selection' /\ mailbox'.state = "Read"
          /\ HasRows(mailbox'.found.list)
        BY <1>1 DEF Page
    <2> QED BY <2>1, <2>2 DEF ScreenInv
<1>2. CASE Page' = "ReadingAgain"
    <2>1. mailbox'.folder = selection' /\ mailbox'.state = "ReadingAgain"
        BY <1>2 DEF Page
    <2> QED BY <1>2, <2>1 DEF ScreenInv
<1>3. CASE Page' # "Messages" /\ Page' # "ReadingAgain"
    <2>1. screen' = Nothing
        BY <1>3 DEF Render
    <2> QED BY <1>3, <2>1 DEF ScreenInv
<1> QED BY <1>1, <1>2, <1>3

\* A handler that does not fill the list area at most reads the mailbox again.
LEMMA UnrenderedSteps ==
    ASSUME [Next]_vars
    PROVE  \/ Render
           \/ /\ UNCHANGED <<screen, selection, lists>>
              /\ mailbox' = mailbox \/ \E jobs : ReadShownAgain(mailbox, jobs)
<1>1. CASE User
    BY <1>1 DEF User, Select, Collapse, ReadStoredMail, FilterToggled, ChangeFlag, StartLoad, sidebar
<1>2. CASE Window
    <2>1. ASSUME NEW now, NEW keeps, ApplyUpdate(now, keeps) PROVE Render
        BY <2>1 DEF ApplyUpdate
    <2>2. CASE StoreChangedDelivered
        BY <2>2 DEF StoreChangedDelivered, sidebar
    <2>3. CASE FinishLoad
        BY <2>3 DEF FinishLoad
    <2>4. ASSUME NEW j, RowsAnswered(j)
          PROVE  Render \/ UNCHANGED <<screen, selection, lists, mailbox>>
        BY <2>4 DEF RowsAnswered, sidebar
    <2>5. ASSUME NEW j, ListsAnswered(j)
          PROVE  Render \/ UNCHANGED <<screen, selection, lists, mailbox>>
        BY <2>5 DEF ListsAnswered
    <2>6. ASSUME NEW j, FlagAnswered(j)
          PROVE  /\ UNCHANGED <<screen, selection, lists>>
                 /\ mailbox' = mailbox \/ \E jobs : ReadShownAgain(mailbox, jobs)
        BY <2>6 DEF FlagAnswered, sidebar
    <2> QED BY <1>2, <2>1, <2>2, <2>3, <2>4, <2>5, <2>6 DEF Window
<1>3. CASE Pool \/ Worker \/ UNCHANGED vars
    BY <1>3 DEF Pool, Worker, JobFails, RowsRead, ListsRead, FlagWritten, AccountsDeleted,
       BatchStored, WishRefused, FoldersReplaced, LoadEnds, vars, sidebar, window
<1> QED BY <1>1, <1>2, <1>3 DEF Next

\* A mailbox read or being read again is not taken for one never shown.
LEMMA ReadAgainKeepsRows ==
    ASSUME NEW box, NEW jobs, DOMAIN box = MailboxFields, box.folder = selection,
           box.state = "Read" \/ box.state = "ReadingAgain",
           ReadShownAgain(box, jobs)
    PROVE  mailbox'.folder = selection /\ mailbox'.state = box.state /\ mailbox'.found = box.found
<1>1. Holds(box, selection)
    BY DEF Holds
<1>2. CASE mailbox' = box
    BY <1>2
<1>3. CASE mailbox' = [box EXCEPT !.due = TRUE] \/ mailbox' = StartReread(box)
    BY <1>3 DEF StartReread, MailboxFields
<1> QED BY <1>1, <1>2, <1>3 DEF ReadShownAgain

LEMMA ScreenKept == HeldInv /\ ScreenInv /\ [Next]_vars => ScreenInv'
<1> SUFFICES ASSUME HeldInv, ScreenInv, [Next]_vars,
                    UNCHANGED <<screen, selection, lists>>,
                    mailbox' = mailbox \/ \E jobs : ReadShownAgain(mailbox, jobs)
             PROVE  ScreenInv'
    BY UnrenderedSteps, RenderedScreen
<1>1. DOMAIN mailbox = MailboxFields
    BY DEF HeldInv, Numbered
<1>2. screen # Nothing => /\ mailbox.folder = selection
                          /\ \/ mailbox.state = "Read" /\ HasRows(mailbox.found.list)
                             \/ mailbox.state = "ReadingAgain"
    BY DEF ScreenInv
<1>3. screen # Nothing => /\ mailbox'.folder = selection
                          /\ \/ mailbox'.state = "Read" /\ HasRows(mailbox'.found.list)
                             \/ mailbox'.state = "ReadingAgain"
    BY <1>1, <1>2, ReadAgainKeepsRows
<1>4. ASSUME Page' = "Messages"
      PROVE  screen' = [folder |-> selection', rows |-> mailbox'.found]
    <2>1. /\ ~lists.failed /\ selection # Nothing /\ mailbox'.folder = selection
          /\ mailbox'.state = "Read" /\ HasRows(mailbox'.found.list)
        BY <1>4 DEF Page
    <2>2. CASE mailbox' = mailbox
        <3>1. Page = "Messages"
            BY <2>1, <2>2, PageShowsMessages
        <3> QED BY <2>2, <3>1 DEF ScreenInv
    <2>3. ASSUME NEW jobs, ReadShownAgain(mailbox, jobs)
          PROVE  screen' = [folder |-> selection', rows |-> mailbox'.found]
        <3>1. CASE ReadShown(mailbox, jobs, selection)
            <4>1. mailbox'.state # "Read"
                BY <3>1 DEF ReadShown, StartRead
            <4> QED BY <4>1, <2>1
        <3>2. CASE mailbox' \in {mailbox, [mailbox EXCEPT !.due = TRUE], StartReread(mailbox)}
            <4>1. /\ mailbox'.folder = mailbox.folder /\ mailbox'.state = mailbox.state
                  /\ mailbox'.found = mailbox.found
                BY <3>2, <1>1 DEF StartReread, MailboxFields
            <4>2. Page = "Messages"
                BY <4>1, <2>1, PageShowsMessages
            <4> QED BY <4>1, <4>2 DEF ScreenInv
        <3> QED BY <2>3, <3>1, <3>2 DEF ReadShownAgain
    <2> QED BY <2>2, <2>3
<1> QED BY <1>3, <1>4 DEF ScreenInv

\* The inductive invariant of the screen: rows are shown only of a mailbox that
\* was read, or is being read again, and then they are those found.
THEOREM ScreenInvariant == Spec => []ScreenInv
<1>1. Init => ScreenInv
    BY PageShowsMessages, WindowAssumption DEF Init, ScreenInv
<1> QED BY <1>1, ScreenKept, HeldInvariant, PTL DEF Spec

\* The one step that blanks a list for a read is a failed read's answer.
LEMMA BlankedByFailedRead ==
    ASSUME ShownInv, HeldInv, ScreenInv, [Next]_vars,
           screen # Nothing, selection' = selection, Page' = "Reading"
    PROVE  \E j \in RowsReads \ pool' : j.at = "failed"
<1>1. mailbox'.folder = selection /\ mailbox'.state = "Reading"
    BY DEF Page
<1>2. /\ mailbox.folder = selection /\ DOMAIN mailbox = MailboxFields
      /\ \/ mailbox.state = "Read" /\ mailbox.found.list # NotLoaded
         \/ mailbox.state = "ReadingAgain"
    BY DEF ScreenInv, HasRows, HeldInv, Numbered
<1>3. CASE RowsKept \/ \E j \in pool : RowsEnded(j)
    BY <1>1, <1>2, <1>3 DEF RowsKept, RowsEnded
<1>4. CASE RowsForgotten
    BY <1>1, <1>4 DEF RowsForgotten, Forget
<1>5. CASE RowsStarted
    BY <1>1, <1>2, <1>5 DEF RowsStarted, ReadShown, StartRead
<1>6. CASE RowsAgain
    BY <1>1, <1>2, <1>6, ReadAgainKeepsRows DEF RowsAgain
<1>7. ASSUME NEW target, StartLoad(target) PROVE FALSE
    BY <1>1, <1>2, <1>7 DEF StartLoad, ForgetReadFailure
<1>8. ASSUME NEW j, RowsTaken(j) PROVE \E k \in RowsReads \ pool' : k.at = "failed"
    <2> DEFINE box == FinishRead(mailbox, j)
               again == [box EXCEPT !.due = FALSE]
    <2>1. /\ j \in RowsReads /\ j.at # "waits" /\ IsLatestRows(j)
          /\ \/ ReadShownAgain(again, pool \ {j})
             \/ mailbox' = box /\ pool' = pool \ {j}
        BY <1>8, TakenSteps
    <2>2. /\ Numbered(box, RowsReads \ {j}) /\ box.folder = mailbox.folder
          /\ box.state = IF j.at = "failed" THEN "ReadFailed" ELSE "Read"
        BY <2>1, FinishedIsIdle
    <2> HIDE DEF box
    <2>3. /\ Numbered(again, RowsReads \ {j}) /\ again.folder = box.folder
          /\ again.state = box.state
        BY <2>2, NothingDueNumbered
    <2> HIDE DEF again
    <2>4. j.at = "failed"
        <3> SUFFICES ASSUME j.at # "failed" PROVE FALSE
            OBVIOUS
        <3>1. mailbox'.state = "Read"
            BY <2>1, <2>2, <2>3, <1>2, ReadAgainKeepsRows DEF Numbered
        <3> QED BY <3>1, <1>1
    <2>5. j \notin pool'
        <3>1. PICK m : pool' = pool \ {j}
                       \/ pool' = (pool \ {j}) \union {RowsJob(again.latest + 1, m)}
            BY <2>1 DEF ReadShownAgain, ReadShown
        <3>2. RowsJob(again.latest + 1, m).at = "waits"
            BY DEF RowsJob
        <3> QED BY <2>1, <3>1, <3>2
    <2> QED BY <2>1, <2>4, <2>5
<1> QED BY RowsReadsSteps, <1>3, <1>4, <1>5, <1>6, <1>7, <1>8 DEF RowsStep

\* A mailbox shown keeps its rows while it is read again: the list goes blank
\* for a read of it only when a read of it failed.
THEOREM RowsStay == Spec => RowsStayWhileRead
<1>1. ShownInv /\ HeldInv /\ ScreenInv /\ [Next]_vars =>
          [/\ screen # Nothing /\ screen' = Nothing
           /\ selection' = selection /\ Page' = "Reading"
           => \E j \in RowsReads \ pool' : j.at = "failed"]_vars
    BY BlankedByFailedRead
<1> QED BY <1>1, ShownInvariant, HeldInvariant, ScreenInvariant, PTL DEF Spec, RowsStayWhileRead

-----------------------------------------------------------------------------
(* A mailbox held and not read waits for a load, or one failed.              *)

LEMMA LoadAndFailedSteps ==
    ASSUME [Next]_vars
    PROVE  \/ \E target \in Targets : StartLoad(target)
           \/ \E now, keeps \in SUBSET Accounts : ApplyUpdate(now, keeps)
           \/ FinishLoad
           \/ UNCHANGED <<load, failed>>
           \/ load # Nothing /\ load' = [load EXCEPT !.ended = TRUE] /\ UNCHANGED failed
<1>1. CASE User
    BY <1>1 DEF User, Select, Collapse, ReadStoredMail, FilterToggled, ChangeFlag
<1>2. CASE Window
    BY <1>2 DEF Window, StoreChangedDelivered, RowsAnswered, ListsAnswered, FlagAnswered
<1>3. CASE Pool
    BY <1>3 DEF Pool, JobFails, RowsRead, ListsRead, FlagWritten, AccountsDeleted, window
<1>4. CASE Worker
    BY <1>4 DEF Worker, BatchStored, WishRefused, FoldersReplaced, LoadEnds, MayWrite, Loading,
       window
<1>5. CASE UNCHANGED vars
    BY <1>5 DEF vars, window
<1> QED BY <1>1, <1>2, <1>3, <1>4, <1>5 DEF Next

\* Reading leaves no mailbox held unread.
LEMMA ReadAgainLeavesNoneUnread ==
    ASSUME NEW box, NEW jobs, DOMAIN box = MailboxFields, box.folder \in Mailboxes,
           box.folder = selection, ReadShownAgain(box, jobs)
    PROVE  mailbox'.state # "NotRead"
<1>1. CASE ReadShown(box, jobs, selection)
    BY <1>1 DEF ReadShown, StartRead
<1>2. CASE /\ Holds(box, selection)
           /\ mailbox' = [box EXCEPT !.due = TRUE] \/ mailbox' = StartReread(box)
    BY <1>2 DEF Holds, StartReread, MailboxFields
<1> QED BY <1>1, <1>2 DEF ReadShownAgain

\* A mailbox is left unread by the start of a load, or stays so.
LEMMA UnreadSteps ==
    ASSUME ShownInv, HeldInv, [Next]_vars,
           mailbox'.folder \in Mailboxes, mailbox'.state = "NotRead"
    PROVE  mailbox' = mailbox \/ \E target \in Targets : StartLoad(target)
<1>1. DOMAIN mailbox = MailboxFields
    BY DEF HeldInv, Numbered
<1>2. CASE RowsForgotten
    BY <1>2, WindowAssumption DEF RowsForgotten, Forget
<1>3. CASE RowsStarted
    BY <1>3 DEF RowsStarted, ReadShown, StartRead
<1>4. CASE RowsAgain
    <2> PICK jobs : ReadShownAgain(mailbox, jobs)
        BY <1>4 DEF RowsAgain
    <2>1. CASE mailbox.folder \in Mailboxes
        <3>1. mailbox.folder = selection
            BY <2>1, WindowAssumption DEF ShownInv, ReadsFollow, MailboxFollows
        <3> QED BY <1>1, <2>1, <3>1, ReadAgainLeavesNoneUnread
    <2>2. CASE mailbox.folder \notin Mailboxes
        <3>1. selection \notin Mailboxes
            BY <2>2 DEF HeldInv
        <3> QED BY <3>1 DEF ReadShownAgain
    <2> QED BY <2>1, <2>2
<1>5. ASSUME NEW j, RowsTaken(j) PROVE FALSE
    <2> DEFINE box == FinishRead(mailbox, j)
               again == [box EXCEPT !.due = FALSE]
    <2>1. /\ j \in RowsReads /\ j.at # "waits" /\ IsLatestRows(j)
          /\ \/ ReadShownAgain(again, pool \ {j})
             \/ mailbox' = box /\ pool' = pool \ {j}
        BY <1>5, TakenSteps
    <2>2. /\ Numbered(box, RowsReads \ {j}) /\ box.folder = mailbox.folder
          /\ box.state \in {"Read", "ReadFailed"}
        BY <2>1, FinishedIsIdle
    <2>3. mailbox.folder \in Mailboxes /\ mailbox.folder = selection
        <3>1. j.folder = mailbox.folder /\ j.folder \in Mailboxes
            BY <2>1 DEF IsLatestRows, ShownInv, ReadsFollow, JobsFollow, JobFollows, RowsReads
        <3> QED BY <3>1, WindowAssumption DEF ShownInv, ReadsFollow, MailboxFollows
    <2> HIDE DEF box
    <2>4. /\ Numbered(again, RowsReads \ {j}) /\ again.folder = box.folder
          /\ again.state = box.state
        BY <2>2, NothingDueNumbered
    <2> HIDE DEF again
    <2>5. CASE ReadShownAgain(again, pool \ {j})
        BY <2>2, <2>3, <2>4, <2>5, ReadAgainLeavesNoneUnread DEF Numbered
    <2>6. CASE mailbox' = box
        BY <2>2, <2>6
    <2> QED BY <2>1, <2>5, <2>6
<1> QED BY RowsReadsSteps, <1>2, <1>3, <1>4, <1>5 DEF RowsStep, RowsKept, RowsEnded

LEMMA FailedOfAccounts ==
    ASSUME AwaitedInv, [Next]_vars PROVE DOMAIN failed' = Accounts
<1>1. ASSUME NEW target, StartLoad(target) PROVE failed' = failed
    BY <1>1 DEF StartLoad
<1>2. ASSUME NEW now, NEW keeps, ApplyUpdate(now, keeps) PROVE DOMAIN failed' = Accounts
    BY <1>2 DEF ApplyUpdate
<1>3. CASE FinishLoad
    BY <1>3 DEF FinishLoad, FailedAfter, AwaitedInv
<1> QED BY LoadAndFailedSteps, <1>1, <1>2, <1>3 DEF AwaitedInv

LEMMA AwaitedKept == ShownInv /\ TypedInv /\ HeldInv /\ AwaitedInv /\ [Next]_vars => AwaitedInv'
<1> SUFFICES ASSUME ShownInv, TypedInv, HeldInv, AwaitedInv, [Next]_vars,
                    NEW m \in Mailboxes, mailbox'.folder = m, mailbox'.state = "NotRead"
             PROVE  Awaited(m)'
    <2>1. (DOMAIN failed = Accounts)' <=> DOMAIN failed' = Accounts
        OBVIOUS
    <2> QED BY <2>1, FailedOfAccounts DEF AwaitedInv, Awaited
<1>1. DOMAIN mailbox = MailboxFields
    BY DEF HeldInv, Numbered
<1>2. ASSUME NEW target, StartLoad(target) PROVE Awaited(m)'
    <2>1. /\ load' = [account |-> SelectedAccount, target |-> target, cancelled |-> FALSE,
                      ended |-> FALSE]
          /\ target \in {FolderList} \union ({selection} \intersect Mailboxes)
          /\ mailbox' = ForgetReadFailure(mailbox)
        BY <1>2 DEF StartLoad
    <2>2. mailbox'.folder = mailbox.folder
        BY <2>1, <1>1 DEF ForgetReadFailure, MailboxFields
    <2>3. m = selection
        BY <2>2, WindowAssumption DEF ShownInv, ReadsFollow, MailboxFollows
    <2>4. SelectedAccount = m.account /\ SelectedAccount \in Accounts
        BY <2>3 DEF SelectedAccount, Accounts
    <2>5. load' \in LoadRecords
        BY <2>1, <2>4 DEF LoadRecords, Targets
    <2> QED BY <2>1, <2>3, <2>4, <2>5, WindowAssumption DEF Awaited
<1>3. ASSUME mailbox' = mailbox, ~\E target \in Targets : StartLoad(target)
      PROVE  Awaited(m)'
    <2>0. mailbox.folder = m
        BY <1>3
    <2>1. m = selection /\ mailbox.state = "NotRead" /\ m.account \in Accounts
        BY <1>3, <2>0, WindowAssumption DEF ShownInv, ReadsFollow, MailboxFollows, Accounts
    <2>2. Awaited(m)
        BY <2>0, <2>1 DEF AwaitedInv
    <2>3. load \in LoadRecords \union {Nothing}
        BY DEF TypedInv, LoadInv
    <2>4. ASSUME NEW now, NEW keeps, ApplyUpdate(now, keeps) PROVE Awaited(m)'
        <3>1. /\ mailbox' = ForgetExcluded(mailbox, now)
              /\ failed' = [a \in Accounts |-> IF a \in now THEN failed[a] ELSE Nothing]
              /\ load' = IF load # Nothing /\ load.account \notin now
                         THEN [load EXCEPT !.cancelled = TRUE] ELSE load
            BY <2>4 DEF ApplyUpdate
        <3>2. m.account \in now
            BY <3>1, <1>3, <2>0, <2>1, WindowAssumption DEF ForgetExcluded, Forget
        <3>3. failed'[m.account] = failed[m.account]
            BY <3>1, <3>2, <2>1
        <3> QED BY <3>1, <3>2, <3>3, <2>2 DEF Awaited
    <2>5. CASE FinishLoad
        <3>1. /\ events # <<>> /\ Head(events) \in Results
              /\ failed' = FailedAfter(Head(events)) /\ load' = Nothing
            BY <2>5 DEF FinishLoad
        <3>2. /\ load # Nothing /\ ~load.cancelled
              /\ load.account = m.account /\ load.target \in {FolderList, m}
            BY <2>2, <3>1 DEF Awaited, TypedInv, LoadInv
        <3>3. events \in Seq({"StoreChanged"} \union Results)
            BY DEF TypedInv, LoadInv
        <3>4. 1 \in 1..Len(events) /\ events[1] = Head(events)
            BY <3>1, <3>3
        <3>5. Head(events) # "Cancelled"
            BY <3>1, <3>2, <3>4 DEF TypedInv, LoadInv
        <3>6. Head(events) # "Stored"
            <4> SUFFICES ASSUME Head(events) = "Stored" PROVE FALSE
                OBVIOUS
            <4>1. ~Holds(mailbox, selection)
                BY <2>1 DEF Holds
            <4>2. CASE RowsStarted
                BY <4>2, <1>3, <2>1 DEF RowsStarted, ReadShown, StartRead
            <4>3. CASE RowsAgain
                BY <4>3, <1>1, <1>3, <2>0, <2>1, ReadAgainLeavesNoneUnread DEF RowsAgain
            <4> QED BY <2>1, <2>5, <3>2, <4>1, <4>2, <4>3, FinishedRowsReads
        <3>7. failed' = [failed EXCEPT ![load.account] = load.target]
            BY <3>1, <3>2, <3>5, <3>6 DEF FailedAfter, Results
        <3>8. DOMAIN failed = Accounts
            BY DEF AwaitedInv
        <3>9. failed'[m.account] = load.target
            BY <3>2, <3>7, <3>8, <2>1
        <3> QED BY <3>1, <3>2, <3>9 DEF Awaited
    <2>6. CASE UNCHANGED <<load, failed>>
        BY <2>2, <2>6 DEF Awaited
    <2>7. CASE load # Nothing /\ load' = [load EXCEPT !.ended = TRUE] /\ UNCHANGED failed
        <3>1. load' \in LoadRecords /\ load'.account = load.account
              /\ load'.target = load.target /\ load'.cancelled = load.cancelled
            BY <2>3, <2>7 DEF LoadRecords
        <3> QED BY <2>2, <2>7, <3>1, WindowAssumption DEF Awaited
    <2> QED BY LoadAndFailedSteps, <1>3, <2>4, <2>5, <2>6, <2>7
<1> QED BY UnreadSteps, <1>2, <1>3

\* The inductive invariant of the mailboxes held unread: the user waits for a
\* load of theirs, or is told of the one that failed.
THEOREM AwaitedInvariant == Spec => []AwaitedInv
<1>1. Init => AwaitedInv
    BY WindowAssumption DEF Init, AwaitedInv
<1> QED BY <1>1, AwaitedKept, ShownInvariant, TypedInvariant, HeldInvariant, PTL DEF Spec

-----------------------------------------------------------------------------
(* The rows shown are current.                                               *)

\* A report that comes with a newer version keeps the rows current.
LEMMA CurrentWhenReported ==
    ASSUME NEW box, NEW reads, NEW more, NEW seen, NEW version \in Nat, NEW newer \in Nat,
           NEW reported, NEW after, Numbered(box, reads), more \subseteq reads,
           CurrentRows(box, reads, seen, version, reported),
           version <= newer, newer # version => after, reported => after
    PROVE  CurrentRows(box, more, seen, newer, after)
<1>1. seen \in 0..newer
    BY DEF CurrentRows
<1>2. ASSUME box.state = "Read"
      PROVE  /\ seen <= box.found.list /\ box.found.list <= newer
             /\ box.found.list = newer \/ after \/ IsReading(box)
    BY <1>2 DEF CurrentRows, Numbered
<1>3. ASSUME NEW j \in more, j.number = box.latest, j.at = "done"
      PROVE  /\ seen <= j.list /\ j.list <= newer
             /\ box.state = "Read" => box.found.list <= j.list
             /\ j.list = newer \/ after \/ box.due
    <2>1. j \in reads /\ j.list \in Nat
        BY DEF Numbered, RowsTyped
    <2> QED BY <1>3, <2>1 DEF CurrentRows
<1> QED BY <1>1, <1>2, <1>3 DEF CurrentRows

\* Neither a blank list nor the rows found are newer than what is known.
LEMMA CurrentWhenSeen ==
    ASSUME NEW box, NEW reads, NEW seen, NEW again, NEW version \in Nat, NEW reported,
           Numbered(box, reads), CurrentRows(box, reads, seen, version, reported),
           \/ again \in {NotLoaded, seen}
           \/ box.state = "Read" /\ again = box.found.list
    PROVE  CurrentRows(box, reads, again, version, reported)
<1>1. again \in 0..version
    BY DEF CurrentRows, NotLoaded, Numbered
<1>2. box.state = "Read" => again <= box.found.list
    BY DEF CurrentRows, NotLoaded, Numbered
<1>3. ASSUME NEW j \in reads, j.number = box.latest, j.at = "done"
      PROVE  again <= j.list
    <2>1. j.list \in Nat
        BY DEF Numbered, RowsTyped
    <2> QED BY <1>3, <2>1 DEF CurrentRows, NotLoaded
<1> QED BY <1>1, <1>2, <1>3 DEF CurrentRows

\* A read started makes up for every version missed.
LEMMA StartedRowsAreCurrent ==
    ASSUME NEW box, NEW jobs, NEW m, NEW version \in Nat, NEW seen \in 0..version,
           Numbered(box, Kind(jobs, "rows")), ReadShown(box, jobs, m)
    PROVE  CurrentRows(mailbox', RowsReads', seen, version, FALSE)
<1> DEFINE job == RowsJob(box.latest + 1, m)
<1>1. /\ mailbox'.latest = box.latest + 1 /\ mailbox'.state # "Read"
      /\ RowsReads' = Kind(jobs, "rows") \union {job} /\ job.at = "waits"
    BY DEF ReadShown, StartRead, RowsJob, Kind, RowsReads
<1>2. \A j \in Kind(jobs, "rows") : j.number # box.latest + 1
    BY DEF Numbered, RowsTyped
<1> HIDE DEF job
<1> QED BY <1>1, <1>2 DEF CurrentRows

LEMMA ReadAgainIsCurrent ==
    ASSUME NEW box, NEW jobs, NEW version \in Nat, NEW seen, NEW reported,
           Numbered(box, Kind(jobs, "rows")), selection \in Mailboxes,
           CurrentRows(box, Kind(jobs, "rows"), seen, version, reported),
           ReadShownAgain(box, jobs)
    PROVE  CurrentRows(mailbox', RowsReads', seen, version, FALSE)
<1>0. DOMAIN box = MailboxFields /\ box.latest \in Nat /\ seen \in 0..version
    BY DEF Numbered, CurrentRows
<1>1. CASE ReadShown(box, jobs, selection)
    BY <1>0, <1>1, StartedRowsAreCurrent
<1>2. CASE IsReading(box) /\ mailbox' = [box EXCEPT !.due = TRUE] /\ pool' = jobs
    <2>1. /\ mailbox'.latest = box.latest /\ mailbox'.state = box.state
          /\ mailbox'.found = box.found /\ mailbox'.rereading = box.rereading /\ mailbox'.due
        BY <1>0, <1>2 DEF MailboxFields
    <2>2. IsReading(mailbox') /\ RowsReads' = Kind(jobs, "rows")
        BY <1>2, <2>1 DEF IsReading, RowsReads, Kind
    <2> QED BY <2>1, <2>2 DEF CurrentRows
<1>3. CASE mailbox' = StartReread(box) /\ pool' = jobs \union {RowsJob(box.latest + 1, selection)}
    <2> DEFINE job == RowsJob(box.latest + 1, selection)
    <2>1. /\ mailbox'.latest = box.latest + 1 /\ mailbox'.state = box.state
          /\ mailbox'.found = box.found /\ IsReading(mailbox')
        BY <1>0, <1>3 DEF StartReread, MailboxFields, IsReading
    <2>2. RowsReads' = Kind(jobs, "rows") \union {job} /\ job.at = "waits"
        BY <1>3 DEF RowsReads, Kind, RowsJob
    <2>3. \A j \in Kind(jobs, "rows") : j.number # box.latest + 1
        BY DEF Numbered, RowsTyped
    <2> HIDE DEF job
    <2>4. \A j \in RowsReads' : ~(j.number = mailbox'.latest /\ j.at = "done")
        BY <2>1, <2>2, <2>3
    <2> QED BY <2>1, <2>4 DEF CurrentRows
<1> QED BY <1>1, <1>2, <1>3 DEF ReadShownAgain

\* What the latest read found is what is held after it; if that is not the
\* store's, a change came since, which is due or reported.
LEMMA FinishedIsCurrent ==
    ASSUME HeldInv, NEW j \in RowsReads, IsLatestRows(j), j.at # "waits",
           NEW version \in Nat, NEW seen, NEW reported,
           CurrentRows(mailbox, RowsReads, seen, version, reported)
    PROVE  CurrentRows(FinishRead(mailbox, j), RowsReads \ {j}, seen, version,
                       reported \/ mailbox.due)
<1>1. PICK box : box = FinishRead(mailbox, j)
    OBVIOUS
<1>2. /\ Numbered(box, RowsReads \ {j}) /\ ~IsReading(box)
      /\ box.state = IF j.at = "failed" THEN "ReadFailed" ELSE "Read"
      /\ j.at # "failed" => box.found.list = j.list
    BY <1>1, FinishedIsIdle
<1>3. RowsTyped(j, mailbox.latest) /\ j.number = mailbox.latest
    BY DEF HeldInv, Numbered, IsLatestRows
<1>4. box.state = "Read" => j.at = "done" /\ box.found.list = j.list
    BY <1>2, <1>3 DEF RowsTyped
<1>5. \A k \in RowsReads \ {j} : k.number # box.latest
    BY <1>2 DEF Numbered
<1>6. j.at = "done" => /\ seen <= j.list /\ j.list <= version
                       /\ j.list = version \/ reported \/ mailbox.due
    BY <1>3 DEF CurrentRows
<1>7. CurrentRows(box, RowsReads \ {j}, seen, version, reported \/ mailbox.due)
    BY <1>4, <1>5, <1>6 DEF CurrentRows
<1> QED BY <1>1, <1>7

\* What the screen shows after a step: nothing, what it showed, or what was found.
LEMMA ScreenSteps ==
    ASSUME [Next]_vars
    PROVE  \/ screen' \in {Nothing, screen}
           \/ /\ mailbox'.state = "Read"
              /\ screen' = [folder |-> selection', rows |-> mailbox'.found]
<1>1. CASE Render
    <2>1. Page' = "Messages" => mailbox'.state = "Read"
        BY DEF Page
    <2> QED BY <1>1, <2>1 DEF Render
<1> QED BY UnrenderedSteps, <1>1

LEMMA SeenSteps ==
    ASSUME [Next]_vars
    PROVE  \/ Seen' \in {NotLoaded, Seen}
           \/ mailbox'.state = "Read" /\ Seen' = mailbox'.found.list
BY ScreenSteps DEF Seen

\* A list filled for a mailbox read for the first time is blank.
LEMMA StartedSeen ==
    ASSUME ShownInv, ScreenInv', [Next]_vars, NEW jobs, NEW m \in Mailboxes, selection' = m,
           ReadShown(mailbox, jobs, m)
    PROVE  Seen' = NotLoaded \/ (Seen' = Seen /\ selection = m)
<1>1. CASE mailbox'.state = "Reading"
    BY <1>1 DEF ScreenInv, Seen
<1>2. CASE mailbox'.state = "ReadingAgain"
    <2>1. mailbox.folder = m
        BY <1>2 DEF ReadShown, StartRead
    <2>2. selection = m
        BY <2>1, WindowAssumption DEF ShownInv, ReadsFollow, MailboxFollows
    <2> QED BY <1>2, <2>2, SeenSteps
<1> QED BY <1>1, <1>2 DEF ReadShown, StartRead

\* A load that ends or is cancelled is the same load.
LEMMA LoadGoesOn ==
    ASSUME load \in LoadRecords,
           load' \in {load, [load EXCEPT !.ended = TRUE], [load EXCEPT !.cancelled = TRUE]}
    PROVE  load' # Nothing /\ load'.account = load.account
<1>1. /\ [load EXCEPT !.ended = TRUE] \in LoadRecords
      /\ [load EXCEPT !.cancelled = TRUE] \in LoadRecords
    BY DEF LoadRecords
<1>2. load' \in LoadRecords
    BY <1>1
<1>3. load'.account = load.account
    BY DEF LoadRecords
<1> QED BY <1>2, <1>3, WindowAssumption

\* A mailbox's version only rises unless its mail is erased under the window,
\* and every rise is reported.
LEMMA VersionsReported ==
    ASSUME ShownInv, TypedInv, HeldInv, [Next]_vars, NEW m \in Mailboxes, selection = m,
           selection' = m, ~Overtaken(m)'
    PROVE  versions[m] <= versions'[m] /\ (versions'[m] # versions[m] => Reported(m)')
<1>0. versions[m] \in Nat /\ versions[m] <= versions[m]
    BY DEF TypedInv, StoreTyped
<1>1. CASE UNCHANGED <<versions, folders, overtaken>>
    BY <1>0, <1>1
<1>2. ASSUME NEW j \in pool, FlagWritten(j)
      PROVE  versions[m] <= versions'[m] /\ Reported(m)'
    <2>1. PICK changed : versions' = Raised(changed)
        BY <1>2 DEF FlagWritten
    <2>2. versions[m] <= versions'[m]
        BY <1>0, <2>1 DEF Raised
    <2>3. [j EXCEPT !.at = "done"] \in pool'
        BY <1>2 DEF FlagWritten, Ends
    <2>4. [j EXCEPT !.at = "done"].job = "flag" /\ [j EXCEPT !.at = "done"].at = "done"
        BY <1>2, JobsAreNamed DEF FlagWritten, FlagWrites
    <2> QED BY <2>2, <2>3, <2>4 DEF Reported, FlagLanded
<1>3. ASSUME NEW j \in pool, AccountsDeleted(j) PROVE versions'[m] = versions[m]
    <2>1. m.account \in shown
        BY DEF TypedInv, SidebarTyped
    <2>2. overtaken' = overtaken \union (shown \ j.keeps)
        BY <1>3 DEF AccountsDeleted
    <2>3. m.account \in j.keeps
        BY <2>1, <2>2 DEF Overtaken
    <2> QED BY <1>3, <2>3 DEF AccountsDeleted
<1>4. ASSUME load # Nothing, NEW changed \in SUBSET Of(load.account),
             BatchStored(changed) \/ WishRefused(changed)
      PROVE  versions[m] <= versions'[m] /\ (versions'[m] # versions[m] => Reported(m)')
    <2>1. versions' = Raised(changed) /\ Loading
        BY <1>4 DEF BatchStored, WishRefused, MayWrite
    <2>2. versions[m] <= versions'[m] /\ (versions'[m] # versions[m] => m \in changed)
        BY <1>0, <2>1 DEF Raised
    <2>3. load \in LoadRecords
        BY <1>4 DEF TypedInv, LoadInv
    <2>4. load' # Nothing /\ load'.account = load.account
        BY <1>4, <2>3, LoadGoesOn DEF BatchStored, WishRefused, window
    <2>5. \E i \in 1..Len(events') : events'[i] = "StoreChanged"
        <3>1. events \in Seq({"StoreChanged"} \union Results)
            BY DEF TypedInv, LoadInv
        <3>2. CASE BatchStored(changed)
            <4>1. events' = Append(events, "StoreChanged")
                BY <3>2 DEF BatchStored
            <4>2. Len(events') = Len(events) + 1 /\ events'[Len(events')] = "StoreChanged"
                BY <3>1, <4>1
            <4>3. Len(events) \in Nat
                BY <3>1
            <4> QED BY <4>2, <4>3
        <3>3. CASE WishRefused(changed)
            <4>1. events' = events \o <<"StoreChanged", "Failed">>
                BY <3>3 DEF WishRefused
            <4>2. <<"StoreChanged", "Failed">> \in Seq({"StoreChanged"} \union Results)
                BY DEF Results
            <4>3. /\ Len(events') = Len(events) + 2 /\ Len(events) \in Nat
                  /\ events'[Len(events) + 1] = "StoreChanged"
                BY <3>1, <4>1, <4>2
            <4> QED BY <4>3
        <3> QED BY <1>4, <3>2, <3>3
    <2>6. m \in changed => m.account = load.account
        BY <1>4 DEF Of
    <2> QED BY <2>2, <2>4, <2>5, <2>6 DEF Reported, StoreReported
<1>5. ASSUME NEW changed, FoldersReplaced(changed) PROVE versions'[m] = versions[m]
    <2>1. mailbox.folder = m
        BY DEF HeldInv
    <2>2. m \notin folders[load.account] \ changed
        BY <1>5, <2>1 DEF FoldersReplaced, Overtaken
    <2> QED BY <1>5, <2>2 DEF FoldersReplaced
<1> QED BY <1>0, OtherStepsKeepTheStore, <1>1, <1>2, <1>3, <1>4, <1>5 DEF StoreWritten

\* A flag write that landed is there until its answer makes the window read.
LEMMA LandedStands ==
    ASSUME ShownInv, [Next]_vars, FlagLanded(pool)
    PROVE  FlagLanded(pool') \/ RowsAgain
<1> PICK landed \in pool : landed.job = "flag" /\ landed.at = "done"
    BY DEF FlagLanded
<1>0. landed \in pool' => FlagLanded(pool')
    BY DEF FlagLanded
<1>1. CASE User
    <2>1. ASSUME NEW choice, Select(choice) PROVE landed \in pool'
        BY <2>1 DEF Select, ReadShown
    <2>2. CASE Collapse \/ ReadStoredMail \/ FilterToggled
        BY <1>0, <2>2 DEF Collapse, ReadStoredMail, FilterToggled, ReadShown
    <2>3. CASE ChangeFlag
        BY <1>0, <2>3 DEF ChangeFlag, WriteFlag
    <2>4. ASSUME NEW target, StartLoad(target) PROVE landed \in pool'
        BY <2>4 DEF StartLoad
    <2> QED BY <1>0, <1>1, <2>1, <2>2, <2>3, <2>4 DEF User
<1>2. CASE Window
    <2>1. ASSUME NEW now, NEW keeps, ApplyUpdate(now, keeps) PROVE landed \in pool'
        BY <2>1 DEF ApplyUpdate
    <2>2. CASE StoreChangedDelivered
        BY <1>0, <2>2 DEF StoreChangedDelivered, ReadShownAgain, ReadShown
    <2>3. CASE FinishLoad
        BY <1>0, <2>3 DEF FinishLoad, ReadShownAgain, ReadShown
    <2>4. ASSUME NEW j, RowsAnswered(j) PROVE landed \in pool'
        <3>1. j # landed
            BY <2>4 DEF RowsAnswered, RowsReads
        <3>2. \/ pool' = pool \ {j}
              \/ ReadShownAgain([FinishRead(mailbox, j) EXCEPT !.due = FALSE], pool \ {j})
            BY <2>4 DEF RowsAnswered
        <3> QED BY <3>1, <3>2 DEF ReadShownAgain, ReadShown
    <2>5. ASSUME NEW j, ListsAnswered(j) PROVE landed \in pool'
        BY <2>5 DEF ListsAnswered, ListReads
    <2>6. ASSUME NEW j, FlagAnswered(j) PROVE landed \in pool' \/ RowsAgain
        <3> DEFINE next == IF Len(flag_writes) > 1 THEN {FlagJob(flag_writes[2])} ELSE {}
                   jobs == (pool \ {j}) \union next
        <3>1. selection' = selection /\ j.job = "flag"
            BY <2>6 DEF FlagAnswered, FlagWrites, sidebar
        <3>2. CASE j.at = "done"
            <4>1. ReadShownAgain(mailbox, jobs)
                BY <2>6, <3>2 DEF FlagAnswered
            <4>2. Kind(jobs, "rows") = RowsReads
                BY <3>1 DEF Kind, FlagJob, RowsReads
            <4> HIDE DEF jobs
            <4> QED BY <3>1, <4>1, <4>2 DEF RowsAgain
        <3>3. CASE j.at # "done"
            BY <2>6, <3>3 DEF FlagAnswered
        <3> QED BY <3>2, <3>3
    <2> QED BY <1>0, <1>2, <2>1, <2>2, <2>3, <2>4, <2>5, <2>6 DEF Window
<1>3. CASE Pool
    BY <1>0, <1>3 DEF Pool, JobFails, RowsRead, ListsRead, FlagWritten, AccountsDeleted, Ends,
       RowsReads, ListReads, FlagWrites, Deletions
<1>4. CASE Worker \/ UNCHANGED vars
    BY <1>0, <1>4 DEF Worker, BatchStored, WishRefused, FoldersReplaced, LoadEnds, vars
<1> QED BY <1>1, <1>2, <1>3, <1>4 DEF Next

\* An event of a change stands until it makes the window read.
LEMMA StoreReportStands ==
    ASSUME TypedInv, [Next]_vars, NEW m \in Mailboxes, selection = m, StoreReported(m.account)
    PROVE  StoreReported(m.account)' \/ RowsAgain
<1>0. PICK i \in 1..Len(events) : events[i] = "StoreChanged"
    BY DEF StoreReported
<1>1. /\ load \in LoadRecords /\ events \in Seq({"StoreChanged"} \union Results)
      /\ load # Nothing /\ load.account = m.account
    BY DEF StoreReported, TypedInv, LoadInv
<1>2. CASE UNCHANGED <<load, events>>
    BY <1>2 DEF StoreReported
<1>3. ASSUME NEW target, StartLoad(target) PROVE FALSE
    BY <1>3 DEF StartLoad, StoreReported
<1>4. ASSUME NEW now, NEW keeps, ApplyUpdate(now, keeps) PROVE StoreReported(m.account)'
    <2>1. events' = events /\ (load' = load \/ load' = [load EXCEPT !.cancelled = TRUE])
        BY <1>4 DEF ApplyUpdate
    <2>2. load' # Nothing /\ load'.account = load.account
        BY <2>1, <1>1, LoadGoesOn
    <2> QED BY <2>1, <2>2 DEF StoreReported
<1>5. CASE StoreChangedDelivered
    BY <1>1, <1>5, KindsOfReads DEF StoreChangedDelivered, sidebar, RowsAgain
<1>6. CASE FinishLoad
    <2>1. Head(events) \in Results
        BY <1>6 DEF FinishLoad
    <2>2. 1 \in 1..Len(events) /\ events[1] \in Results
        BY <2>1, <1>0, <1>1
    <2>3. i = 1
        BY <2>2, <1>1 DEF TypedInv, LoadInv
    <2> QED BY <2>2, <2>3, <1>0 DEF Results
<1>7. ASSUME \/ \E changed : \/ BatchStored(changed) \/ WishRefused(changed)
                             \/ FoldersReplaced(changed)
             \/ \E result \in Results : LoadEnds(result)
      PROVE  StoreReported(m.account)'
    <2>1. load' = load \/ load' = [load EXCEPT !.ended = TRUE]
        BY <1>7 DEF BatchStored, WishRefused, FoldersReplaced, LoadEnds, window
    <2>2. load' # Nothing /\ load'.account = load.account
        BY <2>1, <1>1, LoadGoesOn
    <2>3. PICK more \in Seq({"StoreChanged"} \union Results) : events' = events \o more
        <3>1. \A event : Append(events, event) = events \o <<event>>
            BY <1>1
        <3>2. /\ <<"StoreChanged">> \in Seq({"StoreChanged"} \union Results)
              /\ <<"Stored">> \in Seq({"StoreChanged"} \union Results)
              /\ <<"StoreChanged", "Failed">> \in Seq({"StoreChanged"} \union Results)
              /\ \A result \in Results : <<result>> \in Seq({"StoreChanged"} \union Results)
            BY DEF Results
        <3> QED BY <1>7, <3>1, <3>2 DEF BatchStored, WishRefused, FoldersReplaced, LoadEnds
    <2>4. i \in 1..Len(events') /\ events'[i] = events[i]
        BY <1>0, <1>1, <2>3
    <2> QED BY <1>0, <1>1, <2>2, <2>4 DEF StoreReported
<1> QED BY OtherStepsKeepTheLoad, <1>2, <1>3, <1>4, <1>5, <1>6, <1>7 DEF LoadStep

\* A report stands until the window reads the mailbox's rows.
LEMMA ReportStands ==
    ASSUME ShownInv, TypedInv, [Next]_vars, NEW m \in Mailboxes, selection = m, Reported(m)
    PROVE  Reported(m)' \/ RowsAgain
<1>1. (FlagLanded(pool))' <=> FlagLanded(pool')
    BY DEF FlagLanded
<1> QED BY <1>1, LandedStands, StoreReportStands DEF Reported

\* After the latest read's answer the rows held are current, or read again.
LEMMA TakenRowsAreCurrent ==
    ASSUME HeldInv, NEW j, RowsTaken(j), selection \in Mailboxes, NEW version \in Nat, NEW seen,
           NEW reported, CurrentRows(mailbox, RowsReads, seen, version, reported)
    PROVE  CurrentRows(mailbox', RowsReads', seen, version, reported)
<1> DEFINE box == FinishRead(mailbox, j)
           again == [box EXCEPT !.due = FALSE]
<1>1. /\ j \in RowsReads /\ j.at # "waits" /\ IsLatestRows(j)
      /\ Kind(pool \ {j}, "rows") = RowsReads \ {j}
      /\ \/ box.due /\ ReadShownAgain(again, pool \ {j})
         \/ ~box.due /\ mailbox' = box /\ pool' = pool \ {j}
    BY TakenSteps
<1>2. /\ Numbered(box, RowsReads \ {j}) /\ ~IsReading(box) /\ box.due = mailbox.due
      /\ CurrentRows(box, RowsReads \ {j}, seen, version, reported \/ mailbox.due)
    BY <1>1, FinishedIsIdle, FinishedIsCurrent
<1> HIDE DEF box
<1>3. CASE box.due /\ ReadShownAgain(again, pool \ {j})
    <2>1. /\ Numbered(again, RowsReads \ {j})
          /\ again.latest = box.latest /\ again.state = box.state /\ again.found = box.found
        BY <1>2, NothingDueNumbered
    <2> HIDE DEF again
    <2>2. \A k \in RowsReads \ {j} : k.number # box.latest
        BY <1>2 DEF Numbered
    <2>3. CurrentRows(again, RowsReads \ {j}, seen, version, TRUE)
        BY <1>2, <2>1, <2>2 DEF CurrentRows
    <2>4. CurrentRows(mailbox', RowsReads', seen, version, FALSE)
        BY <1>1, <1>3, <2>1, <2>3, ReadAgainIsCurrent
    <2> QED BY <2>4 DEF CurrentRows
<1>4. CASE ~box.due /\ mailbox' = box /\ pool' = pool \ {j}
    <2>1. RowsReads' = RowsReads \ {j}
        BY <1>4 DEF RowsReads
    <2> QED BY <1>2, <1>4, <2>1 DEF CurrentRows
<1> QED BY <1>1, <1>3, <1>4

\* The rows of a mailbox that stays selected, with what the step reports.
LEMMA StepKeepsRowsCurrent ==
    ASSUME ShownInv, TypedInv, HeldInv, [Next]_vars, NEW m \in Mailboxes, selection = m,
           selection' = m, NEW seen, NEW version \in Nat, NEW newer \in Nat, NEW reported,
           NEW after, version = versions[m], newer = versions'[m],
           CurrentRows(mailbox, RowsReads, seen, version, reported),
           version <= newer, newer # version => after, reported => after \/ RowsAgain
    PROVE  CurrentRows(mailbox', RowsReads', seen, newer, after)
<1>0. /\ Numbered(mailbox, RowsReads) /\ mailbox.folder = m /\ seen \in 0..version
      /\ DOMAIN mailbox = MailboxFields
    BY DEF HeldInv, CurrentRows, Numbered
<1>1. CASE RowsStarted
    <2>1. PICK jobs : ReadShown(mailbox, jobs, m) /\ Kind(jobs, "rows") = RowsReads
        BY <1>1 DEF RowsStarted
    <2>2. seen \in 0..newer
        BY <1>0
    <2>3. CurrentRows(mailbox', RowsReads', seen, newer, FALSE)
        BY <1>0, <2>1, <2>2, StartedRowsAreCurrent
    <2> QED BY <2>3 DEF CurrentRows
<1>2. CASE RowsAgain
    <2>1. PICK jobs : ReadShownAgain(mailbox, jobs) /\ Kind(jobs, "rows") = RowsReads
        BY <1>2 DEF RowsAgain
    <2>2. CurrentRows(mailbox, RowsReads, seen, newer, TRUE)
        BY <1>0, CurrentWhenReported
    <2>3. CurrentRows(mailbox', RowsReads', seen, newer, FALSE)
        BY <1>0, <2>1, <2>2, ReadAgainIsCurrent
    <2> QED BY <2>3 DEF CurrentRows
<1>3. ASSUME ~RowsAgain, RowsKept PROVE CurrentRows(mailbox', RowsReads', seen, newer, after)
    <2>1. mailbox' = mailbox /\ RowsReads' \subseteq RowsReads
        BY <1>3 DEF RowsKept
    <2> QED BY <1>0, <1>3, <2>1, CurrentWhenReported
<1>4. CASE RowsForgotten
    BY <1>4 DEF RowsForgotten
<1>5. ASSUME ~RowsAgain, NEW target, StartLoad(target)
      PROVE  CurrentRows(mailbox', RowsReads', seen, newer, after)
    <2>1. mailbox' = ForgetReadFailure(mailbox) /\ RowsReads' = RowsReads
        BY <1>5 DEF StartLoad, RowsReads
    <2>2. CurrentRows(mailbox, RowsReads, seen, newer, after)
        BY <1>0, <1>5, CurrentWhenReported
    <2>3. /\ mailbox'.latest = mailbox.latest /\ mailbox'.due = mailbox.due
          /\ mailbox'.state = "Read" => mailbox' = mailbox
        BY <1>0, <2>1 DEF ForgetReadFailure, MailboxFields
    <2>4. mailbox.state = "Read" => mailbox' = mailbox
        BY <2>1 DEF ForgetReadFailure
    <2> QED BY <2>1, <2>2, <2>3, <2>4 DEF CurrentRows
<1>6. ASSUME ~RowsAgain, NEW j, RowsEnded(j)
      PROVE  CurrentRows(mailbox', RowsReads', seen, newer, after)
    <2>1. PICK done : /\ RowsReads' = (RowsReads \ {j}) \union {done}
                      /\ RowsTyped(done, mailbox.latest) /\ done.number = j.number
                      /\ \/ done.at = "failed"
                         \/ /\ done.at = "done" /\ done.list = versions[j.folder]
                            /\ UNCHANGED <<versions, load, events, overtaken>>
        BY <1>6, EndedRows DEF TypedInv
    <2>2. mailbox' = mailbox /\ j \in RowsReads
        BY <1>6 DEF RowsEnded
    <2>3. CurrentRows(mailbox, RowsReads, seen, newer, after)
        BY <1>0, <1>6, CurrentWhenReported
    <2>4. ASSUME done.number = mailbox.latest, done.at = "done"
          PROVE  done.list = newer
        <3>1. j.folder = m
            BY <1>0, <2>1, <2>2, <2>4 DEF ShownInv, ReadsFollow, JobsFollow, JobFollows, RowsReads
        <3> QED BY <2>1, <2>4, <3>1
    <2>5. /\ seen <= newer /\ newer <= newer
          /\ mailbox.state = "Read" => mailbox.found.list <= newer
        BY <2>3 DEF CurrentRows
    <2> QED BY <2>1, <2>2, <2>3, <2>4, <2>5 DEF CurrentRows
<1>7. ASSUME ~RowsAgain, NEW j, RowsTaken(j)
      PROVE  CurrentRows(mailbox', RowsReads', seen, newer, after)
    <2>1. CurrentRows(mailbox, RowsReads, seen, newer, after)
        BY <1>0, <1>7, CurrentWhenReported
    <2> QED BY <1>7, <2>1, TakenRowsAreCurrent
<1> QED BY RowsReadsSteps, <1>1, <1>2, <1>3, <1>4, <1>5, <1>6, <1>7 DEF RowsStep

\* What is on screen is current for the mailbox and the store after a step.
LEMMA SeenStaysCurrent ==
    ASSUME ShownInv, TypedInv, TypedInv', HeldInv, RowsInv, [Next]_vars, NEW m \in Mailboxes,
           selection = m, selection' = m, ~Overtaken(m)'
    PROVE  CurrentRows(mailbox', RowsReads', Seen, versions'[m], Reported(m)')
<1> DEFINE newer == versions'[m]
           after == Reported(m)'
<1>1. newer \in Nat /\ versions[m] \in Nat
    BY DEF TypedInv, StoreTyped
<1>2. ~Overtaken(m)
    <2>1. overtaken \subseteq overtaken'
        BY FoldersReported
    <2> QED BY <2>1 DEF Overtaken
<1>3. CurrentRows(mailbox, RowsReads, Seen, versions[m], Reported(m))
    BY <1>2 DEF RowsInv
<1>4. versions[m] <= newer /\ (newer # versions[m] => after)
    BY VersionsReported
<1>5. Reported(m) => after \/ RowsAgain
    BY ReportStands
<1> HIDE DEF newer, after
<1>6. PICK version, seen, reported :
          version \in Nat /\ version = versions[m] /\ seen = Seen /\ reported = Reported(m)
    BY <1>1
<1>7. CurrentRows(mailbox', RowsReads', seen, newer, after)
    BY <1>1, <1>3, <1>4, <1>5, <1>6, StepKeepsRowsCurrent DEF newer
<1> QED BY <1>6, <1>7 DEF newer, after

LEMMA RowsInvKept ==
    ASSUME ShownInv, TypedInv, TypedInv', HeldInv, HeldInv', ScreenInv', RowsInv, [Next]_vars
    PROVE  RowsInv'
<1> SUFFICES ASSUME NEW m \in Mailboxes, selection' = m, ~Overtaken(m)'
             PROVE  CurrentRows(mailbox', RowsReads', Seen', versions'[m], Reported(m)')
    BY DEF RowsInv, Overtaken, Reported, FlagLanded, StoreReported
<1> DEFINE newer == versions'[m]
           after == Reported(m)'
<1>1. newer \in Nat
    BY DEF TypedInv, StoreTyped
<1>2. CASE selection # m
    <2>1. RowsStarted
        BY <1>2, RowsReadsSteps
           DEF RowsStep, RowsKept, RowsForgotten, RowsAgain, StartLoad, RowsEnded, RowsTaken,
               RowsAnswered, sidebar
    <2>2. PICK jobs : ReadShown(mailbox, jobs, m) /\ Kind(jobs, "rows") = RowsReads
        BY <2>1 DEF RowsStarted
    <2>3. Seen' = NotLoaded
        BY <1>2, <2>2, StartedSeen
    <2>4. Seen' \in 0..newer
        BY <1>1, <2>3 DEF NotLoaded
    <2>5. Numbered(mailbox, Kind(jobs, "rows"))
        BY <2>2 DEF HeldInv
    <2> HIDE DEF newer
    <2>6. PICK seen : seen = Seen'
        OBVIOUS
    <2>7. CurrentRows(mailbox', RowsReads', seen, newer, FALSE)
        BY <1>1, <2>2, <2>4, <2>5, <2>6, StartedRowsAreCurrent
    <2> QED BY <2>6, <2>7 DEF CurrentRows, newer
<1>3. CASE selection = m
    <2>1. CurrentRows(mailbox', RowsReads', Seen, newer, after)
        BY <1>3, SeenStaysCurrent
    <2>2. Numbered(mailbox', RowsReads')
        BY DEF HeldInv
    <2> HIDE DEF newer, after
    <2>3. PICK seen : seen = Seen
        OBVIOUS
    <2>4. CurrentRows(mailbox', RowsReads', Seen', newer, after)
        BY <1>1, <2>1, <2>2, <2>3, SeenSteps, CurrentWhenSeen
    <2> QED BY <2>4 DEF newer, after
<1> QED BY <1>2, <1>3

\* The inductive invariant of the rows: what is seen is no newer than what was
\* found, nor that than the store, and what is older than the store is read
\* again or reported: by a flag write that landed or an event on its way.
THEOREM RowsInvariant == Spec => []RowsInv
<1>1. Init => RowsInv
    BY WindowAssumption DEF Init, RowsInv
<1>2. /\ ShownInv /\ TypedInv /\ TypedInv' /\ HeldInv /\ HeldInv' /\ ScreenInv' /\ RowsInv
      /\ [Next]_vars
      => RowsInv'
    BY RowsInvKept
<1> QED BY <1>1, <1>2, ShownInvariant, TypedInvariant, HeldInvariant, ScreenInvariant, PTL
        DEF Spec

\* Nothing on its way leaves nothing reported and no read waited for.
LEMMA RestIsIdle ==
    ASSUME QueueInv, HeldInv, AtRest, NEW m
    PROVE  ~Reported(m) /\ ~IsReading(mailbox)
<1>1. ~FlagLanded(pool)
    BY DEF AtRest, FlagLanded, QueueInv, OnlyTheHeadIsWritten, IsHeadJob
<1>2. ~StoreReported(m.account)
    BY DEF AtRest, StoreReported
<1>3. ~IsReading(mailbox)
    BY DEF AtRest, HeldInv, Numbered
<1> QED BY <1>1, <1>2, <1>3 DEF Reported

LEMMA RestIsCurrent ==
    ShownInv /\ QueueInv /\ TypedInv /\ HeldInv /\ ScreenInv /\ AwaitedInv /\ RowsInv
    => ListIsCurrentAtRest
<1> SUFFICES ASSUME ShownInv, QueueInv, TypedInv, HeldInv, ScreenInv, AwaitedInv, RowsInv,
                    AtRest, NEW m \in Mailboxes, selection = m, ~Overtaken(m)
             PROVE  /\ Page \notin {"Reading", "ReadingAgain"}
                    /\ Page = "Messages" => screen.rows.list = versions[m]
                    /\ Page = "Empty"    => versions[m] \in EmptyVersions
                    /\ Page = "NoMail"   => versions[m] = NotLoaded
    BY DEF ListIsCurrentAtRest
<1>1. ~Reported(m) /\ ~IsReading(mailbox)
    BY RestIsIdle
<1>2. mailbox.folder = m /\ mailbox.state \in {"NotRead", "Read", "ReadFailed"}
    BY <1>1 DEF HeldInv, Numbered, IsReading, States
<1>3. mailbox.state = "Read" => mailbox.found.list = versions[m]
    BY <1>1 DEF RowsInv, CurrentRows
<1>4. Page \notin {"Reading", "ReadingAgain"}
    BY <1>2, PageShowsReading
<1>5. Page = "Messages" => screen.rows.list = versions[m]
    BY <1>3, PageShowsMessages DEF ScreenInv
<1>6. Page = "Empty" => versions[m] \in EmptyVersions
    BY <1>2, <1>3 DEF Page, HasRows
<1>7. ASSUME Page = "NoMail" PROVE versions[m] = NotLoaded
    <2>1. m # Nothing /\ SelectedAccount = m.account
        BY WindowAssumption DEF SelectedAccount
    <2>2. ~Awaited(m)
        <3>1. /\ ~(/\ load # Nothing /\ load.account = m.account
                   /\ load.target \in {FolderList, m})
              /\ failed[m.account] \notin {FolderList, m}
            BY <1>2, <1>7, <2>1 DEF Page
        <3> QED BY <3>1 DEF Awaited
    <2>3. mailbox.state = "Read"
        <3>1. mailbox.state # "NotRead"
            BY <1>2, <2>2 DEF AwaitedInv
        <3>2. mailbox.state # "ReadFailed"
            BY <1>2, <1>7, <2>1 DEF Page
        <3> QED BY <1>2, <3>1, <3>2
    <2>4. mailbox.found.list = NotLoaded
        BY <1>2, <1>7, <2>1, <2>3 DEF Page
    <2> QED BY <1>3, <2>3, <2>4
<1> QED BY <1>4, <1>5, <1>6, <1>7

\* Once nothing is on its way, the list area shows what the store has of the
\* selected mailbox, or says what failed, or that it loads.
THEOREM ListCurrent == Spec => []ListIsCurrentAtRest
BY RestIsCurrent, ShownInvariant, QueueInvariant, TypedInvariant, HeldInvariant, ScreenInvariant,
   AwaitedInvariant, RowsInvariant, PTL

\* The rows of a step that fills the list area are no older than those it showed.
LEMMA FilledIsNoOlder ==
    ASSUME ShownInv, ShownInv', TypedInv, TypedInv', HeldInv, RowsInv, [Next]_vars,
           screen # Nothing, screen' # Nothing, screen'.folder = screen.folder,
           ~Overtaken(screen.folder)
    PROVE  screen'.rows.list >= screen.rows.list
<1>1. PICK m \in Mailboxes : m = screen.folder /\ selection = m /\ selection' = m
    BY DEF ShownInv, ScreenFollows, ShowsSelectedMailbox
<1>2. Seen = screen.rows.list /\ Seen \in Nat
    <2>1. CurrentRows(mailbox, RowsReads, Seen, versions[m], Reported(m))
        BY <1>1 DEF RowsInv
    <2>2. versions[m] \in Nat
        BY DEF TypedInv, StoreTyped
    <2> QED BY <2>1, <2>2 DEF CurrentRows, Seen
<1>3. CASE screen' = screen
    BY <1>2, <1>3
<1>4. CASE mailbox'.state = "Read" /\ screen' = [folder |-> selection', rows |-> mailbox'.found]
    <2>1. CASE overtaken' = overtaken
        <3>1. ~Overtaken(m)'
            BY <1>1, <2>1 DEF Overtaken
        <3>2. CurrentRows(mailbox', RowsReads', Seen, versions'[m], Reported(m)')
            BY <1>1, <3>1, SeenStaysCurrent
        <3>3. Numbered(mailbox', RowsReads')
            BY HeldKept DEF HeldInv
        <3>4. mailbox'.found.list \in Nat /\ Seen <= mailbox'.found.list
            BY <1>4, <3>2, <3>3 DEF CurrentRows, Numbered
        <3> QED BY <1>2, <1>4, <3>4
    <2>2. CASE overtaken' # overtaken
        <3>1. screen' = screen
            BY <2>2, OtherStepsKeepTheStore
               DEF StoreWritten, FlagWritten, AccountsDeleted, BatchStored, WishRefused,
                   FoldersReplaced, window
        <3> QED BY <1>2, <3>1
    <2> QED BY <2>1, <2>2
<1> QED BY ScreenSteps, <1>3, <1>4

\* What the user sees of a mailbox never goes back to an older reading, unless
\* its mail was erased under it.
THEOREM ListNeverBack == Spec => ListNeverGoesBack
<1>1. ShownInv /\ ShownInv' /\ TypedInv /\ TypedInv' /\ HeldInv /\ RowsInv /\ [Next]_vars =>
          [/\ screen # Nothing /\ screen' # Nothing /\ screen'.folder = screen.folder
           /\ ~Overtaken(screen.folder)
           => screen'.rows.list >= screen.rows.list]_vars
    BY FilledIsNoOlder
<1> QED BY <1>1, ShownInvariant, TypedInvariant, HeldInvariant, RowsInvariant, PTL
        DEF Spec, ListNeverGoesBack
=============================================================================
