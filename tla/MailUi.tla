-------------------------------- MODULE MailUi --------------------------------
(***************************************************************************)
(* The message list and the reader (crates/mailbag/src/mail_ui.rs and      *)
(* mail_ui/message_item.rs): the list follows each read of the stored rows *)
(* while rows still close and open, the user opens, filters and trashes    *)
(* them, and the answers of content reads come late.                       *)
(*                                                                         *)
(* All of it runs on the GTK thread; an action is one callback: a call of  *)
(* the window, a click, a timer or a drawn frame.  The operators take and  *)
(* return the widget's state as the methods change it.                     *)
(***************************************************************************)
EXTENDS Naturals, Sequences, FiniteSets, Functions

CONSTANTS
    Folder,         \* the folders, records with their account
    Identities,     \* message identities, in the order folders list them
    RowChoices,     \* per folder, the rows a read may find of each identity
    Nothing,        \* Option::None
    MaxReads,       \* bound: reads of stored rows the window shows
    MaxRequests     \* bound: content reads not answered yet

ASSUME MailUiAssumption ==
    /\ Identities \in Seq(Range(Identities)) /\ Nothing \notin Range(Identities)
    /\ DOMAIN RowChoices = Folder
    /\ \A f \in Folder : \A id \in DOMAIN RowChoices[f] :
          /\ id \in Range(Identities)
          /\ \A row \in RowChoices[f][id] :
                row.identity = id /\ {row.seen, row.flagged} \subseteq BOOLEAN
    /\ MaxReads \in Nat /\ MaxRequests \in Nat

VARIABLES
    ui,             \* the fields of MailUi
    reads           \* how many reads were shown

uivars == <<ui, reads>>

Changes == {"AtOnce", "Animated"}

Identity == Range(Identities)

\* A message, whatever the folder that lists it.
Message(account, id) == [account |-> account, identity |-> id]

\* The messages and the rows of the folders, and what a read of one finds.
Messages   == [account : {f.account : f \in Folder}, identity : Identity]
StoredRows == UNION {UNION Range(RowChoices[f]) : f \in Folder}
RowReads   == [folder : Folder, rows : Seq(StoredRows)]

ASSUME NothingAssumption == Nothing \notin Messages \union RowReads

\* A row object: the row it was made from, of which account; the read state
\* and star it shows; whether it is open; and in how many frames callbacks
\* will open it.
Item(account, row, shown) ==
    [row |-> row, account |-> account, unread |-> ~row.seen, starred |-> row.flagged,
     shown |-> shown, opens_in |-> {}]

\* A row apart from its read state and star, which change in place.
ListsSameMessage(item, row) ==
    item.row.identity = row.identity /\ item.row.look = row.look

UiInit ==
    /\ ui = [listed |-> Nothing,            \* the folder shown and its latest rows
             items |-> <<>>,                \* the list's row objects
             unread_only |-> FALSE,
             removed |-> {},                \* removed_in_window
             pending_change |-> FALSE,      \* the timer that changes the list is running
             open |-> Nothing,              \* the open message's identity
             read_timers |-> {},            \* running timers that mark read, by the
                                            \* message whose opening started them
             body |-> Nothing,              \* whose content the reader shows
             requests |-> {},               \* content reads not answered yet
             opened |-> Nothing,            \* history: the message the reader opened with
             unmarked |-> FALSE,            \* history: marked unread since that opening
             gone |-> Nothing]              \* history: the message an answer closed the
                                            \* reader for, until the list changes
    /\ reads = 0

Account(u) == u.listed.folder.account

PositionOf(items, id) == {p \in DOMAIN items : items[p].row.identity = id}

-----------------------------------------------------------------------------
(* The reader.                                                             *)

\* Mutant: the timer of an earlier opening goes on.
DropPendingReadForgetting(u) == u

DropPendingRead(u) == [u EXCEPT !.read_timers = {}]

\* The reader's widgets are hidden, with what they show.
CloseReader(u) ==
    [DropPendingRead(u) EXCEPT !.open = Nothing, !.body = Nothing,
                               !.opened = Nothing, !.unmarked = FALSE]

RequestContent(u, message) == [u EXCEPT !.requests = @ \union {message}]

\* Opens the row's message; a closing row is leaving the list.
OpenMessage(u, position) ==
    LET item    == u.items[position]
        message == Message(Account(u), item.row.identity)
    IN  IF u.listed = Nothing \/ ~item.shown THEN u
        ELSE RequestContent(
                [DropPendingRead(u) EXCEPT
                    !.open = item.row.identity, !.read_timers = @ \union {message},
                    !.body = Nothing, !.opened = message, !.unmarked = FALSE],
                message)

-----------------------------------------------------------------------------
(* The list.                                                               *)

\* Whether the list shows the row.
Shows(u, row) ==
    /\ row.identity \notin u.removed
    /\ u.unread_only => ~row.seen \/ u.open = row.identity

\* The latest rows that are shown, in their order.
ShownRows(u) ==
    LET rows == u.listed.rows
        First[n \in 0..Len(rows)] ==
            IF n = 0 THEN <<>>
            ELSE IF Shows(u, rows[n]) THEN Append(First[n - 1], rows[n])
            ELSE First[n - 1]
    IN  First[Len(rows)]

Leaves(item, rows) == \A row \in Range(rows) : ~ListsSameMessage(item, row)

\* Rows that start closing.
Leaving(items, rows) == {p \in DOMAIN items : items[p].shown /\ Leaves(items[p], rows)}

CloseLeavingRows(items, rows) ==
    [p \in DOMAIN items |->
        [items[p] EXCEPT !.shown = @ /\ p \notin Leaving(items, rows)]]

\* The row object of `row`: the listed one of the same message, or a new one,
\* closed when it arrives animated.
ItemFor(u, row, change) ==
    LET same == {p \in DOMAIN u.items : ListsSameMessage(u.items[p], row)}
    IN  IF same = {} THEN Item(Account(u), row, change = "AtOnce")
        ELSE [u.items[CHOOSE p \in same : TRUE] EXCEPT
                !.unread = ~row.seen, !.starred = row.flagged]

\* A closed row opens, on the second frame when animated.
Opened(item, change) ==
    IF item.shown THEN item
    ELSE IF change = "AtOnce" THEN [item EXCEPT !.shown = TRUE]
    ELSE [item EXCEPT !.opens_in = @ \union {2}]

\* Mutant: only the rows that come in are opened, not those that were closing
\* and are listed again.
ChangeListOpeningArrivals(u, rows, change) ==
    [u EXCEPT !.items =
        [p \in DOMAIN rows |->
            LET item == ItemFor(u, rows[p], change) IN
            IF item \in Range(u.items) THEN item ELSE Opened(item, change)]]

ChangeList(u, rows, change) ==
    [u EXCEPT !.items =
        [p \in DOMAIN rows |-> Opened(ItemFor(u, rows[p], change), change)]]

\* At once, the list changes now and no change is pending; animated, rows
\* that leave close first, and the wait starts again with each that does.
Changed(u, rows, change) ==
    IF change = "AtOnce"
    THEN ChangeList([u EXCEPT !.pending_change = FALSE], rows, change)
    ELSE LET closing == [u EXCEPT
                            !.items = CloseLeavingRows(@, rows),
                            !.pending_change = @ \/ Leaving(u.items, rows) # {}]
         IN  IF closing.pending_change THEN closing ELSE ChangeList(closing, rows, change)

\* `animates`: the list is on screen and the system's animations are on.
\* The open message stays open while it is listed.
UpdateShown(u, change, animates) ==
    LET rows    == ShownRows(u)
        changed == [Changed(u, rows, IF animates THEN change ELSE "AtOnce")
                       EXCEPT !.gone = Nothing]
    IN  IF u.listed = Nothing THEN u
        ELSE IF \/ u.open = Nothing
                \/ /\ \E row \in Range(rows) : row.identity = u.open
                   /\ PositionOf(changed.items, u.open) # {}
        THEN changed
        ELSE CloseReader(changed)

\* Empties the list and the reader.
Clear(u) ==
    IF u.listed = Nothing THEN u
    ELSE CloseReader([u EXCEPT !.items = <<>>, !.listed = Nothing])

-----------------------------------------------------------------------------
(* The window's calls.                                                     *)

\* The rows a read of a folder may find: of some of its messages, one each, in
\* the order of their identities.
Listings ==
    [folder \in Folder |->
        LET rows == UNION Range(RowChoices[folder])
            Before(row, other) ==
                \E i, j \in DOMAIN Identities :
                    i < j /\ Identities[i] = row.identity /\ Identities[j] = other.identity
        IN  UNION {
              {listing \in [1..n -> rows] :
                  \A p, q \in 1..n : p < q => Before(listing[p], listing[q])} :
              n \in 0..Len(Identities)}]

\* A new read of the folder's rows; the same read again changes nothing.  Only
\* changes within a folder are animated.
ShowRows(folder, rows, animates) ==
    LET same_folder  == ui.listed # Nothing /\ ui.listed.folder = folder
        same_account == ui.listed # Nothing /\ Account(ui) = folder.account
        kept         == IF same_account THEN ui ELSE Clear(ui)
    IN
    /\ animates => same_folder
    /\ reads < MaxReads /\ reads' = reads + 1
    /\ ui' = UpdateShown(
                [kept EXCEPT !.listed = [folder |-> folder, rows |-> rows],
                             !.removed = IF same_folder THEN @ ELSE {}],
                IF same_folder THEN "Animated" ELSE "AtOnce",
                animates)

ShowNoRows ==
    /\ ui.listed # Nothing
    /\ ui' = Clear(ui)
    /\ UNCHANGED reads

SetUnreadFilter(unread_only) ==
    /\ ui' = UpdateShown([ui EXCEPT !.unread_only = unread_only], "AtOnce", TRUE)
    /\ UNCHANGED reads

\* The message the reader shows.
OpenMessageOf(u) ==
    IF u.open = Nothing \/ u.listed = Nothing THEN Nothing
    ELSE Message(Account(u), u.open)

\* Mutant: the answer is taken for any open message of its identity.
IsForOpenByIdentity(u, message) == u.open = message.identity

IsForOpen(u, message) == OpenMessageOf(u) = message

\* A content read is answered: with what the reader shows, a text or why
\* there is none; or the store no longer holds the message.
ShowContent(message, held) ==
    /\ message \in ui.requests
    /\ LET u == [ui EXCEPT !.requests = @ \ {message}]
       IN  ui' = IF ~IsForOpen(ui, message) THEN u
                 ELSE IF held THEN [u EXCEPT !.body = message]
                 ELSE [CloseReader(u) EXCEPT !.gone = message.identity]
    /\ UNCHANGED reads

\* Retry of a failed content read.
ReadOpenContentAgain ==
    /\ OpenMessageOf(ui) # Nothing
    /\ ui' = RequestContent(ui, OpenMessageOf(ui))
    /\ UNCHANGED reads

-----------------------------------------------------------------------------
(* The user.                                                               *)

\* Under the filter the message open before, if read, leaves at once.
Activate(position) ==
    /\ position \in DOMAIN ui.items
    /\ ui' = IF ui.unread_only THEN UpdateShown(OpenMessage(ui, position), "AtOnce", TRUE)
             ELSE OpenMessage(ui, position)
    /\ UNCHANGED reads

\* Marking the open message unread stops the timer that would mark it read;
\* the other changes of flags are only handed to the window.
MarkUnread ==
    /\ ui.open # Nothing
    /\ ui' = [DropPendingRead(ui) EXCEPT !.unmarked = TRUE]
    /\ UNCHANGED reads

\* The row to open after the one at `position` leaves: the nearest row below
\* that is not closed, unless there is none or only the nearest one above is
\* unread.
NextAfterLeaving(items, position) ==
    LET above == {p \in DOMAIN items : p < position /\ items[p].shown}
        below == {p \in DOMAIN items : p > position /\ items[p].shown}
        nearest_above == CHOOSE p \in above : \A q \in above : q <= p
        nearest_below == CHOOSE p \in below : \A q \in below : p <= q
    IN  IF above = {} /\ below = {} THEN {}
        ELSE IF \/ below = {}
                \/ /\ above # {}
                   /\ items[nearest_above].unread /\ ~items[nearest_below].unread
        THEN {nearest_above}
        ELSE {nearest_below}

\* The row's trash button, of any row on screen, a closing one too.
RemoveInWindow(id, animates) ==
    LET at   == PositionOf(ui.items, id)
        next == NextAfterLeaving(ui.items, CHOOSE p \in at : TRUE)
        u    == [ui EXCEPT !.removed = @ \union {id}]
    IN
    /\ at # {}
    /\ ui' = UpdateShown(IF ui.open # id THEN u
                         ELSE IF next = {} THEN CloseReader(u)
                         ELSE OpenMessage(u, CHOOSE p \in next : TRUE),
                         "Animated", animates)
    /\ UNCHANGED reads

-----------------------------------------------------------------------------
(* Timers and frames.                                                      *)

\* Mutant: the timer that fired is still taken for a running one.
ChangeAfterClosingStillPending(animates) ==
    /\ ui.pending_change
    /\ ui' = UpdateShown(ui, "Animated", animates)
    /\ UNCHANGED reads

ChangeAfterClosing(animates) ==
    /\ ui.pending_change
    /\ UNCHANGED reads
    /\ \E u \in {[ui EXCEPT !.pending_change = FALSE]} :
          ui' = UpdateShown(u, "Animated", animates)

\* A second after the opening; an unread message's change is handed to the
\* window.
ReadTimer(message) ==
    /\ message \in ui.read_timers
    /\ ui' = [ui EXCEPT !.read_timers = @ \ {message}]
    /\ UNCHANGED reads

\* A row's callbacks run: on the second frame after it was closed, it opens.
Drawn(item) ==
    [item EXCEPT !.shown = @ \/ 1 \in item.opens_in,
                 !.opens_in = {n - 1 : n \in @ \ {1}}]

Frame ==
    /\ \E p \in DOMAIN ui.items : ui.items[p].opens_in # {}
    /\ ui' = [ui EXCEPT !.items = [p \in DOMAIN ui.items |-> Drawn(ui.items[p])]]
    /\ UNCHANGED reads

Step ==
    \/ \E folder \in Folder, animates \in BOOLEAN :
          \E rows \in Listings[folder] : ShowRows(folder, rows, animates)
    \/ ShowNoRows
    \/ \E unread_only \in BOOLEAN : SetUnreadFilter(unread_only)
    \/ \E message \in ui.requests, held \in BOOLEAN : ShowContent(message, held)
    \/ ReadOpenContentAgain
    \/ \E position \in DOMAIN ui.items : Activate(position)
    \/ MarkUnread
    \/ \E id \in Identity, animates \in BOOLEAN : RemoveInWindow(id, animates)
    \/ \E animates \in BOOLEAN : ChangeAfterClosing(animates)
    \/ \E message \in ui.read_timers : ReadTimer(message)
    \/ Frame

\* The window reads contents on threads of its own; MaxRequests bounds them.
FewRequests == Cardinality(ui'.requests) <= MaxRequests

UiNext == Step /\ FewRequests

UiSpec == UiInit /\ [][UiNext]_uivars

\* GLib's timers fire, and a list on screen is drawn.
FairSpec ==
    /\ UiSpec
    /\ WF_uivars(\E animates \in BOOLEAN : ChangeAfterClosing(animates))
    /\ WF_uivars(Frame)

-----------------------------------------------------------------------------
(* Correctness.                                                            *)

\* Without a change pending the list shows what the latest rows, the filter,
\* the open message and the window's own removals call for, in order and with
\* the rows' read states and stars; and every row that is still closed will be
\* opened by a frame.  No order of reads, removals, timers and frames leaves a
\* row out, keeps one or leaves one closed.  Only a message the store no
\* longer holds may stay listed under the filter, until the list changes.
ListFollowsRows ==
    ui.listed # Nothing /\ ~ui.pending_change =>
        LET expected == ShownRows(IF ui.gone = Nothing THEN ui ELSE [ui EXCEPT !.open = ui.gone])
        IN  /\ Len(ui.items) = Len(expected)
            /\ \A p \in DOMAIN expected :
                  LET item == ui.items[p] row == expected[p] IN
                  /\ ListsSameMessage(item, row)
                  /\ item.unread = ~row.seen /\ item.starred = row.flagged
                  /\ item.shown \/ item.opens_in # {}

\* The list and the reader are of one account, and the open message is in the
\* list: whatever is shown when a late answer comes, the reader never shows a
\* content of another message, nor a message of an account that is no longer
\* shown, whose identity may name another message there.
ReaderShowsListedMessage ==
    /\ \A p \in DOMAIN ui.items : ui.items[p].account = Account(ui)
    /\ ui.open # Nothing =>
          /\ ui.listed # Nothing
          /\ OpenMessageOf(ui) = ui.opened
          /\ PositionOf(ui.items, ui.open) # {}
          /\ ui.body \in {Nothing, ui.opened}

\* A timer that marks a message read was started by the opening of the message
\* still open, which the user has not marked unread since (specs/010 FR-009,
\* specs/011 FR-003).
ReadTimerIsOfOpenMessage ==
    ui.read_timers \subseteq {m \in {ui.opened} : OpenMessageOf(ui) = m /\ ~ui.unmarked}

\* Rows that close or are to open settle: no row stays half in the list.
ListSettles ==
    (ui.pending_change \/ \E p \in DOMAIN ui.items : ~ui.items[p].shown)
        ~> (~ui.pending_change /\ \A p \in DOMAIN ui.items : ui.items[p].shown)
=============================================================================
