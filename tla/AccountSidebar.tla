--------------------------- MODULE AccountSidebar ----------------------------
(***************************************************************************)
(* The account list and the tree of the sidebar                            *)
(* (crates/mailbag/src/accounts.rs and sidebar_ui.rs), which apply every   *)
(* update the observer of AccountObserver publishes.  The folder lists     *)
(* come from reads of the store, which answer whenever they do             *)
(* (WindowReads has their numbers).                                        *)
(*                                                                         *)
(* An account is the number of its place in the order of identities.  A    *)
(* label is a sequence: a name, then the numbers appended to it, which     *)
(* <<"Work", 2>> shows as "Work (2)", so that a name may equal a numbered  *)
(* one.                                                                    *)
(***************************************************************************)
EXTENDS AccountObserver, FiniteSets, Sequences, Functions

CONSTANTS
    Ids,            \* 1..n, the accounts Online Accounts may hold
    FolderLists,    \* the stored folder lists an account may have
    UnderAccount,   \* the parent of a folder without one; the account's own row
    NoSelection,    \* Option::None of the selection
    MaxChoices      \* bound: choices of the user and answers with folders

ASSUME SidebarAssumption ==
    /\ IsFiniteSet(Ids) /\ Ids = 1..Cardinality(Ids)
    /\ \A list \in Accounts :
          /\ DOMAIN list \subseteq Ids
          /\ \A a \in DOMAIN list : LET name == list[a].name IN
                Len(name) \in Nat /\ name = [i \in 1..Len(name) |-> name[i]]
    /\ MaxChoices \in Nat

VARIABLES
    rows,               \* visible_accounts
    selection,          \* a key, or NoSelection
    last_check,         \* of the update applied last
    excluded_reasons,
    next_label_number,
    nodes,              \* account_nodes: the folders an account's rows show,
                        \* and the rows among them the user collapsed
    choices             \* the bounded inputs so far

list_vars == <<rows, last_check, excluded_reasons, next_label_number>>
sidebar   == <<list_vars, selection, nodes, choices>>
allvars   == <<vars, sidebar>>

\* A row of the tree; the account's own has the identity UnderAccount.
Key(account, identity) == [account |-> account, identity |-> identity]

SidebarInit ==
    /\ Init
    /\ rows = <<>> /\ selection = NoSelection /\ last_check = "NotChecked"
    /\ excluded_reasons = {} /\ next_label_number = 1
    /\ nodes = <<>> /\ choices = 0

-----------------------------------------------------------------------------
(* AccountList::apply_update.                                              *)

\* mail_provider: only an account with a load sequence is shown.
Supported(details) == details.provider # "Other"

\* AccountRow::update_details.
RowDetails(row, details) ==
    [row EXCEPT !.base = details.name,
                !.problems = IF details.available THEN {} ELSE {"MailUnavailable"}]

\* Mutant: an account whose Mail is off gets a row.
ArrivingDisabled(accounts) ==
    {a \in DOMAIN accounts \ DOMAIN rows : Supported(accounts[a]) /\ accounts[a].available}

\* Accounts without a row yet, in the order of their accounts.
Arriving(accounts) ==
    {a \in DOMAIN accounts \ DOMAIN rows :
        Supported(accounts[a]) /\ accounts[a].mail_enabled /\ accounts[a].available}

\* A shown account stays while its Mail service is missing.
Remaining(accounts) ==
    {a \in DOMAIN accounts \intersect DOMAIN rows :
        Supported(accounts[a]) /\ accounts[a].mail_enabled}

\* hide_removed_or_disabled_accounts and update_visible_accounts.
UpdatedRows(accounts) ==
    LET arriving == Arriving(accounts)
        NewRow(a) == [base |-> <<>>, label |-> <<>>, problems |-> {},
                      number |-> next_label_number
                                 + Cardinality({b \in arriving : b < a})]
    IN  [a \in arriving \union Remaining(accounts) |->
            RowDetails(IF a \in arriving THEN NewRow(a) ELSE rows[a], accounts[a])]

Reasons(accounts) ==
    LET Reason(a) ==
            IF ~Supported(accounts[a]) THEN "UnsupportedProvider"
            ELSE IF ~accounts[a].mail_enabled THEN "MailDisabled"
            ELSE "MailUnavailable"
    IN  {Reason(a) : a \in DOMAIN accounts \ (Arriving(accounts) \union Remaining(accounts))}

\* The row's number appended until no row has the label.
Numbered(row, used) ==
    LET Label(k) == row.base \o [i \in 1..k |-> row.number]
    IN  Label(CHOOSE k \in 1..Cardinality(used) + 1 :
                 Label(k) \notin used /\ \A j \in 1..k - 1 : Label(j) \in used)

\* Mutant: only the labels given so far are avoided, not the other names.
LabelsUnaware(shown) ==
    LET Label[a \in DOMAIN shown] ==
            IF \E b \in DOMAIN shown \ {a} : shown[b].base = shown[a].base
            THEN Numbered(shown[a], {Label[b] : b \in {c \in DOMAIN shown : c < a}})
            ELSE shown[a].base
    IN  Label

\* An equal name gets the row's number, and no label that is a name of another
\* row or was given to a row before it.
Labels(shown) ==
    LET Label[a \in DOMAIN shown] ==
            IF \E b \in DOMAIN shown \ {a} : shown[b].base = shown[a].base
            THEN Numbered(shown[a], {shown[b].base : b \in DOMAIN shown}
                                        \union {Label[b] : b \in {c \in DOMAIN shown : c < a}})
            ELSE shown[a].base
    IN  Label

\* assign_display_labels.
DisplayLabels(shown) ==
    LET label == Labels(shown)
    IN  [a \in DOMAIN shown |-> [shown[a] EXCEPT !.label = label[a]]]

\* A check that did not complete only marks the rows.
MarkUnconfirmed ==
    /\ rows' = [a \in DOMAIN rows |->
                   [rows[a] EXCEPT !.problems = @ \union {"CheckUnconfirmed"}]]
    /\ UNCHANGED <<selection, excluded_reasons, next_label_number, nodes>>

-----------------------------------------------------------------------------
(* The tree.                                                               *)

\* The folders whose rows are shown: those under the account or a shown
\* folder, neither of them collapsed, and no others.
ShownFolders(listed, collapsed) ==
    LET Expanded(shown) == ({UnderAccount} \union {p.identity : p \in shown}) \ collapsed
    IN  {f \in listed :
            \A shown \in SUBSET listed :
                (\A g \in listed : g.parent \in Expanded(shown) => g \in shown) => f \in shown}

\* An account is a heading once it has a folder that can be opened.
IsHeading(node) == \E f \in node.listed : f.selectable

SelectableKeys(tree) ==
    {Key(a, UnderAccount) : a \in {b \in DOMAIN tree : ~IsHeading(tree[b])}}
        \union UNION {{Key(a, f.identity) :
                           f \in {g \in ShownFolders(tree[a].listed, tree[a].collapsed) :
                                     g.selectable}} : a \in DOMAIN tree}

\* The nodes of removed accounts go; an account that came has none of the
\* folders it may have had before.
UpdatedNodes(shown) ==
    [a \in shown |-> IF a \in DOMAIN nodes THEN nodes[a] ELSE [listed |-> {}, collapsed |-> {}]]

\* SidebarUi::apply_update of an account update.
ApplyUpdate(published) ==
    /\ last_check' = published.last_check
    /\ IF published.last_check # "Complete" THEN MarkUnconfirmed
       ELSE /\ excluded_reasons' = Reasons(published.accounts)
            /\ rows' = DisplayLabels(UpdatedRows(published.accounts))
            /\ next_label_number' = next_label_number + Cardinality(Arriving(published.accounts))
            /\ selection' = IF selection # NoSelection /\ selection.account \notin DOMAIN rows'
                            THEN NoSelection ELSE selection
            /\ nodes' = UpdatedNodes(DOMAIN rows')
    /\ UNCHANGED choices

\* The selection of the account, unless the tree no longer shows it or it can
\* no longer be selected.
SelectionWith(account, tree) ==
    IF selection # NoSelection /\ selection.account = account /\ selection \notin SelectableKeys(tree)
    THEN NoSelection ELSE selection

Choice == ~stopped /\ choices < MaxChoices /\ choices' = choices + 1

\* show_folders: an unchanged list keeps the rows; new rows are expanded, and
\* only the account's own row keeps what the user collapsed.
ShowFolders(account, folders) ==
    /\ Choice
    /\ account \in DOMAIN nodes /\ nodes[account].listed # folders
    /\ nodes' = [nodes EXCEPT ![account] =
                    [listed |-> folders, collapsed |-> @.collapsed \intersect {UnderAccount}]]
    /\ selection' = SelectionWith(account, nodes')
    /\ UNCHANGED <<vars, list_vars>>

\* select_at: a click or the keyboard reaches a row that can be selected.
Select(key) ==
    /\ Choice
    /\ key \in SelectableKeys(nodes) \ {selection} /\ selection' = key
    /\ UNCHANGED <<vars, list_vars, nodes>>

\* Mutant: only the rows directly under the collapsed one are looked at.
ClearHiddenOfParent(account, row) ==
    IF selection # NoSelection /\ selection.account = account
       /\ \E f \in nodes[account].listed : f.parent = row /\ f.identity = selection.identity
    THEN NoSelection ELSE selection

\* clear_hidden_selection: a selection without a row any more.
ClearHidden(account, row) == SelectionWith(account, nodes')

\* The user collapses an account or a folder; the rows below go, and what
\* was collapsed among them is forgotten.
CollapseRow(account, row) ==
    /\ Choice
    /\ account \in DOMAIN nodes /\ row \notin nodes[account].collapsed
    /\ LET node   == nodes[account]
           hiding == node.collapsed \union {row}
           below  == {f \in ShownFolders(node.listed, node.collapsed) : f.parent = row}
           left   == {f.identity : f \in ShownFolders(node.listed, hiding)}
       IN  /\ below # {}
           /\ nodes' = [nodes EXCEPT ![account].collapsed =
                           hiding \intersect (left \union {UnderAccount})]
    /\ selection' = ClearHidden(account, row)
    /\ UNCHANGED <<vars, list_vars>>

ExpandRow(account, row) ==
    /\ Choice
    /\ account \in DOMAIN nodes /\ row \in nodes[account].collapsed
    /\ nodes' = [nodes EXCEPT ![account].collapsed = @ \ {row}]
    /\ UNCHANGED <<vars, list_vars, selection>>

-----------------------------------------------------------------------------
(* The observer and the sidebar.                                           *)

\* publish_update calls the window at once.
Published ==
    /\ ConnectFails \/ ReadCompletes \/ RefreshAccounts
    /\ ApplyUpdate(update')

Unpublished ==
    /\ GoaChanges \/ GoaAnswers \/ Connect \/ SignalArrives \/ Stop
    /\ UNCHANGED sidebar

UserOrStore ==
    \E account \in DOMAIN nodes :
        \/ \E folders \in FolderLists : ShowFolders(account, folders)
        \/ \E row \in {UnderAccount} \union {f.identity : f \in nodes[account].listed} :
              CollapseRow(account, row) \/ ExpandRow(account, row)

UserSelects == \E key \in SelectableKeys(nodes) : Select(key)

SidebarNext == Published \/ Unpublished \/ UserOrStore \/ UserSelects

\* Every call of the observer ends, by D-Bus's own timeout at the latest, and
\* what waits on the main context is delivered.
SidebarSpec ==
    /\ SidebarInit /\ [][SidebarNext]_allvars
    /\ WF_vars(ObserverStep)

-----------------------------------------------------------------------------
(* Correctness.                                                            *)

\* The account page: a failed check comes first, then the rows.
Page ==
    IF last_check = "Failed" THEN "ReadFailed"
    ELSE IF DOMAIN rows # {} THEN "AccountsShown"
    ELSE IF last_check = "NotChecked" THEN "Loading"
    ELSE IF "MailUnavailable" \in excluded_reasons THEN "MailUnavailable"
    ELSE IF excluded_reasons = {} THEN "NoAccounts"
    ELSE "NoEligibleAccounts"

\* Equal names never make two rows equal (specs/001 FR-004), even when an
\* account is named as another is numbered, after any accounts came and went.
LabelsTellApart ==
    \A a, b \in DOMAIN rows : a # b => rows[a].label # rows[b].label

\* What is selected has a row the user sees and could select: an account
\* hidden, a list replaced, a folder that becomes a container, an account that
\* becomes a heading, a collapse of any row above: each leaves none selected.
SelectionIsShown == selection # NoSelection => selection \in SelectableKeys(nodes)

\* A folder that can be opened always has a row, once every row is expanded:
\* whatever parents the server left out of its listing.
EveryFolderHasARow ==
    \A a \in DOMAIN nodes :
        {f \in nodes[a].listed : f.selectable} \subseteq ShownFolders(nodes[a].listed, {})

\* The sidebar says what Online Accounts holds: the accounts with a load
\* sequence and Mail on, each with its own name and problem, and an empty page
\* only for its own reason.  Only a row may outlive its Mail service.
ShowsGoa ==
    /\ \A a \in DOMAIN rows :
          /\ a \in DOMAIN goa /\ Supported(goa[a]) /\ goa[a].mail_enabled
          /\ rows[a].base = goa[a].name
          /\ rows[a].problems = IF goa[a].available THEN {} ELSE {"MailUnavailable"}
    /\ \A a \in DOMAIN goa \ DOMAIN rows :
          ~(Supported(goa[a]) /\ goa[a].mail_enabled /\ goa[a].available)
    /\ Page = "NoAccounts" <=> goa = NoAccounts
    /\ Page = "MailUnavailable" =>
          \E a \in DOMAIN goa : goa[a].mail_enabled /\ ~goa[a].available

\* Once the accounts rest, the sidebar shows them or says that the last check
\* failed: through every signal, read, failure and Retry.
SidebarEndsUpToDate == <>[](stopped \/ Page = "ReadFailed" \/ ShowsGoa)
=============================================================================
