----------------------------- MODULE FolderLists -----------------------------
(***************************************************************************)
(* A server's folder list as the application's folders                     *)
(* (crates/mailbag-providers/src/folders.rs): nesting and roles from what  *)
(* the server states.  A mailbox's name is the sequence of its parts at    *)
(* the hierarchy delimiter; one without a delimiter has a single part.     *)
(* The name shown to the user is left out.                                 *)
(***************************************************************************)
EXTENDS Naturals, Sequences

CONSTANTS
    UnderAccount,   \* parent: None
    NoRole          \* role: None

Listed(list) == {mailbox.name : mailbox \in list}

\* The name before the last delimiter.
NameAbove(mailbox) == SubSeq(mailbox.name, 1, Len(mailbox.name) - 1)

\* listed_parent: the name before the last delimiter, when it is listed.
ListedParent(mailbox, list) ==
    IF Len(mailbox.name) > 1 /\ NameAbove(mailbox) \in Listed(list)
    THEN NameAbove(mailbox) ELSE UnderAccount

ImapFolders(list) ==
    {[identity   |-> mailbox.name,
      parent     |-> ListedParent(mailbox, list),
      role       |-> mailbox.role,
      selectable |-> mailbox.attributes \intersect {"Noselect", "NonExistent"} = {}] :
        mailbox \in list}

\* The folders Gmail lists its system labels under: known by their children's
\* roles, since their name is localized.
Containers(folders) ==
    {c \in folders : /\ c.parent = UnderAccount /\ ~c.selectable
                     /\ \E f \in folders : f.parent = c.identity /\ f.role # NoRole}

\* Mutant: the container goes and its children keep it as their parent.
GmailFoldersOrphaning(list) == ImapFolders(list) \ Containers(ImapFolders(list))

\* The children of a container sit directly under the account.
GmailFolders(list) ==
    LET folders    == ImapFolders(list)
        containers == {c.identity : c \in Containers(folders)}
    IN  {[f EXCEPT !.parent = IF @ \in containers THEN UnderAccount ELSE @] :
            f \in {g \in folders : g.identity \notin containers}}

\* A parent the listing leaves out, such as the mailbox's root, puts the
\* folder under the account.
GraphFolders(list) ==
    {[identity   |-> folder.id,
      parent     |-> IF folder.parent_id \in {f.id : f \in list} THEN folder.parent_id
                     ELSE UnderAccount,
      role       |-> folder.well_known,
      selectable |-> TRUE] : folder \in list}
=============================================================================
