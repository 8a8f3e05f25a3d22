-------------------------- MODULE MCAccountSidebar ---------------------------
(***************************************************************************)
(* AccountSidebar with three accounts, two of one name and a third named   *)
(* as one of them is numbered, and the folder lists of each provider.      *)
(***************************************************************************)
EXTENDS AccountSidebar, TLC

CONSTANTS NoRole

Lists == INSTANCE FolderLists

Account(name, provider, mail_enabled, available) ==
    [name |-> name, provider |-> provider, mail_enabled |-> mail_enabled, available |-> available]

Mail == Account(<<"Work">>, "ImapSmtp", TRUE, TRUE)

NoAccountList == <<>>

\* Two of one name and one named as the second is numbered; the first gone and
\* the second without its service; the second turned off and the first another
\* provider's.
MCAccounts ==
    {NoAccountList,
     1 :> Mail @@ 2 :> Mail @@ 3 :> Account(<<"Work", 2>>, "Google", TRUE, TRUE),
     2 :> [Mail EXCEPT !.available = FALSE],
     1 :> [Mail EXCEPT !.provider = "Other"] @@ 2 :> [Mail EXCEPT !.mail_enabled = FALSE]}

Mailbox(name, attributes, role) == [name |-> name, attributes |-> attributes, role |-> role]

Inbox == Mailbox(<<"INBOX">>, {}, "Inbox")

\* None; three levels; a folder that only holds others and one whose parent is
\* not listed; Gmail's container; Microsoft 365's parents.
MCFolderLists ==
    {{},
     Lists!ImapFolders({Inbox, Mailbox(<<"INBOX", "Bills">>, {}, NoRole),
                        Mailbox(<<"INBOX", "Bills", "Old">>, {}, NoRole)}),
     Lists!ImapFolders({Mailbox(<<"INBOX", "Bills">>, {"NonExistent"}, NoRole),
                        Mailbox(<<"Missing", "Rome">>, {}, NoRole)}),
     Lists!GmailFolders({Inbox, Mailbox(<<"[Gmail]">>, {"Noselect"}, NoRole),
                         Mailbox(<<"[Gmail]", "Sent">>, {}, "Sent")}),
     Lists!GraphFolders({[id |-> <<"i">>, parent_id |-> <<"root">>, well_known |-> "Inbox"],
                         [id |-> <<"s">>, parent_id |-> <<"i">>, well_known |-> NoRole]})}
=============================================================================
