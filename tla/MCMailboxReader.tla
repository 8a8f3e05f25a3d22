--------------------------- MODULE MCMailboxReader ---------------------------
(***************************************************************************)
(* MailboxReader with two messages and servers of every way to sign in.    *)
(***************************************************************************)
EXTENDS MailboxReader, TLC

\* Before TLS; a password's server; one for tokens; one without a method.
MCAnnouncements ==
    {{"STARTTLS", "LOGINDISABLED"},
     {"STARTTLS", "AUTH=PLAIN", "COMPRESS=DEFLATE"},
     {"AUTH=XOAUTH2", "UTF8=ACCEPT"},
     {}}
=============================================================================
