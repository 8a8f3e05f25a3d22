------------------------------- MODULE MCMailUi -------------------------------
(***************************************************************************)
(* MailUi with two folders of an account and one of another.  The first    *)
(* may list two messages: one whose row changes its look, as an edited     *)
(* draft's does, and one that is read and starred elsewhere.  Each may     *)
(* come and go.                                                            *)
(***************************************************************************)
EXTENDS MailUi

CONSTANTS a1, a2, f1, f2, x1, x2

MCFolder == {[account |-> a1, identity |-> f1], [account |-> a1, identity |-> f2],
             [account |-> a2, identity |-> f1]}

MCIdentities == <<x1, x2>>

Row(id, look, seen, flagged) ==
    [identity |-> id, look |-> look, seen |-> seen, flagged |-> flagged]

\* The other folders list one of the messages, and an equal identity.
MCRowChoices ==
    [f \in MCFolder |->
        IF f = [account |-> a1, identity |-> f1]
        THEN [id \in {x1, x2} |->
                CASE id = x1 -> {Row(x1, 1, FALSE, FALSE), Row(x1, 2, FALSE, FALSE)}
                  [] id = x2 -> {Row(x2, 1, FALSE, FALSE), Row(x2, 1, TRUE, TRUE)}]
        ELSE [id \in {x2} |-> {Row(x2, 1, FALSE, FALSE)}]]
=============================================================================
