---------------------------- MODULE MailboxReader ----------------------------
(***************************************************************************)
(* The reader of one mailbox (crates/mailbag-imap/src/reader.rs and        *)
(* fetch_responses.rs) on the session of ImapSession.  A call runs one or  *)
(* more commands; an answer the parser rejects leaves the session          *)
(* unusable, and the next command opens another first.  Between any two    *)
(* commands other clients delete messages, and the server may number the   *)
(* mailbox anew.                                                           *)
(*                                                                         *)
(* A call's failure ends the load, as its caller does.  What the rows say  *)
(* is left out: whether a row and its structure came is kept.              *)
(***************************************************************************)
EXTENDS ImapSession, Functions

CONSTANTS
    Uids,           \* the UIDs a caller may ask for
    MaxCalls,       \* bound: calls of the caller
    MaxRenumberings \* bound: new UIDVALIDITYs

ASSUME ReaderAssumption ==
    /\ IsFiniteSet(Uids) /\ Uids \subseteq Nat
    /\ MaxCalls \in Nat /\ MaxRenumberings \in Nat
    /\ Nothing \notin Nat

VARIABLES
    mailbox,        \* server: UIDVALIDITY and the messages left
    shapes,         \* server: which structures the parser can read
    numbers,        \* what the latest opening returned, or Nothing
    selected,       \* the UIDVALIDITY of the mailbox this connection opened
    first,          \* the UIDVALIDITY the caller's UIDs are of
    needs_reconnect,
    call,           \* the running call, or Nothing
    result,         \* what the latest call returned, or Nothing
    calls           \* calls so far

server == <<mailbox, shapes>>
reader == <<numbers, selected, first, needs_reconnect>>
vars   == <<account, opened_for, session, server, reader, call, result, calls>>

\* The parser reads what the server describes of the structure, or does not.
Shapes == {"readable", "unparsable"}

Init ==
    /\ SessionInit
    /\ mailbox = [uid_validity |-> 1, messages |-> Uids]
    /\ shapes \in [Uids -> Shapes]
    /\ numbers = Nothing /\ selected = Nothing /\ first = Nothing
    /\ needs_reconnect = FALSE
    /\ call = Nothing /\ result = Nothing /\ calls = 0

-----------------------------------------------------------------------------
(* The server.                                                             *)

Expunge(uid) ==
    /\ uid \in mailbox.messages
    /\ mailbox' = [mailbox EXCEPT !.messages = @ \ {uid}]
    /\ UNCHANGED <<account, opened_for, session, shapes, reader, call, result, calls>>

Renumber ==
    /\ mailbox.uid_validity <= MaxRenumberings
    /\ mailbox' = [uid_validity |-> mailbox.uid_validity + 1, messages |-> Uids]
    /\ UNCHANGED <<account, opened_for, session, shapes, reader, call, result, calls>>

\* What a UID FETCH may bring before it ends: the messages answered for, and
\* what came of them in full, the structures or the text.  It completes only
\* when each message left was answered for; a mailbox numbered anew has none
\* of the session's.  It may refuse any command, for one message too: for
\* good, in passing, or since another client deleted the message.
Answers(asked, structures) ==
    LET left     == asked \intersect mailbox.messages
        complete == left \intersect {u \in Uids : structures => shapes[u] = "readable"}
        Possible(a) ==
            CASE a.end = "Completed"   -> a.answered = left /\ (structures => a.full = left)
              [] a.end = "ParseFailed" -> structures /\ \E u \in left : shapes[u] = "unparsable"
              [] OTHER -> TRUE
    IN  IF selected # mailbox.uid_validity
        THEN {[answered |-> {}, full |-> {}, end |-> "Failed"]}
        ELSE {a \in [answered : SUBSET left, full : SUBSET complete,
                     end : {"Completed", "Rejected", "Temporary", "ParseFailed", "Failed"}] :
                 Possible(a)}

-----------------------------------------------------------------------------
(* Opening, reconnecting and opening again.                                *)

\* Mutant: whatever numbering the mailbox has now.
RequireSameNumberingNot(opened) == TRUE

\* Another UIDVALIDITY means that the UIDs now name other messages.
RequireSameNumbering(opened) == first = Nothing \/ opened.uid_validity = first

\* SELECT answers: for the first opening, for a reconnection, for reopen.
Selected ==
    /\ stage = "Selecting"
    /\ LET opened == [uid_validity |-> mailbox.uid_validity, empty |-> mailbox.messages = {}] IN
       /\ selected' = mailbox.uid_validity
       /\ IF RequireSameNumbering(opened)
          THEN /\ numbers' = opened
               /\ first' = IF first = Nothing THEN opened.uid_validity ELSE first
               /\ needs_reconnect' = FALSE
               /\ Await("Open") /\ UNCHANGED <<stream, announced, sent, features>>
               /\ IF call # Nothing /\ call.op = "reopen"
                  THEN call' = Nothing /\ result' = call ELSE UNCHANGED <<call, result>>
          ELSE /\ Fails("MailboxChanged", "OpenMailbox")
               /\ UNCHANGED <<numbers, first, needs_reconnect, call, result>>
    /\ UNCHANGED <<account, opened_for, server, calls>>

\* A command of a call on a session whose answer could not be parsed.
Reconnect ==
    /\ stage = "Open" /\ call # Nothing /\ needs_reconnect
    /\ stream' = "closed" /\ Await("Connecting")
    /\ UNCHANGED <<account, opened_for, announced, sent, features, server, reader, call, result,
                   calls>>

Reopen ==
    /\ stage = "Open" /\ call # Nothing /\ call.op = "reopen" /\ ~needs_reconnect
    /\ Await("Selecting")
    /\ UNCHANGED <<account, opened_for, stream, announced, sent, features, server, reader, call,
                   result, calls>>

-----------------------------------------------------------------------------
(* The calls.                                                              *)

NoRows == [u \in {} |-> FALSE]

\* rows: whether each row has its structure; apart: messages asked for again;
\* left: what a command is still to be sent for; texts: what came of each.
\* History: refused: messages whose own structure command the server refused.
Call(op, asked) ==
    [op |-> op, asked |-> asked, rows |-> NoRows, left |-> asked, apart |-> FALSE,
     refusal |-> FALSE, texts |-> NoRows, refused |-> {}]

Begin ==
    /\ stage = "Open" /\ call = Nothing /\ calls < MaxCalls /\ calls' = calls + 1
    /\ \/ \E asked \in SUBSET Uids \ {{}} : \E op \in {"rows", "text", "flags"} :
             call' = Call(op, asked)
       \/ call' = Call("reopen", {})
       \* An empty mailbox is listed without a command.
       \/ ~numbers.empty /\ call' = Call("listing", Uids)
    /\ result' = Nothing
    /\ UNCHANGED <<account, opened_for, session, server, reader>>

Return(done) == call' = Nothing /\ result' = done
Continue(next) == call' = next /\ UNCHANGED result

\* The call fails, and the load with it.
CallFails(step) == Breaks(step) /\ UNCHANGED <<call, result>>

\* A command can be sent; what the call keeps of the session afterwards.
Command(op, isApart) ==
    /\ stage = "Open" /\ ~needs_reconnect
    /\ call # Nothing /\ call.op = op /\ call.apart = isApart
    /\ UNCHANGED <<account, opened_for, server, numbers, selected, first, calls>>

\* An answer that could not be parsed closes the connection.
Parsed(a) == needs_reconnect' = (needs_reconnect \/ a.end = "ParseFailed")

RowsOf(a) == [u \in a.answered |-> u \in a.full]

WithStructure(rows) == {u \in DOMAIN rows : rows[u]}

\* Mutant: a row without its structure counts as answered.
UnansweredRows(rows) == call.asked \ DOMAIN rows

\* read_unanswered_apart: the messages without a row or without a structure.
Unanswered(rows) == call.asked \ WithStructure(rows)

\* fetch_rows_by_uid: one command for rows and structures.
FetchRows ==
    /\ Command("rows", FALSE)
    /\ \E a \in Answers(call.asked, TRUE) :
          LET rows    == RowsOf(a)
              refused == a.end \in {"Rejected", "Temporary"}
              again   == Unanswered(rows)
          IN  \/ /\ a.end = "Completed" \/ (refused /\ WithStructure(rows) = call.asked)
                 /\ Return([call EXCEPT !.rows = rows, !.refusal = refused])
                 /\ UNCHANGED <<session, needs_reconnect>>
              \/ /\ a.end = "ParseFailed" \/ (refused /\ WithStructure(rows) # call.asked)
                 /\ LET kept == [call EXCEPT !.rows = Restrict(rows, call.asked \ again)] IN
                    IF again = {} THEN Return(kept)
                    ELSE Continue([kept EXCEPT !.left = again, !.apart = TRUE])
                 /\ Parsed(a) /\ UNCHANGED session
              \/ a.end = "Failed" /\ CallFails("FetchMessages") /\ UNCHANGED needs_reconnect

\* The rows of the unanswered messages in one command, whose refusal names
\* what the server withheld again; then their structures.
FetchRowsApart ==
    /\ Command("rows", TRUE)
    /\ \E a \in Answers(call.left, FALSE) :
          \/ /\ a.end \in {"Completed", "Rejected", "Temporary"}
             /\ Continue([call EXCEPT !.op = "structures", !.left = a.answered,
                                      !.refusal = a.end # "Completed"])
             /\ UNCHANGED <<session, needs_reconnect>>
          \/ a.end = "Failed" /\ CallFails("FetchMessages") /\ UNCHANGED needs_reconnect

Highest(uids) == CHOOSE u \in uids : \A v \in uids : v <= u

\* fetch_structures_apart: one command for each row.  A message not answered
\* for any more disappeared; a structure refused, or that cannot be parsed,
\* leaves its row without one; a refusal marked temporary fails the call.
FetchStructure ==
    /\ Command("structures", TRUE) /\ call.left # {}
    /\ LET uid == Highest(call.left)
           Keep(rows) == [call EXCEPT !.rows = rows, !.left = @ \ {uid}]
           With(has)  == [u \in DOMAIN call.rows \union {uid} |->
                             IF u = uid THEN has ELSE call.rows[u]]
       IN  \E a \in Answers({uid}, TRUE) :
              \/ /\ a.end = "Completed"
                 /\ Continue(Keep(IF a.full = {} THEN call.rows ELSE With(TRUE)))
                 /\ UNCHANGED <<session, needs_reconnect>>
              \/ /\ a.end = "Rejected"
                 /\ Continue([Keep(With(a.full # {})) EXCEPT !.refused = @ \union {uid}])
                 /\ UNCHANGED <<session, needs_reconnect>>
              \/ /\ a.end = "ParseFailed"
                 /\ Continue(Keep(With(a.full # {})))
                 /\ Parsed(a) /\ UNCHANGED session
              \/ /\ a.end \in {"Temporary", "Failed"}
                 /\ CallFails("FetchMessages") /\ UNCHANGED needs_reconnect

RowsComplete ==
    /\ stage = "Open" /\ call # Nothing /\ call.op = "structures" /\ call.left = {}
    /\ Return(call)
    /\ UNCHANGED <<account, opened_for, session, server, reader, calls>>

\* fetch_listing and store_flags: a refusal is an answer of its own.
RunCommand(op) ==
    /\ Command(op, FALSE)
    /\ \E a \in Answers(call.asked, FALSE) :
          \/ /\ a.end \in {"Completed", "Rejected", "Temporary"}
             /\ Return([call EXCEPT !.refusal = a.end # "Completed"])
             /\ UNCHANGED session
          \/ /\ a.end = "Failed"
             /\ CallFails(IF op = "flags" THEN "StoreFlags" ELSE "FetchMessages")
    /\ UNCHANGED needs_reconnect

\* message_text: after OK a message without a response is gone, after NO the
\* server failed to return it.
TextOf(a, uid) ==
    IF uid \in a.answered THEN IF uid \in a.full THEN "Received" ELSE "NotReturned"
    ELSE IF a.end = "Rejected" THEN "NotReturned" ELSE "Disappeared"

\* fetch_text: one command for the messages of a shape.
FetchText ==
    /\ Command("text", FALSE) /\ call.left # {}
    /\ \E shape \in SUBSET call.left \ {{}} : \E a \in Answers(shape, FALSE) :
          \/ /\ a.end \in {"Completed", "Rejected"}
             /\ Continue([call EXCEPT !.left = @ \ shape,
                    !.texts = [u \in DOMAIN @ \union shape |->
                                  IF u \in shape THEN TextOf(a, u) ELSE @[u]]])
             /\ UNCHANGED session
          \/ a.end \in {"Temporary", "Failed"} /\ CallFails("FetchText")
    /\ UNCHANGED needs_reconnect

TextComplete ==
    /\ stage = "Open" /\ call # Nothing /\ call.op = "text" /\ call.left = {}
    /\ Return(call)
    /\ UNCHANGED <<account, opened_for, session, server, reader, calls>>

CallStep ==
    \/ FetchRows \/ FetchRowsApart \/ FetchStructure \/ RowsComplete
    \/ RunCommand("flags") \/ RunCommand("listing")
    \/ FetchText \/ TextComplete

Next ==
    \/ OpeningStep /\ UNCHANGED <<account, opened_for, server, reader, call, result, calls>>
    \/ Selected \/ Reconnect \/ Reopen
    \/ Begin \/ CallStep
    \/ Renumber \/ \E uid \in Uids : Expunge(uid)

Spec == Init /\ [][Next]_vars

-----------------------------------------------------------------------------
(* Correctness.                                                            *)

\* A UID goes only to a mailbox of the numbering it was listed in: through
\* every reconnection after an answer that could not be parsed, and every
\* reopening, whatever the server did with the mailbox meanwhile.
UidsMeanTheSame ==
    (stage = "Open" /\ ~needs_reconnect) => selected = first /\ numbers.uid_validity = first

Gone(uid) == mailbox.uid_validity = first => uid \notin mailbox.messages

\* Every message asked for is accounted for: a row left out is of a message
\* gone, or the refusal goes with the rows; a row is kept without a structure
\* only when the message's own structure command was refused, not just for
\* the moment, or could not be parsed, and never for what the server did about
\* another message of the call; and a text is given up as disappeared only
\* when its message is gone (reader.rs:292-301, 342-349).
EveryMessageIsAccountedFor ==
    result # Nothing =>
        /\ result.op = "structures" \/ (result.op = "rows" /\ ~result.apart) =>
              \A u \in result.asked :
                  /\ u \notin DOMAIN result.rows => result.refusal \/ Gone(u)
                  /\ u \in DOMAIN result.rows /\ ~result.rows[u] =>
                        u \in result.refused \/ shapes[u] = "unparsable"
        /\ \A u \in DOMAIN result.texts : result.texts[u] = "Disappeared" => Gone(u)
=============================================================================
