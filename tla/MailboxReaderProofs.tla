------------------------- MODULE MailboxReaderProofs -------------------------
(***************************************************************************)
(* Proofs about the session and the reader of one mailbox, for any number  *)
(* of messages, calls, renumberings and reconnections, and any lists of    *)
(* capabilities the server announces.                                      *)
(***************************************************************************)
EXTENDS MailboxReader, FiniteSetTheorems, TLAPS

-----------------------------------------------------------------------------
(* The sign-in.                                                            *)

\* The stages in which nothing may have been sent yet.
BeforeSignIn ==
    {"PlaintextGreeting", "PlaintextCapabilities", "StartTls", "Handshake", "Greeting",
     "Capabilities", "SignInMethod"}

Later == {"Compressing", "EnablingUtf8", "Identifying", "Selecting", "Listing"}

\* Signing in starts afresh on each connection, over TLS, with the list that
\* came over TLS.
SignInInv ==
    /\ stage \in BeforeSignIn => sent = <<>>
    /\ stage \in {"Greeting", "Capabilities", "SignInMethod", "Authenticating"} => stream = "tls"
    /\ stage \in {"SignInMethod", "Authenticating"} => announced.over = "tls"
    /\ CredentialGoesOutOnce

\* One of the four commands is always asked for: the last.
LEMMA NextStageIsLater ==
    ASSUME NEW place \in 1..4, NEW names
    PROVE  NextStage(place, names) \in Later
<1> DEFINE commands == Offered(names)
           IsFirst(i) == commands[i].asked /\ \A j \in place..i - 1 : ~commands[j].asked
<1>1. \A i \in 1..4 : commands[i].stage \in Later
    BY DEF Offered, Later
<1>2. commands[4].asked
    BY DEF Offered
<1>3. \E i \in place..4 : IsFirst(i)
  <2> HIDE DEF commands
  <2>1. CASE place = 4
    BY <2>1, <1>2
  <2>2. CASE place = 3
    BY <2>2, <1>2
  <2>3. CASE place = 2
    BY <2>3, <1>2
  <2>4. CASE place = 1
    BY <2>4, <1>2
  <2> QED
    BY <2>1, <2>2, <2>3, <2>4
<1>4. (CHOOSE i \in place..4 : IsFirst(i)) \in 1..4
  <2> HIDE DEF IsFirst
  <2> QED
    BY <1>3
<1> QED
    BY <1>1, <1>4 DEF NextStage

SignInStages == BeforeSignIn \union {"Authenticating"}

\* A step out of the sign-in, or within what follows it.
LEMMA PastSignIn ==
    ASSUME SignInInv, stage' \notin SignInStages, UNCHANGED <<sent, account>>
    PROVE  SignInInv'
BY DEF SignInInv, SignInStages, BeforeSignIn, CredentialGoesOutOnce, Usable

\* A step of the sign-in on the same stream with the same list.
LEMMA WithinSignIn ==
    ASSUME SignInInv, UNCHANGED <<sent, account, stream, announced>>,
           stage' \in BeforeSignIn => stage \in BeforeSignIn,
           stage' \in {"Greeting", "Capabilities", "SignInMethod", "Authenticating"} =>
               stream = "tls",
           stage' \in {"SignInMethod", "Authenticating"} => announced.over = "tls"
    PROVE  SignInInv'
BY DEF SignInInv, CredentialGoesOutOnce, Usable

\* The first credential of a connection.
LEMMA FirstCredential ==
    ASSUME SignInInv, sent = <<>>, NEW method \in Methods, SendCredential(method),
           stage \in {"SignInMethod", "Authenticating"}, UNCHANGED <<account, stream, announced>>,
           stage' \notin BeforeSignIn
    PROVE  SignInInv'
<1> DEFINE credential == [method |-> method, stream |-> stream, announced |-> announced]
<1>1. sent' = <<credential>>
    BY DEF SendCredential
<1>2. stream = "tls" /\ announced.over = "tls" /\ method \in Usable(announced.names)
    BY DEF SignInInv, Methods
<1>3. CredentialGoesOutOnce'
  <2>1. Len(sent') = 1 /\ DOMAIN sent' = {1} /\ sent'[1] = credential
    BY <1>1
  <2>2. Usable(announced.names)' = Usable(announced.names)
    BY DEF Usable
  <2> QED
    BY <2>1, <2>2, <1>2 DEF CredentialGoesOutOnce, Usable
<1> QED
    BY <1>2, <1>3 DEF SignInInv

LEMMA FailingLeavesSignIn ==
    ASSUME SignInInv, account' = account, NEW kind, NEW step, Fails(kind, step)
    PROVE  SignInInv'
BY PastSignIn DEF Fails, SignInStages, BeforeSignIn

LEMMA BreakingLeavesSignIn ==
    ASSUME SignInInv, account' = account, NEW step, Breaks(step)
    PROVE  SignInInv'
BY FailingLeavesSignIn DEF Breaks

LEMMA OpeningKeepsSignIn ==
    ASSUME SignInInv, OpeningStep, account' = account
    PROVE  SignInInv'
<1> USE DEF Await, BeforeSignIn
<1>1. CASE Connected
    BY <1>1 DEF Connected, SignInInv, CredentialGoesOutOnce
<1>2. CASE PlaintextGreeting
    BY <1>2, WithinSignIn, FailingLeavesSignIn, BreakingLeavesSignIn DEF PlaintextGreeting
<1>3. CASE PlaintextCapabilities
  <2>1. PICK names \in Announcements :
            IF "STARTTLS" \in names
            THEN Await("StartTls") /\ Announces(names) /\ UNCHANGED <<stream, sent, features>>
            ELSE Fails("Failed", "SecureConnection")
    BY <1>3 DEF PlaintextCapabilities
  <2>2. CASE "STARTTLS" \in names
    BY <1>3, <2>1, <2>2 DEF PlaintextCapabilities, SignInInv, CredentialGoesOutOnce, Usable
  <2>3. CASE "STARTTLS" \notin names
    BY <2>1, <2>3, FailingLeavesSignIn
  <2> QED
    BY <2>2, <2>3
<1>4. CASE StartTls
    BY <1>4, WithinSignIn DEF StartTls
<1>5. CASE Handshake
    BY <1>5 DEF Handshake, Secured, SignInInv, CredentialGoesOutOnce, Usable
<1>6. CASE Greeting
    BY <1>6, WithinSignIn DEF Greeting, SignInInv
<1>7. CASE CapabilitiesArrive
  <2>1. PICK names \in Announcements : Announces(names)
    BY <1>7 DEF CapabilitiesArrive
  <2>2. stream = "tls" /\ announced'.over = "tls" /\ stage = "Capabilities" /\ sent = <<>>
    BY <1>7, <2>1 DEF CapabilitiesArrive, Announces, SignInInv
  <2> QED
    BY <1>7, <2>2 DEF CapabilitiesArrive, SignInInv, CredentialGoesOutOnce
<1>8. CASE ChooseMethod
  <2>1. CASE Methods = {} /\ Fails("NoSignInMethod", "SignIn")
    BY <2>1, FailingLeavesSignIn
  <2>2. ASSUME NEW method \in Methods,
               IF method = "LOGIN" THEN SendCredential(method) /\ Await("SigningIn")
               ELSE UNCHANGED sent /\ Await("Authenticating"),
               UNCHANGED <<stream, announced, features>>
        PROVE  SignInInv'
    <3>1. stage = "SignInMethod" /\ sent = <<>> /\ stream = "tls" /\ announced.over = "tls"
        BY <1>8 DEF ChooseMethod, SignInInv
    <3>2. CASE method = "LOGIN"
        BY <2>2, <3>1, <3>2, FirstCredential
    <3>3. CASE method # "LOGIN"
        BY <2>2, <3>1, <3>3, WithinSignIn
    <3> QED
        BY <3>2, <3>3
  <2> QED
    BY <1>8, <2>1, <2>2 DEF ChooseMethod
<1>9. CASE Challenge
  <2>1. PICK method \in Methods : AnswerChallenge(method)
    BY <1>9 DEF Challenge
  <2>2. CASE sent = <<>>
    BY <1>9, <2>1, <2>2, FirstCredential DEF Challenge, AnswerChallenge
  <2>3. CASE sent # <<>>
    BY <1>9, <2>1, <2>3, WithinSignIn DEF Challenge, AnswerChallenge, SignInInv
  <2> QED
    BY <2>2, <2>3
<1>10. CASE SignedIn
    BY <1>10, PastSignIn DEF SignedIn, SignInStages
<1>11. CASE CapabilitiesAfter
    BY <1>11, NextStageIsLater, PastSignIn DEF CapabilitiesAfter, SignInStages, Later
<1>12. CASE AskFor
  <2>1. PICK place \in 1..3 : Await(NextStage(place + 1, announced.names))
    BY <1>12 DEF AskFor
  <2>2. stage' \in Later
    BY <2>1, NextStageIsLater
  <2> QED
    BY <1>12, <2>2, PastSignIn DEF AskFor, SignInStages, Later
<1>13. CASE NamesListed
    BY <1>13, PastSignIn DEF NamesListed, SignInStages
<1>14. CASE StepFails
    BY <1>14, BreakingLeavesSignIn DEF StepFails
<1> QED
    BY <1>1, <1>2, <1>3, <1>4, <1>5, <1>6, <1>7, <1>8, <1>9, <1>10, <1>11, <1>12, <1>13, <1>14
    DEF OpeningStep

-----------------------------------------------------------------------------
(* The numbering.                                                          *)

\* A call goes on with the session as it is, or fails.
CallEffect == UNCHANGED session \/ \E step : Breaks(step)

LEMMA CallStepEffect ==
    ASSUME CallStep
    PROVE  /\ CallEffect
           /\ stage = "Open" /\ (~needs_reconnect' => ~needs_reconnect)
           /\ UNCHANGED <<account, opened_for, server, numbers, selected, first, calls>>
<1> USE DEF CallEffect
<1>1. CASE FetchRows
  <2>1. PICK a \in Answers(call.asked, TRUE) :
            \/ UNCHANGED session /\ (UNCHANGED needs_reconnect \/ Parsed(a))
            \/ CallFails("FetchMessages") /\ UNCHANGED needs_reconnect
    BY <1>1 DEF FetchRows
  <2> QED
    BY <1>1, <2>1 DEF FetchRows, Command, CallFails
<1>2. CASE FetchRowsApart
    BY <1>2 DEF FetchRowsApart, Command, CallFails
<1>3. CASE FetchStructure
  <2>1. PICK a \in Answers({Highest(call.left)}, TRUE) :
            \/ UNCHANGED session /\ (UNCHANGED needs_reconnect \/ Parsed(a))
            \/ CallFails("FetchMessages") /\ UNCHANGED needs_reconnect
    BY <1>3 DEF FetchStructure
  <2> QED
    BY <1>3, <2>1 DEF FetchStructure, Command, CallFails
<1>4. CASE RowsComplete
    BY <1>4 DEF RowsComplete, reader
<1>5. CASE RunCommand("flags") \/ RunCommand("listing")
    BY <1>5 DEF RunCommand, Command, CallFails
<1>6. CASE FetchText
    BY <1>6 DEF FetchText, Command, CallFails
<1>7. CASE TextComplete
    BY <1>7 DEF TextComplete, reader
<1> QED
    BY <1>1, <1>2, <1>3, <1>4, <1>5, <1>6, <1>7 DEF CallStep

LEMMA OpeningIsNotOpen ==
    ASSUME OpeningStep PROVE stage' # "Open"
<1> USE DEF Await, Fails, Breaks
<1>1. CASE CapabilitiesAfter
    BY <1>1, NextStageIsLater DEF CapabilitiesAfter, Later
<1>2. CASE AskFor
  <2>1. PICK place \in 1..3 : Await(NextStage(place + 1, announced.names))
    BY <1>2 DEF AskFor
  <2> QED
    BY <2>1, NextStageIsLater DEF Later
<1>3. CASE Connected \/ PlaintextGreeting \/ PlaintextCapabilities \/ StartTls \/ Handshake
    BY <1>3 DEF Connected, PlaintextGreeting, PlaintextCapabilities, StartTls, Handshake, Secured
<1>4. CASE Greeting \/ CapabilitiesArrive \/ Challenge \/ SignedIn \/ NamesListed \/ StepFails
    BY <1>4 DEF Greeting, CapabilitiesArrive, Challenge, SignedIn, NamesListed, StepFails
<1>5. CASE ChooseMethod
    BY <1>5 DEF ChooseMethod
<1> QED
    BY <1>1, <1>2, <1>3, <1>4, <1>5 DEF OpeningStep

MailboxType == [uid_validity : Nat, messages : SUBSET Uids]

\* The numbering of the caller's UIDs is one the mailbox has had, and an open
\* session is in it.
NumberingInv ==
    /\ mailbox \in MailboxType
    /\ first # Nothing => first \in Nat /\ first <= mailbox.uid_validity
    /\ stage = "Open" => first # Nothing
    /\ UidsMeanTheSame

LEMMA SelectedNumbers ==
    ASSUME NumberingInv, Selected
    PROVE  /\ UNCHANGED mailbox
           /\ \/ /\ stage' = "Open"
                 /\ selected' = mailbox.uid_validity /\ first' = mailbox.uid_validity
                 /\ numbers'.uid_validity = mailbox.uid_validity
                 /\ UNCHANGED <<account, stream, announced, sent>>
              \/ /\ stage' = "Failed"
                 /\ UNCHANGED <<first, account, announced, sent, call, result>>
<1> DEFINE opened == [uid_validity |-> mailbox.uid_validity, empty |-> mailbox.messages = {}]
<1>1. CASE RequireSameNumbering(opened)
    BY <1>1 DEF Selected, RequireSameNumbering, Await, server
<1>2. CASE ~RequireSameNumbering(opened)
    BY <1>2 DEF Selected, Fails, server
<1> QED
    BY <1>1, <1>2

LEMMA NumberingKept ==
    ASSUME NumberingInv, [Next]_vars
    PROVE  NumberingInv'
<1> USE DEF NumberingInv, UidsMeanTheSame
<1>1. CASE OpeningStep /\ UNCHANGED <<account, opened_for, server, reader, call, result, calls>>
    BY <1>1, OpeningIsNotOpen DEF server, reader
<1>2. CASE Selected
    BY <1>2, SelectedNumbers, ReaderAssumption DEF MailboxType
<1>3. CASE Reconnect \/ Reopen
    BY <1>3 DEF Reconnect, Reopen, Await, server, reader
<1>4. CASE Begin
    BY <1>4 DEF Begin, session, server, reader
<1>5. CASE CallStep
    BY <1>5, CallStepEffect DEF CallEffect, session, server, Breaks, Fails
<1>6. CASE Renumber
  <2>1. mailbox' \in MailboxType /\ mailbox'.uid_validity = mailbox.uid_validity + 1
    BY <1>6 DEF Renumber, MailboxType
  <2> QED
    BY <1>6, <2>1 DEF Renumber, session, reader, MailboxType
<1>7. CASE \E uid \in Uids : Expunge(uid)
  <2>1. mailbox' \in MailboxType /\ mailbox'.uid_validity = mailbox.uid_validity
    BY <1>7 DEF Expunge, MailboxType
  <2> QED
    BY <1>7, <2>1 DEF Expunge, session, reader
<1>8. CASE UNCHANGED vars
    BY <1>8 DEF vars, session, server, reader
<1> QED
    BY <1>1, <1>2, <1>3, <1>4, <1>5, <1>6, <1>7, <1>8 DEF Next

LEMMA SignInKept ==
    ASSUME SignInInv, NumberingInv, [Next]_vars
    PROVE  SignInInv'
<1>1. CASE OpeningStep /\ UNCHANGED <<account, opened_for, server, reader, call, result, calls>>
    BY <1>1, OpeningKeepsSignIn
<1>2. CASE Selected
    BY <1>2, SelectedNumbers, PastSignIn DEF SignInStages, BeforeSignIn, Selected
<1>3. CASE Reconnect \/ Reopen
    BY <1>3, PastSignIn DEF Reconnect, Reopen, Await, SignInStages, BeforeSignIn
<1>4. CASE UNCHANGED <<account, session>>
    BY <1>4 DEF session, SignInInv, CredentialGoesOutOnce, Usable
<1>5. CASE Begin \/ Renumber \/ (\E uid \in Uids : Expunge(uid)) \/ UNCHANGED vars
    BY <1>5, <1>4 DEF Begin, Renumber, Expunge, vars
<1>6. CASE CallStep
    BY <1>6, <1>4, CallStepEffect, BreakingLeavesSignIn DEF CallEffect
<1> QED
    BY <1>1, <1>2, <1>3, <1>5, <1>6 DEF Next

\* Whatever the server offers and however it answers, on every connection of
\* a session a credential goes out once at most, over TLS, by a method
\* announced over TLS (session.rs, sign_in).
THEOREM CredentialOnce == Spec => []CredentialGoesOutOnce
<1>1. Init => SignInInv /\ NumberingInv
    BY DEF Init, SessionInit, SignInInv, NumberingInv, CredentialGoesOutOnce, BeforeSignIn,
           UidsMeanTheSame, MailboxType
<1>2. SignInInv /\ NumberingInv /\ [Next]_vars => SignInInv' /\ NumberingInv'
    BY SignInKept, NumberingKept
<1>3. SignInInv => CredentialGoesOutOnce
    BY DEF SignInInv
<1> QED
    BY <1>1, <1>2, <1>3, PTL DEF Spec

\* Whatever numbering the server takes between two commands, a command names
\* UIDs of the numbering they were listed in (reader.rs,
\* require_same_numbering).
THEOREM UidsKeepTheirMeaning == Spec => []UidsMeanTheSame
<1>1. Init => NumberingInv
    BY DEF Init, SessionInit, NumberingInv, UidsMeanTheSame, MailboxType
<1>2. NumberingInv /\ [Next]_vars => NumberingInv'
    BY NumberingKept
<1>3. NumberingInv => UidsMeanTheSame
    BY DEF NumberingInv
<1> QED
    BY <1>1, <1>2, <1>3, PTL DEF Spec

-----------------------------------------------------------------------------
(* What a call returns.                                                    *)

IsCall(c) == DOMAIN c = {"op", "asked", "rows", "left", "apart", "refusal", "texts", "refused"}

TextsTrue(c) == \A u \in DOMAIN c.texts : c.texts[u] = "Disappeared" => Gone(u)

\* But for the messages left to ask for, the rows are accounted for.
RowsTrue(c, left) ==
    \A u \in c.asked :
        /\ u \notin DOMAIN c.rows /\ u \notin left => c.refusal \/ Gone(u)
        /\ u \in DOMAIN c.rows /\ ~c.rows[u] => u \in c.refused \/ shapes[u] = "unparsable"

\* Before the rows are asked for again, each kept one has its structure.
RowsKept(c) ==
    \A u \in c.asked :
        /\ u \notin DOMAIN c.rows => u \in c.left
        /\ u \in DOMAIN c.rows => c.rows[u]

CallInv(c) ==
    /\ IsCall(c)
    /\ TextsTrue(c)
    /\ c.op = "rows" /\ c.apart => RowsKept(c)
    /\ c.op = "structures" => RowsTrue(c, c.left)

Returned(c) ==
    /\ TextsTrue(c)
    /\ c.op = "structures" \/ (c.op = "rows" /\ ~c.apart) => RowsTrue(c, {})

AccountedInv ==
    /\ call # Nothing \/ result # Nothing => first # Nothing
    /\ call # Nothing => CallInv(call)
    /\ result # Nothing => Returned(result)

\* Gone stays true of a message, whatever the server does.
LEMMA GoneStays ==
    ASSUME NumberingInv, first # Nothing, first' = first, NEW u, Gone(u),
           UNCHANGED mailbox \/ Renumber \/ \E uid \in Uids : Expunge(uid)
    PROVE  Gone(u)'
<1>1. first \in Nat /\ first <= mailbox.uid_validity /\ mailbox.uid_validity \in Nat
    BY DEF NumberingInv, MailboxType
<1>2. CASE UNCHANGED mailbox
    BY <1>2 DEF Gone
<1>3. CASE Renumber
  <2>1. mailbox'.uid_validity = mailbox.uid_validity + 1
    BY <1>3 DEF Renumber
  <2> QED
    BY <1>1, <2>1 DEF Gone
<1>4. CASE \E uid \in Uids : Expunge(uid)
  <2>1. mailbox'.uid_validity = mailbox.uid_validity /\ mailbox'.messages \subseteq mailbox.messages
    BY <1>4 DEF Expunge, NumberingInv, MailboxType
  <2> QED
    BY <2>1 DEF Gone
<1> QED
    BY <1>2, <1>3, <1>4

\* What holds of a call or a result goes on holding.
LEMMA InvariantsStay ==
    ASSUME NumberingInv, AccountedInv, first # Nothing => first' = first, UNCHANGED shapes,
           UNCHANGED mailbox \/ Renumber \/ \E uid \in Uids : Expunge(uid)
    PROVE  /\ call # Nothing /\ call' = call => CallInv(call)'
           /\ result # Nothing /\ result' = result => Returned(result)'
<1>1. first # Nothing => \A u : Gone(u) => Gone(u)'
    BY GoneStays
<1>2. ASSUME call # Nothing, call' = call PROVE CallInv(call)'
  <2>1. CallInv(call) /\ \A u : Gone(u) => Gone(u)'
    BY <1>1, <1>2 DEF AccountedInv
  <2>2. IsCall(call)' /\ TextsTrue(call)'
    BY <1>2, <2>1 DEF CallInv, IsCall, TextsTrue
  <2>3. call.op = "rows" /\ call.apart => RowsKept(call)'
    BY <1>2, <2>1 DEF CallInv, RowsKept
  <2>4. call.op = "structures" => RowsTrue(call, call.left)'
    BY <1>2, <2>1 DEF CallInv, RowsTrue
  <2> QED
    BY <1>2, <2>2, <2>3, <2>4 DEF CallInv
<1>3. ASSUME result # Nothing, result' = result PROVE Returned(result)'
  <2>1. Returned(result) /\ \A u : Gone(u) => Gone(u)'
    BY <1>1, <1>3 DEF AccountedInv
  <2>2. TextsTrue(result)'
    BY <1>3, <2>1 DEF Returned, TextsTrue
  <2>3. result.op = "structures" \/ (result.op = "rows" /\ ~result.apart) => RowsTrue(result, {})'
    BY <1>3, <2>1 DEF Returned, RowsTrue
  <2> QED
    BY <1>3, <2>2, <2>3 DEF Returned
<1> QED
    BY <1>2, <1>3

\* What the end of a UID FETCH says of the messages asked for.
LEMMA AnswersSay ==
    ASSUME NumberingInv, stage = "Open", ~needs_reconnect, NEW asked, NEW structures \in BOOLEAN,
           NEW a \in Answers(asked, structures), a.end # "Failed"
    PROVE  /\ a.answered \subseteq asked
           /\ a.end \in {"Completed", "Rejected", "Temporary", "ParseFailed"}
           /\ a.end = "Completed" => \A u \in asked \ a.answered : Gone(u)
           /\ a.end = "Completed" /\ structures => a.full = a.answered
           /\ a.end = "ParseFailed" => structures /\ \E u \in asked : shapes[u] = "unparsable"
<1>1. selected = mailbox.uid_validity
    BY DEF Answers
<1>2. \A u : u \notin mailbox.messages => Gone(u)
    BY DEF Gone
<1>3. a \in [answered : SUBSET (asked \intersect mailbox.messages),
            full : SUBSET (asked \intersect mailbox.messages
                              \intersect {u \in Uids : structures => shapes[u] = "readable"}),
            end : {"Completed", "Rejected", "Temporary", "ParseFailed", "Failed"}]
    BY <1>1 DEF Answers
<1>4. CASE a.end = "Completed"
    BY <1>1, <1>2, <1>4 DEF Answers
<1>5. CASE a.end = "ParseFailed"
    BY <1>1, <1>3, <1>5 DEF Answers
<1>6. CASE a.end = "Rejected"
    BY <1>3, <1>6
<1>7. CASE a.end = "Temporary"
    BY <1>3, <1>7
<1> QED
    BY <1>3, <1>4, <1>5, <1>6, <1>7

\* A call's step that returns, goes on or fails keeps the accounts.
LEMMA ReturnAccounted ==
    ASSUME UNCHANGED <<server, first>>, first # Nothing, NEW done, Returned(done), Return(done)
    PROVE  AccountedInv'
<1>1. \A u : Gone(u) => Gone(u)'
    BY DEF Gone, server
<1>2. call' = Nothing /\ result' = done
    BY DEF Return
<1>3. TextsTrue(result)'
    BY <1>1, <1>2 DEF Returned, TextsTrue
<1>4. (result'.op = "structures" \/ (result'.op = "rows" /\ ~result'.apart)) => RowsTrue(result, {})'
    BY <1>1, <1>2 DEF Returned, RowsTrue, server
<1> QED
    BY <1>2, <1>3, <1>4 DEF AccountedInv, Returned

LEMMA ContinueAccounted ==
    ASSUME UNCHANGED <<server, first>>, first # Nothing, NumberingInv, AccountedInv,
           NEW next, CallInv(next), Continue(next)
    PROVE  AccountedInv'
<1>1. \A u : Gone(u) => Gone(u)'
    BY DEF Gone, server
<1>2. call' = next /\ result' = result
    BY DEF Continue
<1>3. TextsTrue(call)' /\ IsCall(call)'
    BY <1>1, <1>2 DEF CallInv, TextsTrue, IsCall
<1>4. (call'.op = "rows" /\ call'.apart) => RowsKept(call)'
    BY <1>2 DEF CallInv, RowsKept
<1>5. call'.op = "structures" => RowsTrue(call, call.left)'
    BY <1>1, <1>2 DEF CallInv, RowsTrue, server
<1>6. CallInv(call)'
    BY <1>3, <1>4, <1>5 DEF CallInv
<1>7. result' # Nothing => Returned(result)'
    BY <1>2, InvariantsStay DEF server
<1> QED
    BY <1>6, <1>7 DEF AccountedInv

LEMMA UnchangedAccounted ==
    ASSUME NumberingInv, AccountedInv, first # Nothing => first' = first, UNCHANGED shapes,
           UNCHANGED <<call, result>>,
           UNCHANGED mailbox \/ Renumber \/ \E uid \in Uids : Expunge(uid)
    PROVE  AccountedInv'
BY InvariantsStay DEF AccountedInv

LEMMA FetchRowsAccounted ==
    ASSUME NumberingInv, AccountedInv, FetchRows
    PROVE  AccountedInv'
<1> DEFINE Refused(a)  == a.end \in {"Rejected", "Temporary"}
           Again(a)    == Unanswered(RowsOf(a))
           Kept(a)     == [call EXCEPT !.rows = Restrict(RowsOf(a), call.asked \ Again(a))]
           Result(a)   == [call EXCEPT !.rows = RowsOf(a), !.refusal = Refused(a)]
           Complete(a) == a.end = "Completed" \/ (Refused(a) /\ WithStructure(RowsOf(a)) = call.asked)
<1>1. /\ stage = "Open" /\ ~needs_reconnect /\ call.op = "rows" /\ ~call.apart
      /\ call # Nothing /\ UNCHANGED <<server, first>>
    BY DEF FetchRows, Command
<1>2. IsCall(call) /\ TextsTrue(call) /\ first # Nothing
    BY <1>1 DEF AccountedInv, CallInv
<1>3. PICK a \in Answers(call.asked, TRUE) :
          \/ Complete(a) /\ Return(Result(a))
          \/ /\ a.end # "Failed"
             /\ IF Again(a) = {} THEN Return(Kept(a))
                ELSE Continue([Kept(a) EXCEPT !.left = Again(a), !.apart = TRUE])
          \/ UNCHANGED <<call, result>>
    BY DEF FetchRows, CallFails
<1>4. CASE Complete(a) /\ Return(Result(a))
  <2>1. /\ Result(a).op = "rows" /\ Result(a).asked = call.asked /\ Result(a).texts = call.texts
        /\ Result(a).rows = RowsOf(a)
    BY <1>1, <1>2 DEF IsCall
  <2>2. DOMAIN RowsOf(a) = a.answered /\ \A u \in a.answered : RowsOf(a)[u] <=> u \in a.full
    BY DEF RowsOf
  <2>3. \A u \in call.asked :
            /\ u \notin DOMAIN RowsOf(a) => Gone(u)
            /\ u \in DOMAIN RowsOf(a) => RowsOf(a)[u]
    <3>1. CASE a.end = "Completed"
        <4>1. a.full = a.answered /\ \A u \in call.asked \ a.answered : Gone(u)
            BY <1>1, <3>1, AnswersSay
        <4> QED
            BY <2>2, <4>1
    <3>2. CASE WithStructure(RowsOf(a)) = call.asked
        BY <3>2 DEF WithStructure
    <3> QED
        BY <1>4, <3>1, <3>2
  <2>4. RowsTrue(Result(a), {}) /\ TextsTrue(Result(a))
    BY <1>2, <2>1, <2>3 DEF RowsTrue, TextsTrue
  <2>5. Returned(Result(a))
    BY <2>4 DEF Returned
  <2> QED
    BY <1>1, <1>2, <1>4, <2>5, ReturnAccounted
<1>5. CASE IF Again(a) = {} THEN Return(Kept(a))
           ELSE Continue([Kept(a) EXCEPT !.left = Again(a), !.apart = TRUE])
  <2> DEFINE rows == Restrict(RowsOf(a), call.asked \ Again(a))
             going == [Kept(a) EXCEPT !.left = Again(a), !.apart = TRUE]
  <2>1. DOMAIN rows = call.asked \ Again(a) /\ \A u \in DOMAIN rows : rows[u]
    BY DEF Restrict, Unanswered, WithStructure
  <2>2. /\ IsCall(Kept(a)) /\ Kept(a).op = "rows" /\ Kept(a).asked = call.asked
        /\ Kept(a).texts = call.texts /\ Kept(a).rows = rows
    BY <1>1, <1>2 DEF IsCall
  <2>3. CASE Again(a) = {}
    <3>1. RowsTrue(Kept(a), {}) /\ TextsTrue(Kept(a))
        BY <1>2, <2>1, <2>2, <2>3 DEF RowsTrue, TextsTrue
    <3> QED
        BY <1>1, <1>2, <1>5, <2>3, <3>1, ReturnAccounted DEF Returned
  <2>4. CASE Again(a) # {}
    <3>1. /\ IsCall(going) /\ going.op = "rows" /\ going.asked = call.asked
          /\ going.texts = call.texts /\ going.rows = rows /\ going.left = Again(a)
        BY <2>2 DEF IsCall
    <3>2. RowsKept(going) /\ TextsTrue(going)
        BY <1>2, <2>1, <3>1 DEF RowsKept, TextsTrue
    <3> QED
        BY <1>1, <1>2, <1>5, <2>4, <3>1, <3>2, ContinueAccounted DEF CallInv
  <2> QED
    BY <2>3, <2>4
<1> QED
    BY <1>1, <1>2, <1>3, <1>4, <1>5, UnchangedAccounted DEF server

LEMMA FetchRowsApartAccounted ==
    ASSUME NumberingInv, AccountedInv, FetchRowsApart
    PROVE  AccountedInv'
<1> DEFINE Going(a) == [call EXCEPT !.op = "structures", !.left = a.answered,
                                    !.refusal = a.end # "Completed"]
<1>1. /\ stage = "Open" /\ ~needs_reconnect /\ call.op = "rows" /\ call.apart
      /\ call # Nothing /\ UNCHANGED <<server, first>>
    BY DEF FetchRowsApart, Command
<1>2. IsCall(call) /\ TextsTrue(call) /\ RowsKept(call) /\ first # Nothing
    BY <1>1 DEF AccountedInv, CallInv
<1>3. PICK a \in Answers(call.left, FALSE) :
          (a.end # "Failed" /\ Continue(Going(a))) \/ UNCHANGED <<call, result>>
    BY DEF FetchRowsApart, CallFails
<1>4. CASE a.end # "Failed" /\ Continue(Going(a))
  <2>1. /\ IsCall(Going(a)) /\ Going(a).op = "structures" /\ Going(a).asked = call.asked
        /\ Going(a).rows = call.rows /\ Going(a).left = a.answered
        /\ Going(a).texts = call.texts
    BY <1>2 DEF IsCall
  <2>2. Going(a).refusal <=> a.end # "Completed"
    BY <1>2 DEF IsCall
  <2>3. a.end = "Completed" => \A u \in call.left \ a.answered : Gone(u)
    BY <1>1, <1>4, AnswersSay
  <2>4. RowsTrue(Going(a), a.answered)
    <3> HIDE DEF Going
    <3>1. \A u \in call.asked :
              /\ u \notin DOMAIN call.rows => u \in call.left
              /\ u \in DOMAIN call.rows => call.rows[u]
        BY <1>2 DEF RowsKept
    <3> QED
        BY <2>1, <2>2, <2>3, <3>1 DEF RowsTrue
  <2>5. TextsTrue(Going(a))
    BY <1>2, <2>1 DEF TextsTrue
  <2> QED
    BY <1>1, <1>2, <1>4, <2>1, <2>4, <2>5, ContinueAccounted DEF CallInv
<1> QED
    BY <1>1, <1>2, <1>3, <1>4, UnchangedAccounted DEF server

LEMMA FetchStructureAccounted ==
    ASSUME NumberingInv, AccountedInv, FetchStructure
    PROVE  AccountedInv'
<1> DEFINE Keep(uid, rows)    == [call EXCEPT !.rows = rows, !.left = @ \ {uid}]
           Refused(uid, rows) == [Keep(uid, rows) EXCEPT !.refused = @ \union {uid}]
           With(uid, has)     == [u \in DOMAIN call.rows \union {uid} |->
                                     IF u = uid THEN has ELSE call.rows[u]]
           Unreadable(uid, c) == uid \in c.refused \/ shapes[uid] = "unparsable"
<1>1. /\ stage = "Open" /\ ~needs_reconnect /\ call.op = "structures"
      /\ call # Nothing /\ UNCHANGED <<server, first>>
    BY DEF FetchStructure, Command
<1>2. IsCall(call) /\ TextsTrue(call) /\ RowsTrue(call, call.left) /\ first # Nothing
    BY <1>1 DEF AccountedInv, CallInv
<1>3. PICK uid : \E a \in Answers({uid}, TRUE) :
          \/ /\ a.end = "Completed"
             /\ Continue(Keep(uid, IF a.full = {} THEN call.rows ELSE With(uid, TRUE)))
          \/ a.end = "Rejected" /\ Continue(Refused(uid, With(uid, a.full # {})))
          \/ a.end = "ParseFailed" /\ Continue(Keep(uid, With(uid, a.full # {})))
          \/ UNCHANGED <<call, result>>
    BY DEF FetchStructure, CallFails
<1>4. PICK a \in Answers({uid}, TRUE) :
          \/ /\ a.end = "Completed"
             /\ Continue(Keep(uid, IF a.full = {} THEN call.rows ELSE With(uid, TRUE)))
          \/ a.end = "Rejected" /\ Continue(Refused(uid, With(uid, a.full # {})))
          \/ a.end = "ParseFailed" /\ Continue(Keep(uid, With(uid, a.full # {})))
          \/ UNCHANGED <<call, result>>
    BY <1>3
<1>5. ASSUME NEW c, Continue(c), IsCall(c),
             c.op = "structures", c.asked = call.asked, c.left = call.left \ {uid},
             c.texts = call.texts, c.refusal = call.refusal, call.refused \subseteq c.refused,
             \A u \in call.asked : u # uid /\ u \in DOMAIN c.rows =>
                 u \in DOMAIN call.rows /\ (c.rows[u] <=> call.rows[u]),
             DOMAIN call.rows \subseteq DOMAIN c.rows,
             uid \notin DOMAIN c.rows => Gone(uid),
             uid \in call.asked /\ uid \in DOMAIN c.rows /\ ~c.rows[uid] => Unreadable(uid, c)
      PROVE  AccountedInv'
  <2>1. RowsTrue(c, call.left \ {uid}) /\ TextsTrue(c)
    BY <1>2, <1>5 DEF RowsTrue, TextsTrue
  <2> QED
    BY <1>1, <1>2, <1>5, <2>1, ContinueAccounted DEF CallInv
<1>6. \A rows : LET c == Keep(uid, rows) IN
         /\ IsCall(c) /\ c.op = "structures" /\ c.asked = call.asked /\ c.rows = rows
         /\ c.left = call.left \ {uid} /\ c.texts = call.texts /\ c.refusal = call.refusal
         /\ c.refused = call.refused
    BY <1>1, <1>2 DEF IsCall
<1>7. \A rows : LET c == Refused(uid, rows) IN
         /\ IsCall(c) /\ c.op = "structures" /\ c.asked = call.asked /\ c.rows = rows
         /\ c.left = call.left \ {uid} /\ c.texts = call.texts /\ c.refusal = call.refusal
         /\ c.refused = call.refused \union {uid}
    BY <1>1, <1>2 DEF IsCall
<1>8. \A has \in BOOLEAN :
         /\ DOMAIN With(uid, has) = DOMAIN call.rows \union {uid}
         /\ With(uid, has)[uid] = has
         /\ \A u \in DOMAIN call.rows : u # uid => With(uid, has)[u] = call.rows[u]
    OBVIOUS
<1> HIDE DEF Keep, Refused, With
<1>9. CASE a.end = "Completed" /\ a.full = {} /\ Continue(Keep(uid, call.rows))
  <2>1. a.answered = {} /\ \A u \in {uid} \ a.answered : Gone(u)
    BY <1>1, <1>9, AnswersSay
  <2>2. uid \in call.asked /\ uid \in DOMAIN call.rows /\ ~call.rows[uid] =>
            Unreadable(uid, call)
    BY <1>2 DEF RowsTrue
  <2> QED
    BY <1>5, <1>6, <1>9, <2>1, <2>2
<1>10. CASE a.end = "Completed" /\ Continue(Keep(uid, With(uid, TRUE)))
    BY <1>5, <1>6, <1>8, <1>10
<1>11. CASE a.end = "Rejected" /\ Continue(Refused(uid, With(uid, a.full # {})))
  <2>1. PICK has \in BOOLEAN : has = (a.full # {})
    OBVIOUS
  <2>2. PICK rows : rows = With(uid, has)
    OBVIOUS
  <2>3. PICK c : c = Refused(uid, rows)
    OBVIOUS
  <2>4. Continue(c)
    BY <1>11, <2>1, <2>2, <2>3
  <2>5. Unreadable(uid, c)
    BY <1>7, <2>3
  <2>6. /\ DOMAIN rows = DOMAIN call.rows \union {uid}
        /\ \A u \in DOMAIN call.rows : u # uid => rows[u] = call.rows[u]
    BY <1>8, <2>2
  <2>7. /\ IsCall(c) /\ c.op = "structures" /\ c.asked = call.asked /\ c.rows = rows
        /\ c.left = call.left \ {uid} /\ c.texts = call.texts /\ c.refusal = call.refusal
        /\ call.refused \subseteq c.refused
    BY <1>7, <2>3
  <2> HIDE DEF Unreadable
  <2> QED
    BY <1>5, <2>4, <2>5, <2>6, <2>7
<1>12. CASE a.end = "ParseFailed" /\ Continue(Keep(uid, With(uid, a.full # {})))
  <2>1. \E u \in {uid} : shapes[u] = "unparsable"
    <3>1. PICK asked : asked = {uid}
        OBVIOUS
    <3>2. a \in Answers(asked, TRUE) /\ a.end = "ParseFailed" /\ a.end # "Failed"
        BY <1>12, <3>1
    <3>3. \E u \in asked : shapes[u] = "unparsable"
        BY <1>1, <3>2, AnswersSay
    <3> QED
        BY <3>1, <3>3
  <2>2. PICK has \in BOOLEAN : has = (a.full # {})
    OBVIOUS
  <2>3. PICK rows : rows = With(uid, has)
    OBVIOUS
  <2>4. PICK c : c = Keep(uid, rows)
    OBVIOUS
  <2>5. Continue(c)
    BY <1>12, <2>2, <2>3, <2>4
  <2>6. Unreadable(uid, c)
    BY <2>1
  <2>7. /\ DOMAIN rows = DOMAIN call.rows \union {uid}
        /\ \A u \in DOMAIN call.rows : u # uid => rows[u] = call.rows[u]
    BY <1>8, <2>3
  <2> HIDE DEF Unreadable
  <2> QED
    BY <1>5, <1>6, <2>4, <2>5, <2>6, <2>7
<1>13. CASE UNCHANGED <<call, result>>
    BY <1>1, <1>13, UnchangedAccounted DEF server
<1>14. CASE a.end = "Completed"
           /\ Continue(Keep(uid, IF a.full = {} THEN call.rows ELSE With(uid, TRUE)))
    BY <1>9, <1>10, <1>14
<1> QED
    BY <1>4, <1>11, <1>12, <1>13, <1>14

LEMMA FetchTextAccounted ==
    ASSUME NumberingInv, AccountedInv, FetchText
    PROVE  AccountedInv'
<1> DEFINE Texts(a, shape) == [u \in DOMAIN call.texts \union shape |->
                                  IF u \in shape THEN TextOf(a, u) ELSE call.texts[u]]
           Going(a, shape) == [call EXCEPT !.left = @ \ shape, !.texts =
                                  [u \in DOMAIN @ \union shape |->
                                      IF u \in shape THEN TextOf(a, u) ELSE @[u]]]
<1>1. /\ stage = "Open" /\ ~needs_reconnect /\ call.op = "text"
      /\ call # Nothing /\ UNCHANGED <<server, first>>
    BY DEF FetchText, Command
<1>2. IsCall(call) /\ TextsTrue(call) /\ first # Nothing
    BY <1>1 DEF AccountedInv, CallInv
<1>3. PICK shape \in SUBSET call.left \ {{}} : \E a \in Answers(shape, FALSE) :
          \/ a.end \in {"Completed", "Rejected"} /\ Continue(Going(a, shape))
          \/ UNCHANGED <<call, result>>
    BY DEF FetchText, CallFails
<1>4. PICK a \in Answers(shape, FALSE) :
          \/ a.end \in {"Completed", "Rejected"} /\ Continue(Going(a, shape))
          \/ UNCHANGED <<call, result>>
    BY <1>3
<1>5. CASE a.end \in {"Completed", "Rejected"} /\ Continue(Going(a, shape))
  <2>1. IsCall(Going(a, shape)) /\ Going(a, shape).op = "text"
        /\ Going(a, shape).texts = Texts(a, shape)
    BY <1>1, <1>2 DEF IsCall
  <2>2. a.end = "Completed" => \A u \in shape \ a.answered : Gone(u)
    BY <1>1, <1>5, AnswersSay
  <2>3. \A u \in shape : TextOf(a, u) = "Disappeared" => Gone(u)
    BY <1>5, <2>2 DEF TextOf
  <2>4. TextsTrue(Going(a, shape))
    <3>1. \A u \in DOMAIN Texts(a, shape) : Texts(a, shape)[u] = "Disappeared" => Gone(u)
        BY <1>2, <2>3 DEF TextsTrue
    <3> HIDE DEF Going, Texts
    <3> QED
        BY <2>1, <3>1 DEF TextsTrue
  <2> HIDE DEF Going
  <2> QED
    BY <1>1, <1>2, <1>5, <2>1, <2>4, ContinueAccounted DEF CallInv
<1> QED
    BY <1>1, <1>2, <1>4, <1>5, UnchangedAccounted DEF server

\* A command with one answer, and the end of a call of several.
LEMMA LastStepAccounted ==
    ASSUME NumberingInv, AccountedInv,
           RowsComplete \/ TextComplete \/ RunCommand("flags") \/ RunCommand("listing")
    PROVE  AccountedInv'
<1>1. call # Nothing /\ UNCHANGED <<server, first>>
    BY DEF RowsComplete, TextComplete, RunCommand, Command, reader
<1>2. CallInv(call) /\ IsCall(call) /\ TextsTrue(call) /\ first # Nothing
    BY <1>1 DEF AccountedInv, CallInv
<1>3. CASE RowsComplete
  <2>1. call.op = "structures" /\ call.left = {} /\ Return(call)
    BY <1>3 DEF RowsComplete
  <2>2. Returned(call)
    BY <1>2, <2>1 DEF CallInv, Returned
  <2> QED
    BY <1>1, <1>2, <2>1, <2>2, ReturnAccounted
<1>4. CASE TextComplete
  <2>1. call.op = "text" /\ Return(call)
    BY <1>4 DEF TextComplete
  <2>2. Returned(call)
    BY <1>2, <2>1 DEF Returned
  <2> QED
    BY <1>1, <1>2, <2>1, <2>2, ReturnAccounted
<1>5. ASSUME NEW op \in {"flags", "listing"}, RunCommand(op) PROVE AccountedInv'
  <2> DEFINE Done(a) == [call EXCEPT !.refusal = a.end # "Completed"]
  <2>1. call.op = op
    BY <1>5 DEF RunCommand, Command
  <2>2. PICK a \in Answers(call.asked, FALSE) : Return(Done(a)) \/ UNCHANGED <<call, result>>
    BY <1>5 DEF RunCommand, CallFails
  <2>3. Done(a).op = op /\ Done(a).texts = call.texts
    BY <1>2, <2>1 DEF IsCall
  <2> HIDE DEF Done
  <2>4. Returned(Done(a))
    BY <1>2, <2>3 DEF Returned, TextsTrue
  <2> QED
    BY <1>1, <1>2, <2>2, <2>4, ReturnAccounted, UnchangedAccounted DEF server
<1> QED
    BY <1>3, <1>4, <1>5

LEMMA AccountedKept ==
    ASSUME NumberingInv, AccountedInv, [Next]_vars
    PROVE  AccountedInv'
<1>1. CASE OpeningStep /\ UNCHANGED <<account, opened_for, server, reader, call, result, calls>>
    BY <1>1, UnchangedAccounted DEF server, reader
<1>2. CASE Selected
  <2>1. UNCHANGED server /\ (first # Nothing => first' = first)
    BY <1>2 DEF Selected
  <2>2. CASE UNCHANGED <<call, result>>
    BY <2>1, <2>2, UnchangedAccounted DEF server
  <2>3. CASE call # Nothing /\ call.op = "reopen" /\ call' = Nothing /\ result' = call
    <3>1. Returned(call) /\ first # Nothing
        BY <2>3 DEF AccountedInv, CallInv, Returned
    <3> QED
        BY <2>1, <2>3, <3>1, ReturnAccounted DEF Return
  <2> QED
    BY <1>2, <2>2, <2>3 DEF Selected
<1>3. CASE Reconnect \/ Reopen
    BY <1>3, UnchangedAccounted DEF Reconnect, Reopen, server, reader
<1>4. CASE Begin
  <2>1. first # Nothing /\ first' = first /\ result' = Nothing
    BY <1>4 DEF Begin, NumberingInv, reader
  <2>2. PICK op \in {"rows", "text", "flags", "reopen", "listing"}, asked \in SUBSET Uids : call' = Call(op, asked)
    BY <1>4 DEF Begin
  <2>3. CallInv(call)'
    <3>1. IsCall(call)' /\ call'.op = op /\ ~call'.apart /\ call'.texts = NoRows
        BY <2>2 DEF Call, IsCall
    <3>2. TextsTrue(call)'
        BY <3>1 DEF TextsTrue, NoRows
    <3> QED
        BY <3>1, <3>2 DEF CallInv
  <2> QED
    BY <2>1, <2>3 DEF AccountedInv
<1>5. CASE CallStep
    BY <1>5, FetchRowsAccounted, FetchRowsApartAccounted, FetchStructureAccounted,
       FetchTextAccounted, LastStepAccounted DEF CallStep
<1>6. CASE Renumber \/ \E uid \in Uids : Expunge(uid)
  <2>1. UNCHANGED <<first, shapes, call, result>>
    BY <1>6 DEF Renumber, Expunge, reader
  <2> QED
    BY <1>6, <2>1, UnchangedAccounted
<1>7. CASE UNCHANGED vars
    BY <1>7, UnchangedAccounted DEF vars, server, reader
<1> QED
    BY <1>1, <1>2, <1>3, <1>4, <1>5, <1>6, <1>7 DEF Next

\* Whatever a server refuses, describes in a way that cannot be read, or
\* expunges meanwhile, and however often the session is opened anew between
\* two commands, a call's rows and texts account for every message asked for
\* (reader.rs, fetch_rows_by_uid and fetch_text).
THEOREM MessagesAccountedFor == Spec => []EveryMessageIsAccountedFor
<1>1. Init => NumberingInv /\ AccountedInv
    BY DEF Init, SessionInit, NumberingInv, UidsMeanTheSame, MailboxType, AccountedInv
<1>2. NumberingInv /\ AccountedInv /\ [Next]_vars => NumberingInv' /\ AccountedInv'
    BY NumberingKept, AccountedKept
<1>3. AccountedInv => EveryMessageIsAccountedFor
    BY DEF AccountedInv, Returned, RowsTrue, TextsTrue, EveryMessageIsAccountedFor
<1> QED
    BY <1>1, <1>2, <1>3, PTL DEF Spec
=============================================================================
