----------------------------- MODULE ImapSession -----------------------------
(***************************************************************************)
(* How a session with an IMAP server is opened                             *)
(* (crates/mailbag-imap/src/session.rs, transport.rs, mailbox_list.rs):    *)
(* connect, secure, sign in, ask for what the server offers, open the      *)
(* mailbox or list the names.  One step awaits one answer; every failure   *)
(* ends the opening with the step it happened in and closes the socket.    *)
(*                                                                         *)
(* The server answers what a server may answer.  The texts of its replies  *)
(* and alerts are left out.                                                *)
(***************************************************************************)
EXTENDS Naturals, Sequences, FiniteSets

CONSTANTS
    Announcements,  \* the capability lists a server may announce
    Nothing         \* no failure, nothing opened yet

ASSUME SessionAssumption == Announcements \subseteq SUBSET STRING

VARIABLES
    account,        \* the account's Encryption, Credential, and whether it is Gmail's
    opened_for,     \* the step a failure after sign-in belongs to
    stage,          \* what the opening awaits, Open or Listed once done, or Failed
    stream,         \* the socket: none, plaintext, tls or closed
    announced,      \* the latest capability list, and the stream it came over
    sent,           \* the credentials sent on this connection
    features,       \* what this connection's server agreed to
    failure         \* the ImapFailure: its kind and step

session == <<stage, stream, announced, sent, features, failure>>

Encryptions == {"ImplicitTls", "StartTls"}
Credentials == {"Password", "AccessToken"}

NoCapabilities == [names |-> {}, over |-> "none"]

\* Mailbag opens a session for one mailbox, or to list the account's names.
\* Only Gmail is told who the client is.
SessionInit ==
    /\ account \in {a \in [encryption : Encryptions, credential : Credentials, gmail : BOOLEAN] :
                       a.gmail => a.credential = "AccessToken"}
    /\ opened_for \in {"OpenMailbox", "ListMailboxes"}
    /\ stage = "Connecting" /\ stream = "none"
    /\ announced = NoCapabilities /\ sent = <<>> /\ features = {}
    /\ failure = Nothing

\* Await the answer of the next step.
Await(next) == stage' = next /\ UNCHANGED failure

\* The step fails: the server refuses or the connection breaks, or nothing
\* comes for SOCKET_TIMEOUT_SECONDS.  Dropping the connection closes it.
Fails(kind, step) ==
    /\ stage' = "Failed" /\ stream' = "closed"
    /\ failure' = [kind |-> kind, step |-> step]
    /\ UNCHANGED <<announced, sent, features>>

Breaks(step) == \E kind \in {"Failed", "TimedOut"} : Fails(kind, step)

-----------------------------------------------------------------------------
(* The connection.                                                         *)

Connected ==
    /\ stage = "Connecting"
    /\ stream' = "plaintext"
    /\ announced' = NoCapabilities /\ sent' = <<>> /\ features' = {}
    /\ Await(IF account.encryption = "StartTls" THEN "PlaintextGreeting" ELSE "Handshake")

\* A greeting that needs no sign-in would skip the encryption.
PlaintextGreeting ==
    /\ stage = "PlaintextGreeting"
    /\ \/ Await("PlaintextCapabilities") /\ UNCHANGED <<stream, announced, sent, features>>
       \/ Fails("Failed", "SecureConnection")
       \/ Breaks("Connect")

\* The list the server announces over the stream there is.
Announces(names) == announced' = [names |-> names, over |-> stream]

PlaintextCapabilities ==
    /\ stage = "PlaintextCapabilities"
    /\ \E names \in Announcements :
          IF "STARTTLS" \in names
          THEN Await("StartTls") /\ Announces(names) /\ UNCHANGED <<stream, sent, features>>
          ELSE Fails("Failed", "SecureConnection")

StartTls ==
    /\ stage = "StartTls"
    /\ Await("Handshake") /\ UNCHANGED <<stream, announced, sent, features>>

\* Mutant: what the server announced before TLS is not asked for again.
SecuredKeepingTheList ==
    IF account.encryption = "ImplicitTls" THEN Await("Greeting") ELSE Await("SignInMethod")

\* The plaintext client is gone; a server greets once.
Secured ==
    IF account.encryption = "ImplicitTls" THEN Await("Greeting") ELSE Await("Capabilities")

Handshake ==
    /\ stage = "Handshake"
    /\ stream' = "tls"
    /\ Secured
    /\ UNCHANGED <<announced, sent, features>>

Greeting ==
    /\ stage = "Greeting"
    /\ Await("Capabilities") /\ UNCHANGED <<stream, announced, sent, features>>

-----------------------------------------------------------------------------
(* Signing in.                                                             *)

CapabilitiesArrive ==
    /\ stage = "Capabilities"
    /\ \E names \in Announcements : Announces(names)
    /\ Await("SignInMethod") /\ UNCHANGED <<stream, sent, features>>

\* A token goes by XOAUTH2 only; a password by PLAIN, else by LOGIN.
Usable(names) ==
    IF account.credential = "AccessToken"
    THEN {"XOAUTH2" : name \in names \intersect {"AUTH=XOAUTH2"}}
    ELSE IF "AUTH=PLAIN" \in names THEN {"PLAIN"}
    ELSE {"LOGIN"} \ {"LOGIN" : name \in names \intersect {"LOGINDISABLED"}}

Methods == Usable(announced.names)

SendCredential(method) ==
    sent' = Append(sent, [method |-> method, stream |-> stream, announced |-> announced])

\* LOGIN carries the credential; AUTHENTICATE waits for a challenge.
ChooseMethod ==
    /\ stage = "SignInMethod"
    /\ \/ Methods = {} /\ Fails("NoSignInMethod", "SignIn")
       \/ \E method \in Methods :
             /\ IF method = "LOGIN" THEN SendCredential(method) /\ Await("SigningIn")
                ELSE UNCHANGED sent /\ Await("Authenticating")
             /\ UNCHANGED <<stream, announced, features>>

\* An unexpected second challenge gets an empty answer.
AnswerChallenge(method) ==
    IF sent = <<>> THEN SendCredential(method) ELSE UNCHANGED sent

Challenge ==
    /\ stage = "Authenticating"
    /\ \E method \in Methods : AnswerChallenge(method)
    /\ UNCHANGED <<stage, stream, announced, features, failure>>

\* A rejected sign-in is not tried with another method.
SignedIn ==
    /\ stage \in {"SigningIn", "Authenticating"}
    /\ Await("CapabilitiesAfter")
    /\ UNCHANGED <<stream, announced, sent, features>>

-----------------------------------------------------------------------------
(* What the server offers once signed in.                                  *)

\* Compression, UTF-8 names, the client's identity, then the mailbox or list.
Offered(names) ==
    <<[stage |-> "Compressing", asked |-> "COMPRESS=DEFLATE" \in names],
      [stage |-> "EnablingUtf8", asked |-> {"UTF8=ACCEPT", "UTF8=ONLY"} \intersect names # {}],
      [stage |-> "Identifying", asked |-> account.gmail],
      [stage |-> IF opened_for = "OpenMailbox" THEN "Selecting" ELSE "Listing", asked |-> TRUE]>>

\* The first command asked for from the given place on.
NextStage(place, names) ==
    LET commands == Offered(names)
        first    == CHOOSE i \in place..4 :
                       commands[i].asked /\ \A j \in place..i - 1 : ~commands[j].asked
    IN  commands[first].stage

CapabilitiesAfter ==
    /\ stage = "CapabilitiesAfter"
    /\ \E names \in Announcements : Announces(names) /\ Await(NextStage(1, names))
    /\ UNCHANGED <<stream, sent, features>>

\* A refusal leaves the connection as it is; a broken connection fails.
AskFor ==
    \E place \in 1..3 :
        /\ stage = Offered(announced.names)[place].stage
        /\ features' \in {features, features \union {stage}}
        /\ Await(NextStage(place + 1, announced.names))
        /\ UNCHANGED <<stream, announced, sent>>

\* A refused or cut list is a failure, never a shorter list.
NamesListed ==
    /\ stage = "Listing"
    /\ Await("Listed") /\ UNCHANGED <<stream, announced, sent, features>>

\* The step each stage's failure is reported for.
StepOf ==
    [Connecting |-> "Connect", PlaintextCapabilities |-> "SecureConnection",
     StartTls |-> "SecureConnection", Handshake |-> "SecureConnection", Greeting |-> "Connect",
     Capabilities |-> "SignIn", SigningIn |-> "SignIn", Authenticating |-> "SignIn",
     CapabilitiesAfter |-> opened_for, Compressing |-> opened_for, EnablingUtf8 |-> opened_for,
     Identifying |-> opened_for, Selecting |-> "OpenMailbox", Listing |-> "ListMailboxes"]

StepFails == stage \in DOMAIN StepOf /\ Breaks(StepOf[stage])

OpeningStep ==
    \/ Connected \/ PlaintextGreeting \/ PlaintextCapabilities \/ StartTls \/ Handshake \/ Greeting
    \/ CapabilitiesArrive \/ ChooseMethod \/ Challenge \/ SignedIn
    \/ CapabilitiesAfter \/ AskFor \/ NamesListed \/ StepFails

-----------------------------------------------------------------------------
(* Correctness.                                                            *)

\* A credential goes out at most once on a connection, on the secured stream
\* and by a method that the server announced there, however the connection
\* is secured and however often the server asks.
CredentialGoesOutOnce ==
    /\ Len(sent) <= 1
    /\ \A i \in DOMAIN sent :
          /\ sent[i].stream = "tls" /\ sent[i].announced.over = "tls"
          /\ sent[i].method \in Usable(sent[i].announced.names)
=============================================================================
