--------------------------- MODULE AccountObserver ---------------------------
(***************************************************************************)
(* The observer of GNOME Online Accounts (crates/goa-adapter/src/          *)
(* client.rs): it reads the whole account list whenever a bus signal says  *)
(* it may have changed or the user asks for a Retry, one read at a time.   *)
(*                                                                         *)
(* Signals and answers cross the bus at their own pace: the model delivers *)
(* them in any order, which includes the bus's own.                        *)
(***************************************************************************)
EXTENDS Naturals

CONSTANTS
    Accounts,       \* the account lists Online Accounts may hold
    NoAccounts,     \* the empty list the observer starts from
    Failure,        \* the answer of a read that failed or timed out
    MaxChanges,     \* bound: changes of the account list, or signals of none
    MaxRetries,     \* bound: the user's Retries
    MaxFailures     \* bound: reads and connections that fail

ASSUME ObserverAssumption ==
    /\ NoAccounts \in Accounts
    /\ Failure \notin Accounts
    /\ MaxChanges \in Nat /\ MaxRetries \in Nat /\ MaxFailures \in Nat

VARIABLES
    goa,            \* the accounts Online Accounts holds
    signals,        \* change signals on their way
    answer,         \* the answer on its way, once the call was served
    update,         \* the AccountUpdate: accounts, last_check, retry_pending
    read,           \* where the read behind read_cancellable is
    connected,      \* whether `connection` is there, and the subscriptions
    refetch_needed,
    stopped,
    spent           \* changes, retries and failures so far

vars == <<goa, signals, answer, update, read, connected, refetch_needed, stopped, spent>>

Checks == {"NotChecked", "Complete", "Failed"}
Reads  == {"none", "connecting", "called", "answered"}

TypeInvariant ==
    /\ goa \in Accounts
    /\ signals \in Nat
    /\ answer \in Accounts \union {Failure}
    /\ update \in [accounts : Accounts, last_check : Checks, retry_pending : BOOLEAN]
    /\ read \in Reads
    /\ connected \in BOOLEAN /\ refetch_needed \in BOOLEAN /\ stopped \in BOOLEAN
    /\ spent \in [changes : Nat, retries : Nat, failures : Nat]

\* GoaAdapter::start requests the first read before there is a connection.
Init ==
    /\ goa \in Accounts
    /\ signals = 0 /\ answer = Failure
    /\ update = [accounts |-> NoAccounts, last_check |-> "NotChecked", retry_pending |-> FALSE]
    /\ read = "connecting"
    /\ connected = FALSE /\ refetch_needed = FALSE /\ stopped = FALSE
    /\ spent = [changes |-> 0, retries |-> 0, failures |-> 0]

-----------------------------------------------------------------------------
(* Online Accounts.                                                        *)

\* The list changes, or a property no list shows; subscribers are told.
GoaChanges ==
    /\ spent.changes < MaxChanges
    /\ spent' = [spent EXCEPT !.changes = @ + 1]
    /\ goa' \in Accounts
    /\ signals' = IF connected THEN signals + 1 ELSE signals
    /\ UNCHANGED <<answer, update, read, connected, refetch_needed, stopped>>

Fail == /\ spent.failures < MaxFailures
        /\ spent' = [spent EXCEPT !.failures = @ + 1]

\* The call is served with the accounts of that moment, or fails.
GoaAnswers ==
    /\ read = "called"
    /\ read' = "answered"
    /\ \/ answer' = goa /\ UNCHANGED spent
       \/ answer' = Failure /\ Fail
    /\ UNCHANGED <<goa, signals, update, connected, refetch_needed, stopped>>

-----------------------------------------------------------------------------
(* The observer.                                                           *)

\* A read starts with the call, or first with the connection.
StartedRead == IF connected THEN "called" ELSE "connecting"

RequestRead ==
    IF read # "none"
    THEN refetch_needed' = TRUE /\ UNCHANGED read
    ELSE read' = StartedRead /\ UNCHANGED refetch_needed

\* Mutant: the pending Retry waits for a read that will not be made.
FinishReadKeepingRetry(result) ==
    /\ update' = IF result = Failure
                 THEN [update EXCEPT !.last_check = "Failed"]
                 ELSE [accounts |-> result, last_check |-> "Complete",
                       retry_pending |-> update.retry_pending /\ refetch_needed]
    /\ read' = IF refetch_needed THEN StartedRead ELSE "none"
    /\ refetch_needed' = FALSE

\* Mutant: the read asked for meanwhile is forgotten with the flag.
FinishReadWithoutRefetch(result) ==
    /\ update' = [accounts   |-> IF result = Failure THEN update.accounts ELSE result,
                  last_check |-> IF result = Failure THEN "Failed" ELSE "Complete",
                  retry_pending |-> update.retry_pending /\ refetch_needed]
    /\ read' = "none"
    /\ refetch_needed' = FALSE

\* A failed read keeps the accounts; a read asked for meanwhile starts now,
\* and a Retry goes on with it.  The update is then published.
FinishRead(result) ==
    /\ update' = [accounts   |-> IF result = Failure THEN update.accounts ELSE result,
                  last_check |-> IF result = Failure THEN "Failed" ELSE "Complete",
                  retry_pending |-> update.retry_pending /\ refetch_needed]
    /\ read' = IF refetch_needed THEN StartedRead ELSE "none"
    /\ refetch_needed' = FALSE

\* The bus connection is there: subscribe, then read.
Connect ==
    /\ read = "connecting"
    /\ connected' = TRUE /\ read' = "called"
    /\ UNCHANGED <<goa, signals, answer, update, refetch_needed, stopped, spent>>

ConnectFails ==
    /\ read = "connecting"
    /\ Fail
    /\ FinishRead(Failure)
    /\ UNCHANGED <<goa, signals, answer, connected, stopped>>

ReadCompletes ==
    /\ read = "answered"
    /\ FinishRead(answer)
    /\ answer' = Failure
    /\ UNCHANGED <<goa, signals, connected, stopped, spent>>

SignalArrives ==
    /\ signals > 0 /\ signals' = signals - 1
    /\ RequestRead
    /\ UNCHANGED <<goa, answer, update, connected, stopped, spent>>

\* The user's Retry.
RefreshAccounts ==
    /\ ~stopped
    /\ spent.retries < MaxRetries
    /\ spent' = [spent EXCEPT !.retries = @ + 1]
    /\ update' = [update EXCEPT !.retry_pending = TRUE]
    /\ RequestRead
    /\ UNCHANGED <<goa, signals, answer, connected, stopped>>

\* The window closes: the read is cancelled, the subscriptions end.
Stop ==
    /\ ~stopped /\ stopped' = TRUE
    /\ read' = "none" /\ connected' = FALSE
    /\ signals' = 0 /\ answer' = Failure
    /\ UNCHANGED <<goa, update, refetch_needed, spent>>

ObserverStep == GoaAnswers \/ Connect \/ ConnectFails \/ ReadCompletes \/ SignalArrives

Next == GoaChanges \/ ObserverStep \/ RefreshAccounts \/ Stop

Spec == Init /\ [][Next]_vars

-----------------------------------------------------------------------------
(* Correctness.                                                            *)

UpToDate == update.last_check = "Complete" /\ update.accounts = goa

\* No change is missed: when nothing runs and no signal is on its way, the
\* accounts published as complete are those Online Accounts holds, whatever
\* changed while a call was being served, answered or delivered.
CurrentWhenIdle ==
    (~stopped /\ read = "none" /\ signals = 0) => (UpToDate \/ update.last_check = "Failed")

\* The pending Retry the window shows is always being served by a read.
RetryIsServed == (update.retry_pending /\ ~stopped) => read # "none"

\* A Retry comes to an end, in an answer or in a failure.
RetryEnds == update.retry_pending ~> (stopped \/ ~update.retry_pending)
=============================================================================
