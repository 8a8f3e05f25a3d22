-------------------------------- MODULE Loads --------------------------------
(***************************************************************************)
(* One load at a time, from the user's refresh to its end, against the     *)
(* account updates that cancel it and delete its account's mail.           *)
(*                                                                         *)
(* Four threads of control meet here: GTK's (crates/mailbag/src/           *)
(* window_ui.rs and refreshes.rs, crates/mailbag-providers/src/lib.rs),    *)
(* the mail worker's (worker.rs, store_load.rs), GIO's pool, where the     *)
(* deletions wait in no order, and Online Accounts, which answers when it  *)
(* likes.  The store is here only what its lock orders: which accounts     *)
(* have rows.  MailStore has its tables, ImapCycle what a load writes.     *)
(***************************************************************************)
EXTENDS Naturals, FiniteSets, Functions

CONSTANTS
    Accounts,
    NoLoad,
    MaxLoads,       \* bound: loads started
    MaxAnswers,     \* bound: complete account answers
    MaxBatches,     \* bound: batches of a mailbox's cycle
    MaxFailures,    \* bound: failed deletions
    MaxDeaths       \* bound: worker threads that panic while dropping a load

ASSUME LoadsAssumption ==
    /\ IsFiniteSet(Accounts)
    /\ {MaxLoads, MaxAnswers, MaxBatches, MaxFailures, MaxDeaths} \subseteq Nat
    /\ NoLoad \notin Nat

VARIABLES
    visible,        \* GTK: the accounts of the sidebar
    with_mail,      \* GTK: the accounts with Mail on of the latest complete answer
    running_load,   \* GTK: Refreshes::running_load, the load's number or NoLoad
    outcomes,       \* GTK: Refreshes::outcomes, each naming its load
    loads,          \* every load started: its request, where it is, its end
    worker,         \* the worker's thread: none, idle, busy, dying or gone
    locked,         \* the load that writes under the store's lock, or NoLoad
    stored,         \* the accounts with rows in the store
    deletions,      \* pool: deletions that wait, each with the accounts it keeps
    answers,        \* complete answers applied so far
    carried_out,    \* the latest answer's deletion has succeeded
    closed,         \* the window is closed
    spent           \* deletions failed and threads died so far

vars == <<visible, with_mail, running_load, outcomes, loads, worker, locked,
          stored, deletions, answers, carried_out, closed, spent>>

gtk   == <<visible, with_mail, running_load, outcomes, answers, closed>>
store == <<stored, deletions, carried_out>>

Targets  == {"FolderList", "Mailbox"}
Results  == {"Stored", "Failed", "Cancelled"}
Statuses == {"shown", "unavailable", "unsupported", "off"}
Steps    == {"access", "queued", "running", "renewing", "writing", "ended", "over"}
Numbers  == 1..MaxLoads

Load == [account : Accounts, target : Targets, at : Steps, cancelled : BOOLEAN,
         renewed : BOOLEAN, batches : Nat, result : Results]

TypeInvariant ==
    /\ visible \subseteq Accounts /\ with_mail \subseteq Accounts /\ stored \subseteq Accounts
    /\ DOMAIN loads \subseteq Numbers /\ loads \in [DOMAIN loads -> Load]
    /\ running_load \in DOMAIN loads \union {NoLoad}
    /\ DOMAIN outcomes \subseteq Accounts
    /\ \A a \in DOMAIN outcomes : outcomes[a] \in DOMAIN loads /\ loads[outcomes[a]].account = a
    /\ worker \in {"none", "idle", "busy", "dying", "gone"}
    /\ locked \in DOMAIN loads \union {NoLoad}
    /\ deletions \subseteq [answer : 1..answers, keeps : SUBSET Accounts]
    /\ answers \in Nat /\ carried_out \in BOOLEAN /\ closed \in BOOLEAN
    /\ spent \in [failures : Nat, deaths : Nat]

\* The application starts with the mail of an earlier run.
Init ==
    /\ visible = {} /\ with_mail = {} /\ stored \in SUBSET Accounts
    /\ running_load = NoLoad /\ outcomes = <<>> /\ loads = <<>>
    /\ worker = "none" /\ locked = NoLoad
    /\ deletions = {} /\ answers = 0 /\ carried_out = FALSE /\ closed = FALSE
    /\ spent = [failures |-> 0, deaths |-> 0]

At(step) == {l \in DOMAIN loads : loads[l].at = step}

\* The load's own state goes with it; its end waits to be delivered.
Ended(l, result) ==
    [loads EXCEPT ![l].at = "ended", ![l].result = result, ![l].renewed = FALSE, ![l].batches = 0]
Over(l) == [loads EXCEPT ![l].at = "over", ![l].result = "Cancelled"]

-----------------------------------------------------------------------------
(* GTK: refreshes.                                                         *)

\* Refresh Mailbox or Refresh Account of a shown account; not queued.
StartLoad(account, target) ==
    LET l == Cardinality(DOMAIN loads) + 1 IN
    /\ ~closed /\ running_load = NoLoad /\ account \in visible /\ l \in Numbers
    /\ loads' = [i \in 1..l |->
                   IF i < l THEN loads[i]
                   ELSE [account |-> account, target |-> target, at |-> "access",
                         cancelled |-> FALSE, renewed |-> FALSE, batches |-> 0,
                         result |-> "Cancelled"]]
    /\ running_load' = l
    /\ UNCHANGED <<visible, with_mail, outcomes, worker, locked, store, answers, closed, spent>>

\* The running load ends if the account is its account; what it was cancelled
\* for leaves no outcome.
Recorded(l, result) ==
    LET account == loads[l].account IN
    IF result = "Cancelled" \/ loads[l].cancelled
    THEN outcomes
    ELSE [a \in DOMAIN outcomes \union {account} |-> IF a = account THEN l ELSE outcomes[a]]

IsRunning(account) == running_load # NoLoad /\ loads[running_load].account = account

\* Mutant: the end of a load cancelled by an exclusion is recorded.
FinishLoadOfExcluded(l, result) ==
    /\ loads' = Over(l)
    /\ running_load' = IF IsRunning(loads[l].account) THEN NoLoad ELSE running_load
    /\ outcomes' = IF IsRunning(loads[l].account) /\ result # "Cancelled"
                   THEN [a \in DOMAIN outcomes \union {loads[l].account} |->
                            IF a = loads[l].account THEN l ELSE outcomes[a]]
                   ELSE outcomes

FinishLoad(l, result) ==
    /\ loads' = Over(l)
    /\ IF IsRunning(loads[l].account)
       THEN running_load' = NoLoad /\ outcomes' = Recorded(running_load, result)
       ELSE UNCHANGED <<running_load, outcomes>>

\* A worker whose thread is gone, or was never there, starts one.
WithThread == IF worker \in {"none", "gone"} THEN "idle" ELSE worker

\* Online Accounts gave the access; the load joins the worker's queue.
AccessGiven(l) ==
    /\ l \in At("access") /\ ~loads[l].cancelled
    /\ loads' = [loads EXCEPT ![l].at = "queued"]
    /\ worker' = WithThread
    /\ UNCHANGED <<gtk, locked, store, spent>>

\* No access: the load ends here.  A cancelled request always ends so.
AccessRefused(l) ==
    /\ l \in At("access")
    /\ FinishLoad(l, IF loads[l].cancelled THEN "Cancelled" ELSE "Failed")
    /\ UNCHANGED <<visible, with_mail, worker, locked, store, answers, closed, spent>>

\* The load's last event; it comes too when its thread vanished.
EndDelivered(l) ==
    /\ l \in At("ended")
    /\ FinishLoad(l, loads[l].result)
    /\ UNCHANGED <<visible, with_mail, worker, locked, store, answers, closed, spent>>

\* Online Accounts was asked for a Microsoft 365 token again, on GTK's context.
RenewalAnswered(l) ==
    /\ l \in At("renewing")
    /\ loads' = [loads EXCEPT ![l].at = "running", ![l].renewed = TRUE]
    /\ UNCHANGED <<gtk, worker, locked, store, spent>>

-----------------------------------------------------------------------------
(* GTK: account updates.                                                   *)

\* An account whose service is missing keeps its row, and never gets a new one.
Shown(status) ==
    {a \in Accounts : status[a] = "shown" \/ (status[a] = "unavailable" /\ a \in visible)}

\* Mutant: a load of a hidden account is forgotten, not only cancelled.
DiscardExcludedForgetting(now) ==
    /\ outcomes' = Restrict(outcomes, DOMAIN outcomes \intersect now)
    /\ IF running_load # NoLoad /\ loads[running_load].account \notin now
       THEN loads' = [loads EXCEPT ![running_load].cancelled = TRUE] /\ running_load' = NoLoad
       ELSE UNCHANGED <<loads, running_load>>

\* Mutant: only the outcomes are discarded; the load goes on.
DiscardExcludedUncancelled(now) ==
    /\ outcomes' = Restrict(outcomes, DOMAIN outcomes \intersect now)
    /\ UNCHANGED <<loads, running_load>>

\* A load of a hidden account is cancelled; it stays the running one until it ends.
DiscardExcluded(now) ==
    /\ outcomes' = Restrict(outcomes, DOMAIN outcomes \intersect now)
    /\ loads' = IF running_load # NoLoad /\ loads[running_load].account \notin now
                THEN [loads EXCEPT ![running_load].cancelled = TRUE] ELSE loads
    /\ UNCHANGED running_load

\* A complete answer: hide, cancel, then send the deletion.
ApplyUpdate(status) ==
    /\ ~closed /\ answers < MaxAnswers /\ answers' = answers + 1
    /\ visible' = Shown(status)
    /\ DiscardExcluded(visible')
    /\ with_mail' = {a \in Accounts : status[a] # "off"}
    /\ deletions' = deletions \union {[answer |-> answers', keeps |-> with_mail']}
    /\ carried_out' = FALSE
    /\ UNCHANGED <<worker, locked, stored, closed, spent>>

\* The window closes and cancels the load without waiting for its worker.
Quit ==
    /\ ~closed /\ closed' = TRUE
    /\ loads' = IF running_load = NoLoad THEN loads
                ELSE [loads EXCEPT ![running_load].cancelled = TRUE]
    /\ running_load' = NoLoad
    /\ UNCHANGED <<visible, with_mail, outcomes, worker, locked, store, answers, spent>>

\* GIO's pool runs a deletion: any that waits, when it gets the lock.
DeletionRuns(deletion) ==
    /\ deletion \in deletions /\ locked = NoLoad
    /\ deletions' = deletions \ {deletion}
    /\ \/ /\ stored' = stored \intersect deletion.keeps
          /\ carried_out' = (carried_out \/ deletion.answer = answers)
          /\ UNCHANGED spent
       \/ /\ spent.failures < MaxFailures
          /\ spent' = [spent EXCEPT !.failures = @ + 1]
          /\ UNCHANGED <<stored, carried_out>>
    /\ UNCHANGED <<gtk, loads, worker, locked>>

-----------------------------------------------------------------------------
(* The mail worker.                                                        *)

\* The thread takes the oldest request of its queue.
WorkerTakes(l) ==
    /\ worker = "idle" /\ l \in At("queued") /\ \A m \in At("queued") : l <= m
    /\ worker' = "busy"
    /\ loads' = [loads EXCEPT ![l].at = "running"]
    /\ UNCHANGED <<gtk, locked, store, spent>>

\* The load's end leaves the thread, which goes on with its queue.
WorkerEnds(l, result) ==
    /\ worker' = "idle"
    /\ loads' = Ended(l, result)

\* The cancellation is seen at any wait of the load for somebody else.
CancellationSeen(l) ==
    /\ l \in At("running") \union At("renewing") /\ loads[l].cancelled
    /\ WorkerEnds(l, "Cancelled")
    /\ UNCHANGED <<gtk, locked, store, spent>>

\* The connection fails, or the load panics: it ends alone.
LoadFails(l) ==
    /\ l \in At("running")
    /\ WorkerEnds(l, "Failed")
    /\ UNCHANGED <<gtk, locked, store, spent>>

\* A cycle is through, or the folder list came back empty and is not stored.
LoadCompletes(l) ==
    /\ l \in At("running")
    /\ WorkerEnds(l, "Stored")
    /\ UNCHANGED <<gtk, locked, store, spent>>

\* The service refused the token: once in a load, it is asked for again.
AsksForRenewal(l) ==
    /\ l \in At("running") /\ loads[l].target = "Mailbox" /\ ~loads[l].renewed
    /\ loads' = [loads EXCEPT ![l].at = "renewing"]
    /\ UNCHANGED <<gtk, worker, locked, store, spent>>

\* Mutant: the cancellation is asked for before the lock is taken.
WriteBeginsUnlocked(l) ==
    /\ l \in At("running") /\ locked = NoLoad
    /\ loads[l].target = "Mailbox" => loads[l].batches < MaxBatches
    /\ IF loads[l].cancelled
       THEN WorkerEnds(l, "Cancelled") /\ UNCHANGED locked
       ELSE /\ loads' = [loads EXCEPT ![l].at = "writing"]
            /\ UNCHANGED <<locked, worker>>
    /\ UNCHANGED <<gtk, store, spent>>

\* A write takes the store's lock and asks whether the load was cancelled.
WriteBegins(l) ==
    /\ l \in At("running") /\ locked = NoLoad
    /\ loads[l].target = "Mailbox" => loads[l].batches < MaxBatches
    /\ IF loads[l].cancelled
       THEN WorkerEnds(l, "Cancelled") /\ UNCHANGED locked
       ELSE /\ loads' = [loads EXCEPT ![l].at = "writing"]
            /\ locked' = l /\ UNCHANGED worker
    /\ UNCHANGED <<gtk, store, spent>>

\* A folder list gives the account its rows; a batch needs the folder's row.
WriteCommits(l) ==
    /\ l \in At("writing")
    /\ locked' = NoLoad
    /\ CASE loads[l].target = "FolderList" ->
                WorkerEnds(l, "Stored") /\ stored' = stored \union {loads[l].account}
         [] loads[l].target = "Mailbox" /\ loads[l].account \notin stored ->
                WorkerEnds(l, "Failed") /\ UNCHANGED stored
         [] OTHER ->
                /\ loads' = [loads EXCEPT ![l].at = "running", ![l].batches = @ + 1]
                /\ UNCHANGED <<worker, stored>>
    /\ UNCHANGED <<gtk, deletions, carried_out, spent>>

\* A write that fails rolls back.
WriteFails(l) ==
    /\ l \in At("writing")
    /\ locked' = NoLoad
    /\ WorkerEnds(l, "Failed")
    /\ UNCHANGED <<gtk, store, spent>>

\* Mutant: nobody reports the end of a load whose thread is gone.
WorkerUnwindsUnreported(l) ==
    /\ l \in At("running") \union At("renewing") /\ loads[l].cancelled
    /\ spent.deaths < MaxDeaths /\ spent' = [spent EXCEPT !.deaths = @ + 1]
    /\ worker' = "dying"
    /\ loads' = Over(l)
    /\ UNCHANGED <<gtk, locked, store>>

\* A panic while a cancelled load is dropped unwinds the thread: first the
\* load's events close, which the window hears as its end ...
WorkerUnwinds(l) ==
    /\ l \in At("running") \union At("renewing") /\ loads[l].cancelled
    /\ spent.deaths < MaxDeaths /\ spent' = [spent EXCEPT !.deaths = @ + 1]
    /\ worker' = "dying"
    /\ loads' = Ended(l, "Failed")
    /\ UNCHANGED <<gtk, locked, store>>

\* ... then the queue closes.
WorkerGone ==
    /\ worker = "dying" /\ worker' = "gone"
    /\ UNCHANGED <<gtk, loads, locked, store, spent>>

-----------------------------------------------------------------------------

\* What goes on without the user: every wait has a timeout.
LoadStep(l) ==
    \/ AccessGiven(l) \/ AccessRefused(l) \/ EndDelivered(l) \/ RenewalAnswered(l)
    \/ WorkerTakes(l) \/ CancellationSeen(l) \/ LoadFails(l) \/ LoadCompletes(l)
    \/ AsksForRenewal(l) \/ WriteBegins(l) \/ WriteCommits(l) \/ WriteFails(l)

Next ==
    \/ \E a \in Accounts, t \in Targets : StartLoad(a, t)
    \/ \E status \in [Accounts -> Statuses] : ApplyUpdate(status)
    \/ \E l \in DOMAIN loads : LoadStep(l) \/ WorkerUnwinds(l)
    \/ \E d \in deletions : DeletionRuns(d)
    \/ WorkerGone
    \/ Quit

Spec == Init /\ [][Next]_vars

\* GLib runs what is ready; D-Bus, the socket and HTTP time out.
FairSpec == Spec /\ WF_vars((\E l \in DOMAIN loads : LoadStep(l)) \/ WorkerGone)

-----------------------------------------------------------------------------
(* Correctness.                                                            *)

\* A load still has a connection to close, or the right to write.
Active(l) == loads[l].at \notin {"ended", "over"}

\* One load at a time, also while a cancelled one is still closing its
\* connection: two would race for the store and for the worker.
OneLoadAtATime == ~closed => \A l, m \in DOMAIN loads : Active(l) /\ Active(m) => l = m

\* A late result stays out: once the latest answer's deletion has succeeded, no
\* account without Mail has rows, whatever its load was doing meanwhile.
LateResultStaysOut == carried_out => stored \subseteq with_mail

\* An outcome belongs to a shown account, and to a load that no exclusion
\* cancelled: an account hidden and shown again starts without one.
OutcomesOfShownAccounts ==
    \A a \in DOMAIN outcomes : a \in visible /\ ~loads[outcomes[a]].cancelled

\* The refresh actions become available again: every load ends.
LoadsEnd == (running_load # NoLoad) ~> (running_load = NoLoad)

\* A request left in the queue of a thread that is unwinding.
Stranded == worker = "gone" /\ At("queued") # {}

\* Every load ends, but for one whose request met the unwinding thread's queue.
LoadsEndUnlessStranded == (running_load # NoLoad) ~> (running_load = NoLoad \/ Stranded)
=============================================================================
