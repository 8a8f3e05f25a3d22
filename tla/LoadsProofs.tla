----------------------------- MODULE LoadsProofs -----------------------------
(***************************************************************************)
(* What holds of the loads for every set of accounts and any number of     *)
(* loads, account answers, batches, failed deletions and dead workers.     *)
(* The three safety properties rest on one invariant in two halves: what   *)
(* GTK's thread knows of the load that is not over, and what the store's   *)
(* lock orders between a load's write and a deletion.                      *)
(***************************************************************************)
EXTENDS Loads, FiniteSetTheorems, TLAPS

\* Loads are numbered as they start.
Numbered == \E n \in Nat : n <= MaxLoads /\ DOMAIN loads = 1..n

\* A load that is not over is the running one, or was cancelled at the close.
OnlyRunningAlive ==
    \A l \in DOMAIN loads :
        loads[l].at # "over" => running_load = l \/ (closed /\ loads[l].cancelled)

\* The running load is not over, and it is cancelled or its account shown.
RunningIsAlive ==
    running_load # NoLoad =>
        /\ ~closed
        /\ loads[running_load].at # "over"
        /\ loads[running_load].cancelled \/ loads[running_load].account \in visible

\* An outcome's load is over, so no later exclusion cancels it.
OutcomesOver ==
    \A a \in DOMAIN outcomes :
        a \in visible /\ loads[outcomes[a]].at = "over" /\ ~loads[outcomes[a]].cancelled

\* The lock is held by the load that writes.
LockIsTheWriters ==
    /\ \A l \in DOMAIN loads : loads[l].at = "writing" => locked = l
    /\ locked # NoLoad => loads[locked].at = "writing"

\* Once the latest answer is carried out, what is stored and what is being
\* written belongs to accounts with Mail.
LateResultsHaveMail ==
    carried_out =>
        /\ stored \subseteq with_mail
        /\ locked # NoLoad => loads[locked].account \in with_mail

\* Of the deletions that wait, the latest answer's keeps the accounts with Mail.
LatestKeepsMail == \A d \in deletions : d.answer = answers => d.keeps = with_mail

GtkKnows ==
    /\ Numbered
    /\ visible \subseteq with_mail
    /\ OnlyRunningAlive
    /\ RunningIsAlive
    /\ OutcomesOver

LockOrders ==
    /\ LockIsTheWriters
    /\ LateResultsHaveMail
    /\ LatestKeepsMail

IInv == TypeInvariant /\ GtkKnows /\ LockOrders

-----------------------------------------------------------------------------
(* What a step changes of a load.                                          *)

\* What the end of a load changes of it.
LEMMA EndedIs ==
    ASSUME TypeInvariant, NEW l \in DOMAIN loads, NEW result \in Results
    PROVE  /\ Ended(l, result) \in [DOMAIN loads -> Load]
           /\ Ended(l, result)[l].at = "ended"
           /\ Ended(l, result)[l].account = loads[l].account
           /\ Ended(l, result)[l].cancelled = loads[l].cancelled
           /\ \A i \in DOMAIN loads \ {l} : Ended(l, result)[i] = loads[i]
<1> DEFINE f1 == [loads EXCEPT ![l].at = "ended"]
           f2 == [f1 EXCEPT ![l].result = result]
           f3 == [f2 EXCEPT ![l].renewed = FALSE]
           f4 == [f3 EXCEPT ![l].batches = 0]
<1>1. Ended(l, result) = f4
    BY DEF Ended
<1>2. /\ f1 \in [DOMAIN loads -> Load]
      /\ f1[l].account = loads[l].account /\ f1[l].cancelled = loads[l].cancelled
      /\ f1[l].at = "ended"
      /\ \A i \in DOMAIN loads \ {l} : f1[i] = loads[i]
    BY DEF TypeInvariant, Load, Steps
<1>3. /\ f2 \in [DOMAIN loads -> Load]
      /\ f2[l].account = loads[l].account /\ f2[l].cancelled = loads[l].cancelled
      /\ f2[l].at = "ended"
      /\ \A i \in DOMAIN loads \ {l} : f2[i] = loads[i]
  <2> HIDE DEF f1
  <2> QED BY <1>2 DEF Load
<1>4. /\ f3 \in [DOMAIN loads -> Load]
      /\ f3[l].account = loads[l].account /\ f3[l].cancelled = loads[l].cancelled
      /\ f3[l].at = "ended"
      /\ \A i \in DOMAIN loads \ {l} : f3[i] = loads[i]
  <2> HIDE DEF f2
  <2> QED BY <1>3 DEF Load
<1>5. /\ f4 \in [DOMAIN loads -> Load]
      /\ f4[l].account = loads[l].account /\ f4[l].cancelled = loads[l].cancelled
      /\ f4[l].at = "ended"
      /\ \A i \in DOMAIN loads \ {l} : f4[i] = loads[i]
  <2> HIDE DEF f3
  <2> QED BY <1>4 DEF Load
<1> HIDE DEF f4
<1> QED BY <1>1, <1>5

\* What being over changes of it.
LEMMA OverIs ==
    ASSUME TypeInvariant, NEW l \in DOMAIN loads
    PROVE  /\ Over(l) \in [DOMAIN loads -> Load]
           /\ Over(l)[l].at = "over"
           /\ Over(l)[l].account = loads[l].account
           /\ Over(l)[l].cancelled = loads[l].cancelled
           /\ \A i \in DOMAIN loads \ {l} : Over(l)[i] = loads[i]
<1> DEFINE f1 == [loads EXCEPT ![l].at = "over"]
           f2 == [f1 EXCEPT ![l].result = "Cancelled"]
<1>1. Over(l) = f2
    BY DEF Over
<1>2. /\ f1 \in [DOMAIN loads -> Load]
      /\ f1[l].account = loads[l].account /\ f1[l].cancelled = loads[l].cancelled
      /\ f1[l].at = "over"
      /\ \A i \in DOMAIN loads \ {l} : f1[i] = loads[i]
    BY DEF TypeInvariant, Load, Steps
<1>3. /\ f2 \in [DOMAIN loads -> Load]
      /\ f2[l].account = loads[l].account /\ f2[l].cancelled = loads[l].cancelled
      /\ f2[l].at = "over"
      /\ \A i \in DOMAIN loads \ {l} : f2[i] = loads[i]
  <2> HIDE DEF f1
  <2> QED BY <1>2 DEF Load, Results
<1> HIDE DEF f2
<1> QED BY <1>1, <1>3

\* A load's own step: it changes where that load is and nothing of the others.
Advances(l) ==
    /\ loads' \in [DOMAIN loads -> Load]
    /\ loads'[l].account = loads[l].account
    /\ loads'[l].cancelled = loads[l].cancelled
    /\ \A i \in DOMAIN loads \ {l} : loads'[i] = loads[i]

\* The variables of the worker, the pool and the store keep their types.
RestTyped ==
    /\ stored \subseteq Accounts
    /\ worker \in {"none", "idle", "busy", "dying", "gone"}
    /\ locked \in DOMAIN loads \union {NoLoad}
    /\ deletions \subseteq [answer : 1..answers, keeps : SUBSET Accounts]
    /\ carried_out \in BOOLEAN
    /\ spent \in [failures : Nat, deaths : Nat]

\* A load that goes on, not over before or after, changes nothing GTK knows.
LEMMA GoesOn ==
    ASSUME IInv, NEW l \in DOMAIN loads, Advances(l), UNCHANGED gtk,
           loads[l].at # "over", loads'[l].at # "over", RestTyped'
    PROVE  TypeInvariant' /\ GtkKnows'
<1> USE DEF IInv, Advances, gtk
<1>1. DOMAIN loads' = DOMAIN loads
    OBVIOUS
<1>2. TypeInvariant'
  <2>1. /\ DOMAIN loads' \subseteq Numbers
        /\ loads' \in [DOMAIN loads' -> Load]
        /\ running_load' \in DOMAIN loads' \union {NoLoad}
        /\ visible' \subseteq Accounts /\ with_mail' \subseteq Accounts
        /\ answers' \in Nat /\ closed' \in BOOLEAN
      BY <1>1 DEF TypeInvariant
  <2>2. /\ DOMAIN outcomes' \subseteq Accounts
        /\ \A a \in DOMAIN outcomes' :
              outcomes'[a] \in DOMAIN loads' /\ loads'[outcomes'[a]].account = a
      BY <1>1 DEF TypeInvariant
  <2> QED BY <2>1, <2>2 DEF TypeInvariant, RestTyped
<1>3. Numbered'
    BY <1>1 DEF GtkKnows, Numbered
<1>4. OnlyRunningAlive'
    BY <1>1 DEF GtkKnows, OnlyRunningAlive
<1>5. RunningIsAlive'
    BY <1>1 DEF GtkKnows, RunningIsAlive, TypeInvariant
<1>6. OutcomesOver'
    BY <1>1 DEF GtkKnows, OutcomesOver, TypeInvariant
<1> QED BY <1>2, <1>3, <1>4, <1>5, <1>6 DEF GtkKnows

\* The end of a load that reaches GTK: the running load is over, and only a
\* shown account's load leaves an outcome.
LEMMA Finishes ==
    ASSUME IInv, NEW l \in DOMAIN loads, NEW result \in Results, FinishLoad(l, result),
           loads[l].at # "over", RestTyped',
           UNCHANGED <<visible, with_mail, answers, closed>>
    PROVE  TypeInvariant' /\ GtkKnows' /\ Advances(l)
<1>1. Advances(l) /\ loads'[l].at = "over" /\ DOMAIN loads' = DOMAIN loads
    BY OverIs DEF IInv, FinishLoad, Advances
<1>2. /\ l \in Nat /\ NoLoad \notin Nat
      /\ \A i \in DOMAIN loads : loads[i] \in Load
      /\ loads[l].account \in Accounts /\ loads[l].cancelled \in BOOLEAN
    BY LoadsAssumption DEF IInv, TypeInvariant, Numbers, Load
<1>3. CASE running_load = l
  <2>1. /\ running_load' = NoLoad
        /\ outcomes' = Recorded(l, result)
      BY <1>2, <1>3 DEF FinishLoad, IsRunning
  <2>2. ASSUME NEW a \in DOMAIN outcomes'
        PROVE  /\ a \in visible /\ outcomes'[a] \in DOMAIN loads /\ a \in Accounts
               /\ loads'[outcomes'[a]].account = a
               /\ loads'[outcomes'[a]].at = "over" /\ ~loads'[outcomes'[a]].cancelled
    <3>1. CASE a \in DOMAIN outcomes /\ outcomes'[a] = outcomes[a]
      <4>1. /\ a \in visible /\ outcomes[a] \in DOMAIN loads /\ a \in Accounts
            /\ loads[outcomes[a]].account = a
            /\ loads[outcomes[a]].at = "over" /\ ~loads[outcomes[a]].cancelled
          BY <3>1 DEF IInv, TypeInvariant, GtkKnows, OutcomesOver
      <4> QED BY <1>1, <3>1, <4>1 DEF Advances
    <3>2. CASE a = loads[l].account /\ outcomes'[a] = l /\ ~loads[l].cancelled
      <4>1. a \in visible
          BY <1>2, <1>3, <3>2 DEF IInv, GtkKnows, RunningIsAlive
      <4> QED BY <1>1, <1>2, <3>2, <4>1 DEF Advances
    <3> QED BY <2>1, <2>2, <3>1, <3>2 DEF Recorded
  <2>3. TypeInvariant'
    <3>1. DOMAIN outcomes' \subseteq Accounts
        BY <2>2
    <3> QED BY <1>1, <2>1, <2>2, <3>1 DEF IInv, TypeInvariant, RestTyped, Advances
  <2>4. OnlyRunningAlive'
      BY <1>1, <1>3 DEF IInv, GtkKnows, OnlyRunningAlive, RunningIsAlive, Advances
  <2>5. Numbered' /\ (visible \subseteq with_mail)' /\ RunningIsAlive'
      BY <1>1, <2>1 DEF IInv, GtkKnows, Numbered, RunningIsAlive
  <2>6. OutcomesOver'
      BY <2>2 DEF OutcomesOver
  <2> QED BY <1>1, <2>3, <2>4, <2>5, <2>6 DEF GtkKnows
<1>4. CASE running_load # l
  <2>1. closed /\ running_load = NoLoad
      BY <1>4 DEF IInv, GtkKnows, OnlyRunningAlive, RunningIsAlive
  <2>2. UNCHANGED <<running_load, outcomes>>
      BY <2>1 DEF FinishLoad, IsRunning
  <2>3. TypeInvariant'
    <3>1. /\ DOMAIN outcomes' \subseteq Accounts
          /\ \A a \in DOMAIN outcomes' :
                outcomes'[a] \in DOMAIN loads' /\ loads'[outcomes'[a]].account = a
        BY <1>1, <2>2 DEF IInv, TypeInvariant, Advances
    <3> QED BY <1>1, <2>2, <3>1 DEF IInv, TypeInvariant, RestTyped, Advances
  <2>4. OnlyRunningAlive'
      BY <1>1, <2>1, <2>2 DEF IInv, GtkKnows, OnlyRunningAlive, Advances
  <2>5. Numbered' /\ (visible \subseteq with_mail)' /\ RunningIsAlive'
      BY <1>1, <2>1, <2>2 DEF IInv, GtkKnows, Numbered, RunningIsAlive
  <2>6. OutcomesOver'
      BY <1>1, <2>2 DEF IInv, TypeInvariant, GtkKnows, OutcomesOver, Advances
  <2> QED BY <1>1, <2>3, <2>4, <2>5, <2>6 DEF GtkKnows
<1> QED BY <1>3, <1>4

\* A load that neither writes before nor after leaves the lock's order alone.
LEMMA LockUntouched ==
    ASSUME IInv, NEW l \in DOMAIN loads, Advances(l),
           loads[l].at # "writing", loads'[l].at # "writing",
           UNCHANGED <<locked, stored, deletions, carried_out, with_mail, answers>>
    PROVE  LockOrders'
<1>1. \A i \in DOMAIN loads' : i \in DOMAIN loads /\ loads'[i].account = loads[i].account
                               /\ (loads'[i].at = "writing" <=> loads[i].at = "writing")
    BY DEF Advances
<1>2. LockIsTheWriters'
    BY <1>1 DEF IInv, TypeInvariant, LockOrders, LockIsTheWriters, Advances
<1>3. LateResultsHaveMail'
    BY <1>1 DEF IInv, TypeInvariant, LockOrders, LateResultsHaveMail, Advances
<1>4. LatestKeepsMail'
    BY DEF IInv, LockOrders, LatestKeepsMail
<1> QED BY <1>2, <1>3, <1>4 DEF LockOrders

\* A load's end leaves its place free, and nothing else of it.
LEMMA WorkerEndsAdvances ==
    ASSUME IInv, NEW l \in DOMAIN loads, NEW result \in Results, WorkerEnds(l, result)
    PROVE  Advances(l) /\ loads'[l].at = "ended" /\ worker' = "idle"
BY EndedIs DEF IInv, WorkerEnds, Advances

\* The variables outside GTK's, unchanged but for some of them.
LEMMA RestStaysTyped ==
    ASSUME IInv, DOMAIN loads' = DOMAIN loads, UNCHANGED <<answers, store>>,
           spent' \in [failures : Nat, deaths : Nat],
           worker' \in {"none", "idle", "busy", "dying", "gone"},
           locked' \in DOMAIN loads \union {NoLoad}
    PROVE  RestTyped'
BY DEF IInv, TypeInvariant, RestTyped, store

-----------------------------------------------------------------------------
(* The load's own steps.                                                   *)

\* What a step of a load that does not write comes down to.
LEMMA QuietStep ==
    ASSUME IInv, NEW l \in DOMAIN loads, Advances(l),
           loads[l].at \notin {"writing", "over"}, loads'[l].at \notin {"writing", "over"},
           UNCHANGED <<gtk, locked, store>>,
           spent' \in [failures : Nat, deaths : Nat],
           worker' \in {"none", "idle", "busy", "dying", "gone"}
    PROVE  IInv'
<1>1. DOMAIN loads' = DOMAIN loads
    BY DEF Advances
<1>2. RestTyped'
    BY <1>1, RestStaysTyped DEF gtk, IInv, TypeInvariant
<1>3. TypeInvariant' /\ GtkKnows'
    BY <1>2, GoesOn
<1>4. LockOrders'
    BY LockUntouched DEF gtk, store
<1> QED BY <1>3, <1>4 DEF IInv

\* An end that reaches GTK.
LEMMA FinishingStep ==
    ASSUME IInv, NEW l \in DOMAIN loads, NEW result \in Results, FinishLoad(l, result),
           loads[l].at \notin {"writing", "over"},
           UNCHANGED <<visible, with_mail, worker, locked, store, answers, closed, spent>>
    PROVE  IInv'
<1>1. DOMAIN loads' = DOMAIN loads /\ loads'[l].at = "over"
    BY OverIs DEF IInv, FinishLoad
<1>2. RestTyped'
    BY <1>1, RestStaysTyped DEF IInv, TypeInvariant
<1>3. TypeInvariant' /\ GtkKnows' /\ Advances(l)
    BY <1>2, Finishes
<1>4. LockOrders'
    BY <1>1, <1>3, LockUntouched DEF store
<1> QED BY <1>3, <1>4 DEF IInv

\* One field `at` written is an advance.
LEMMA AtWritten ==
    ASSUME IInv, NEW l \in DOMAIN loads, NEW step \in Steps,
           loads' = [loads EXCEPT ![l].at = step]
    PROVE  Advances(l) /\ loads'[l].at = step
BY DEF IInv, TypeInvariant, Advances, Load

\* The steps of a load that take no lock: to the worker and back, the token
\* asked for again, failures, cancellations and the end delivered to GTK.
LEMMA StepsWithoutLock ==
    ASSUME IInv, NEW l \in DOMAIN loads,
           \/ AccessGiven(l) \/ AccessRefused(l) \/ EndDelivered(l) \/ RenewalAnswered(l)
           \/ WorkerTakes(l) \/ CancellationSeen(l) \/ LoadFails(l) \/ LoadCompletes(l)
           \/ AsksForRenewal(l) \/ WorkerUnwinds(l)
    PROVE  IInv'
<1>1. /\ spent \in [failures : Nat, deaths : Nat] /\ loads[l] \in Load
      /\ worker \in {"none", "idle", "busy", "dying", "gone"}
    BY DEF IInv, TypeInvariant
<1>2. CASE AccessGiven(l)
  <2>1. /\ loads[l].at = "access" /\ loads' = [loads EXCEPT ![l].at = "queued"]
        /\ worker' \in {"none", "idle", "busy", "dying", "gone"}
        /\ UNCHANGED <<gtk, locked, store, spent>>
      BY <1>1, <1>2 DEF AccessGiven, At, WithThread
  <2> QED BY <1>1, <2>1, AtWritten, QuietStep DEF Steps
<1>3. CASE AccessRefused(l)
  <2>1. PICK result \in {"Cancelled", "Failed"} : FinishLoad(l, result)
      BY <1>3 DEF AccessRefused
  <2>2. loads[l].at = "access"
        /\ UNCHANGED <<visible, with_mail, worker, locked, store, answers, closed, spent>>
      BY <1>3 DEF AccessRefused, At
  <2> QED BY <2>1, <2>2, FinishingStep DEF Results
<1>4. CASE EndDelivered(l)
  <2>1. /\ loads[l].at = "ended" /\ FinishLoad(l, loads[l].result) /\ loads[l].result \in Results
        /\ UNCHANGED <<visible, with_mail, worker, locked, store, answers, closed, spent>>
      BY <1>1, <1>4 DEF EndDelivered, At, Load
  <2> QED BY <2>1, FinishingStep
<1>5. CASE RenewalAnswered(l)
  <2> DEFINE f1 == [loads EXCEPT ![l].at = "running"]
             f2 == [f1 EXCEPT ![l].renewed = TRUE]
  <2>1. /\ loads[l].at = "renewing" /\ loads' = f2
        /\ UNCHANGED <<gtk, worker, locked, store, spent>>
      BY <1>5 DEF RenewalAnswered, At
  <2>2. /\ f1 \in [DOMAIN loads -> Load] /\ f1[l].at = "running"
        /\ f1[l].account = loads[l].account /\ f1[l].cancelled = loads[l].cancelled
        /\ \A i \in DOMAIN loads \ {l} : f1[i] = loads[i]
      BY DEF IInv, TypeInvariant, Load, Steps
  <2>3. /\ f2 \in [DOMAIN loads -> Load] /\ f2[l].at = "running"
        /\ f2[l].account = loads[l].account /\ f2[l].cancelled = loads[l].cancelled
        /\ \A i \in DOMAIN loads \ {l} : f2[i] = loads[i]
    <3> HIDE DEF f1
    <3> QED BY <2>2 DEF Load
  <2> HIDE DEF f2
  <2>4. Advances(l) /\ loads'[l].at = "running"
      BY <2>1, <2>3 DEF Advances
  <2> QED BY <1>1, <2>1, <2>4, QuietStep
<1>6. CASE WorkerTakes(l)
  <2>1. /\ loads[l].at = "queued" /\ loads' = [loads EXCEPT ![l].at = "running"]
        /\ worker' = "busy" /\ UNCHANGED <<gtk, locked, store, spent>>
      BY <1>6 DEF WorkerTakes, At
  <2> QED BY <1>1, <2>1, AtWritten, QuietStep DEF Steps
<1>7. CASE CancellationSeen(l) \/ LoadFails(l) \/ LoadCompletes(l)
  <2>1. /\ loads[l].at \in {"running", "renewing"}
        /\ \E result \in Results : WorkerEnds(l, result)
        /\ UNCHANGED <<gtk, locked, store, spent>>
      BY <1>7 DEF CancellationSeen, LoadFails, LoadCompletes, At, Results
  <2>2. Advances(l) /\ loads'[l].at = "ended" /\ worker' = "idle"
      BY <2>1, WorkerEndsAdvances
  <2> QED BY <1>1, <2>1, <2>2, QuietStep
<1>8. CASE AsksForRenewal(l)
  <2>1. /\ loads[l].at = "running" /\ loads' = [loads EXCEPT ![l].at = "renewing"]
        /\ UNCHANGED <<gtk, worker, locked, store, spent>>
      BY <1>8 DEF AsksForRenewal, At
  <2> QED BY <1>1, <2>1, AtWritten, QuietStep DEF Steps
<1>9. CASE WorkerUnwinds(l)
  <2>1. /\ loads[l].at \in {"running", "renewing"} /\ worker' = "dying"
        /\ loads' = Ended(l, "Failed") /\ UNCHANGED <<gtk, locked, store>>
        /\ spent' = [spent EXCEPT !.deaths = @ + 1]
      BY <1>9 DEF WorkerUnwinds, At
  <2>2. Advances(l) /\ loads'[l].at = "ended"
      BY <2>1, EndedIs DEF IInv, Advances, Results
  <2>3. spent' \in [failures : Nat, deaths : Nat]
      BY <1>1, <2>1
  <2> QED BY <2>1, <2>2, <2>3, QuietStep
<1> QED BY <1>2, <1>3, <1>4, <1>5, <1>6, <1>7, <1>8, <1>9

\* A write takes the lock only for a load that was not cancelled: the running
\* one, of a shown account.
LEMMA WriteBeginsKeeps ==
    ASSUME IInv, NEW l \in DOMAIN loads, WriteBegins(l)
    PROVE  IInv'
<1>1. /\ spent \in [failures : Nat, deaths : Nat] /\ loads[l] \in Load
      /\ worker \in {"none", "idle", "busy", "dying", "gone"}
    BY DEF IInv, TypeInvariant
<1>2. loads[l].at = "running" /\ locked = NoLoad /\ UNCHANGED <<gtk, store, spent>>
    BY DEF WriteBegins, At
<1>3. CASE loads[l].cancelled
  <2>1. WorkerEnds(l, "Cancelled") /\ UNCHANGED locked
      BY <1>3 DEF WriteBegins
  <2> QED BY <1>1, <1>2, <2>1, WorkerEndsAdvances, QuietStep DEF Results
<1>4. CASE ~loads[l].cancelled
  <2>1. /\ loads' = [loads EXCEPT ![l].at = "writing"] /\ locked' = l /\ UNCHANGED worker
      BY <1>4 DEF WriteBegins
  <2>2. Advances(l) /\ loads'[l].at = "writing"
      BY <2>1, AtWritten DEF Steps
  <2>3. TypeInvariant' /\ GtkKnows'
    <3>1. RestTyped'
        BY <1>1, <1>2, <2>1, <2>2, RestStaysTyped DEF gtk, Advances
    <3> QED BY <1>2, <2>2, <3>1, GoesOn
  <2>4. loads[l].account \in with_mail
    <3>1. running_load = l /\ running_load # NoLoad
        BY <1>2, <1>4, LoadsAssumption
           DEF IInv, TypeInvariant, Numbers, GtkKnows, OnlyRunningAlive
    <3> QED BY <1>4, <3>1 DEF IInv, GtkKnows, RunningIsAlive
  <2>5. LockIsTheWriters'
    <3>1. \A i \in DOMAIN loads : loads[i].at # "writing"
        BY <1>2, LoadsAssumption DEF IInv, TypeInvariant, Numbers, LockOrders, LockIsTheWriters
    <3>2. DOMAIN loads' = DOMAIN loads
        BY <2>2 DEF Advances
    <3> QED BY <2>1, <2>2, <3>1, <3>2 DEF LockIsTheWriters, Advances
  <2>6. LateResultsHaveMail'
      BY <1>2, <2>1, <2>2, <2>4 DEF IInv, LockOrders, LateResultsHaveMail, Advances, gtk, store
  <2>7. LatestKeepsMail'
      BY <1>2 DEF IInv, LockOrders, LatestKeepsMail, gtk, store
  <2> QED BY <2>3, <2>5, <2>6, <2>7 DEF IInv, LockOrders
<1> QED BY <1>3, <1>4

\* The write that ends, whatever it wrote: the lock is free again, and what
\* was added belongs to the writing load's account.
LEMMA WriteEndsKeeps ==
    ASSUME IInv, NEW l \in DOMAIN loads, loads[l].at = "writing", locked' = NoLoad,
           Advances(l), loads'[l].at \notin {"writing", "over"},
           stored' \subseteq stored \union {loads[l].account},
           worker' \in {"none", "idle", "busy", "dying", "gone"},
           UNCHANGED <<gtk, deletions, carried_out, spent>>
    PROVE  IInv'
<1>1. locked = l
    BY DEF IInv, LockOrders, LockIsTheWriters
<1>2. loads[l].account \in Accounts
    BY DEF IInv, TypeInvariant, Load
<1>3. RestTyped'
    BY <1>2 DEF IInv, TypeInvariant, RestTyped, Advances, gtk
<1>4. TypeInvariant' /\ GtkKnows'
    BY <1>3, GoesOn
<1>5. LockIsTheWriters'
    BY <1>1 DEF IInv, LockOrders, LockIsTheWriters, Advances
<1>6. LateResultsHaveMail'
  <2>1. ASSUME carried_out'
        PROVE  stored' \subseteq with_mail'
    <3>1. stored \subseteq with_mail /\ loads[l].account \in with_mail
      <4>1. carried_out /\ locked # NoLoad
          BY <1>1, <2>1, LoadsAssumption DEF IInv, TypeInvariant, Numbers
      <4> QED BY <1>1, <4>1 DEF IInv, LockOrders, LateResultsHaveMail
    <3> QED BY <3>1 DEF gtk
  <2> QED BY <2>1 DEF LateResultsHaveMail
<1>7. LatestKeepsMail'
    BY DEF IInv, LockOrders, LatestKeepsMail, gtk
<1> QED BY <1>4, <1>5, <1>6, <1>7 DEF IInv, LockOrders

\* A write commits: the folder list, a batch, or a batch without its folder.
LEMMA WriteCommitsKeeps ==
    ASSUME IInv, NEW l \in DOMAIN loads, WriteCommits(l)
    PROVE  IInv'
<1>1. /\ loads[l] \in Load /\ loads[l].at = "writing" /\ locked' = NoLoad
      /\ UNCHANGED <<gtk, deletions, carried_out, spent>>
      /\ worker \in {"none", "idle", "busy", "dying", "gone"}
    BY DEF WriteCommits, At, IInv, TypeInvariant
<1>2. CASE \E result \in Results : WorkerEnds(l, result)
  <2>1. stored' \subseteq stored \union {loads[l].account}
      BY DEF WriteCommits
  <2>2. Advances(l) /\ loads'[l].at = "ended" /\ worker' = "idle"
      BY <1>2, WorkerEndsAdvances
  <2> QED BY <1>1, <2>1, <2>2, WriteEndsKeeps
<1>3. CASE /\ loads' = [loads EXCEPT ![l].at = "running", ![l].batches = @ + 1]
           /\ UNCHANGED <<worker, stored>>
  <2> DEFINE f1 == [loads EXCEPT ![l].at = "running"]
             f2 == [f1 EXCEPT ![l].batches = @ + 1]
  <2>1. loads' = f2
      BY <1>3
  <2>2. /\ f1 \in [DOMAIN loads -> Load] /\ f1[l].at = "running"
        /\ f1[l].account = loads[l].account /\ f1[l].cancelled = loads[l].cancelled
        /\ \A i \in DOMAIN loads \ {l} : f1[i] = loads[i]
      BY DEF IInv, TypeInvariant, Load, Steps
  <2>3. /\ f2 \in [DOMAIN loads -> Load] /\ f2[l].at = "running"
        /\ f2[l].account = loads[l].account /\ f2[l].cancelled = loads[l].cancelled
        /\ \A i \in DOMAIN loads \ {l} : f2[i] = loads[i]
    <3> HIDE DEF f1
    <3> QED BY <2>2 DEF Load
  <2> HIDE DEF f2
  <2>4. Advances(l) /\ loads'[l].at = "running"
      BY <2>1, <2>3 DEF Advances
  <2> QED BY <1>1, <1>3, <2>4, WriteEndsKeeps
<1>4. loads[l].target \in {"FolderList", "Mailbox"}
    BY <1>1 DEF Load, Targets
<1> QED BY <1>2, <1>3, <1>4 DEF WriteCommits, Results

\* A write that fails rolls back.
LEMMA WriteFailsKeeps ==
    ASSUME IInv, NEW l \in DOMAIN loads, WriteFails(l)
    PROVE  IInv'
<1>1. /\ loads[l].at = "writing" /\ locked' = NoLoad /\ WorkerEnds(l, "Failed")
      /\ UNCHANGED <<gtk, store, spent>>
    BY DEF WriteFails, At
<1>2. Advances(l) /\ loads'[l].at = "ended" /\ worker' = "idle"
    BY <1>1, WorkerEndsAdvances DEF Results
<1> QED BY <1>1, <1>2, WriteEndsKeeps DEF store

-----------------------------------------------------------------------------
(* GTK's steps and the deletions.                                          *)

\* A load starts only when none runs: every earlier one is over.
LEMMA StartLoadKeeps ==
    ASSUME IInv, NEW account \in Accounts, NEW target \in Targets, StartLoad(account, target)
    PROVE  IInv'
<1> DEFINE l == Cardinality(DOMAIN loads) + 1
           new == [account |-> account, target |-> target, at |-> "access",
                   cancelled |-> FALSE, renewed |-> FALSE, batches |-> 0,
                   result |-> "Cancelled"]
<1>1. /\ ~closed /\ running_load = NoLoad /\ account \in visible /\ l \in Numbers
      /\ running_load' = l
      /\ UNCHANGED <<visible, with_mail, outcomes, worker, locked, store, answers, closed, spent>>
      /\ loads' = [i \in 1..l |-> IF i < l THEN loads[i] ELSE new]
    BY DEF StartLoad
<1>2. DOMAIN loads = 1..(l - 1) /\ l \in Nat /\ l - 1 \in Nat
  <2>1. PICK n \in Nat : DOMAIN loads = 1..n
      BY DEF IInv, GtkKnows, Numbered
  <2>2. Cardinality(1..n) = n
      BY FS_Interval
  <2> QED BY <2>1, <2>2
<1> HIDE DEF l
<1>3. /\ DOMAIN loads' = 1..l /\ l \in DOMAIN loads' /\ l \notin DOMAIN loads
      /\ loads'[l] = new
      /\ \A i \in DOMAIN loads : i \in DOMAIN loads' /\ loads'[i] = loads[i]
      /\ \A i \in DOMAIN loads' : i = l \/ i \in DOMAIN loads
    BY <1>1, <1>2
<1>4. new \in Load
    BY DEF Load, Steps, Results
<1>5. \A i \in DOMAIN loads : loads[i].at = "over"
    BY <1>1, LoadsAssumption DEF IInv, GtkKnows, OnlyRunningAlive, TypeInvariant, Numbers
<1> HIDE DEF new
<1>6. new.at = "access" /\ ~new.cancelled /\ new.account = account
    BY DEF new
<1>7. TypeInvariant'
  <2>1. loads' \in [DOMAIN loads' -> Load] /\ DOMAIN loads' \subseteq Numbers
    <3>1. \A i \in DOMAIN loads' : loads'[i] \in Load
        BY <1>3, <1>4 DEF IInv, TypeInvariant
    <3>2. 1..l \subseteq Numbers
        BY <1>1, <1>2, LoadsAssumption DEF Numbers
    <3> QED BY <1>1, <1>3, <3>1, <3>2
  <2>2. /\ \A a \in DOMAIN outcomes' :
              outcomes'[a] \in DOMAIN loads' /\ loads'[outcomes'[a]].account = a
        /\ DOMAIN outcomes' \subseteq Accounts
      BY <1>1, <1>3 DEF IInv, TypeInvariant
  <2>3. locked' \in DOMAIN loads' \union {NoLoad}
      BY <1>1, <1>3 DEF IInv, TypeInvariant
  <2> QED BY <1>1, <1>3, <2>1, <2>2, <2>3 DEF IInv, TypeInvariant, store
<1>8. Numbered'
    BY <1>1, <1>2, <1>3, LoadsAssumption DEF Numbered, Numbers
<1>9. OnlyRunningAlive' /\ RunningIsAlive' /\ (visible \subseteq with_mail)'
    BY <1>1, <1>3, <1>5, <1>6 DEF IInv, GtkKnows, OnlyRunningAlive, RunningIsAlive
<1>10. OutcomesOver'
    BY <1>1, <1>3 DEF IInv, TypeInvariant, GtkKnows, OutcomesOver
<1>11. LockIsTheWriters'
    BY <1>1, <1>3, <1>5, <1>6 DEF IInv, TypeInvariant, LockOrders, LockIsTheWriters
<1>12. LateResultsHaveMail' /\ LatestKeepsMail'
    BY <1>1, <1>3 DEF IInv, TypeInvariant, LockOrders, LateResultsHaveMail, LatestKeepsMail, store
<1> QED BY <1>7, <1>8, <1>9, <1>10, <1>11, <1>12 DEF IInv, GtkKnows, LockOrders

\* Loads of which some are cancelled: nothing else of them changes.
Cancels(S) ==
    /\ DOMAIN loads' = DOMAIN loads /\ loads' \in [DOMAIN loads -> Load]
    /\ \A i \in DOMAIN loads :
          /\ loads'[i].at = loads[i].at /\ loads'[i].account = loads[i].account
          /\ loads'[i].cancelled = (loads[i].cancelled \/ i \in S)

\* The running load cancelled is that load and no other.
LEMMA CancelledIs ==
    ASSUME IInv, running_load # NoLoad, loads' = [loads EXCEPT ![running_load].cancelled = TRUE]
    PROVE  Cancels({running_load})
<1>1. /\ running_load \in DOMAIN loads
      /\ loads \in [DOMAIN loads -> Load]
      /\ DOMAIN loads' = DOMAIN loads
    BY DEF IInv, TypeInvariant
<1>2. \A i \in DOMAIN loads \ {running_load} : loads'[i] = loads[i] /\ loads[i] \in Load
    BY <1>1
<1>3. loads'[running_load] = [loads[running_load] EXCEPT !.cancelled = TRUE]
    BY <1>1
<1>4. /\ loads'[running_load] \in Load
      /\ loads'[running_load].at = loads[running_load].at
      /\ loads'[running_load].account = loads[running_load].account
      /\ loads'[running_load].cancelled = TRUE
    BY <1>1, <1>3 DEF Load
<1>5. \A i \in DOMAIN loads : loads'[i] \in Load
    BY <1>2, <1>4
<1>6. loads' \in [DOMAIN loads -> Load]
    BY <1>5
<1>7. ASSUME NEW i \in DOMAIN loads
      PROVE  /\ loads'[i].at = loads[i].at /\ loads'[i].account = loads[i].account
             /\ loads'[i].cancelled = (loads[i].cancelled \/ i \in {running_load})
  <2>1. CASE i = running_load
      BY <1>4, <2>1
  <2>2. CASE i # running_load
    <3>1. loads[i].cancelled \in BOOLEAN
        BY <1>1 DEF Load
    <3> QED BY <1>2, <2>2, <3>1
  <2> QED BY <2>1, <2>2
<1> QED BY <1>1, <1>6, <1>7 DEF Cancels

\* Loads left alone are none of them cancelled.
LEMMA NoneCancelledIs ==
    ASSUME IInv, loads' = loads
    PROVE  Cancels({})
BY DEF IInv, TypeInvariant, Cancels, Load

\* A complete answer hides accounts, cancels the load of a hidden one, and
\* sends a deletion that keeps the accounts with Mail.
LEMMA ApplyUpdateKeeps ==
    ASSUME IInv, NEW status \in [Accounts -> Statuses], ApplyUpdate(status)
    PROVE  IInv'
<1> DEFINE excluded == {l \in {running_load} :
                          running_load # NoLoad /\ loads[running_load].account \notin visible'}
<1>1. /\ ~closed /\ answers' = answers + 1 /\ carried_out' = FALSE
      /\ visible' = Shown(status) /\ with_mail' = {a \in Accounts : status[a] # "off"}
      /\ deletions' = deletions \union {[answer |-> answers', keeps |-> with_mail']}
      /\ outcomes' = Restrict(outcomes, DOMAIN outcomes \intersect visible')
      /\ UNCHANGED <<worker, locked, stored, closed, spent, running_load>>
      /\ loads' = IF running_load # NoLoad /\ loads[running_load].account \notin visible'
                  THEN [loads EXCEPT ![running_load].cancelled = TRUE] ELSE loads
    BY DEF ApplyUpdate, DiscardExcluded
<1>2. visible' \subseteq with_mail' /\ with_mail' \subseteq Accounts
    BY <1>1 DEF Shown
<1>3. Cancels(excluded)
  <2>1. CASE running_load # NoLoad /\ loads[running_load].account \notin visible'
    <3>1. excluded = {running_load}
        BY <2>1
    <3> QED BY <1>1, <2>1, <3>1, CancelledIs
  <2>2. CASE ~(running_load # NoLoad /\ loads[running_load].account \notin visible')
    <3>1. excluded = {}
        BY <2>2
    <3> QED BY <1>1, <2>2, <3>1, NoneCancelledIs
  <2> QED BY <2>1, <2>2
<1>4. /\ DOMAIN outcomes' = DOMAIN outcomes \intersect visible'
      /\ \A a \in DOMAIN outcomes' : outcomes'[a] = outcomes[a]
    BY <1>1 DEF Restrict
<1>5. /\ \A i \in excluded : loads[i].at # "over" /\ i = running_load
      /\ running_load # NoLoad /\ running_load \notin excluded
            => loads[running_load].account \in visible'
    BY DEF IInv, GtkKnows, RunningIsAlive
<1> HIDE DEF excluded
<1>6. TypeInvariant'
  <2>1. deletions' \subseteq [answer : 1..answers', keeps : SUBSET Accounts]
    <3>1. answers \in Nat /\ deletions \subseteq [answer : 1..answers, keeps : SUBSET Accounts]
        BY DEF IInv, TypeInvariant
    <3>2. deletions \subseteq [answer : 1..answers', keeps : SUBSET Accounts]
        BY <1>1, <3>1
    <3>3. [answer |-> answers', keeps |-> with_mail']
              \in [answer : 1..answers', keeps : SUBSET Accounts]
        BY <1>1, <1>2, <3>1
    <3> QED BY <1>1, <3>2, <3>3
  <2>2. /\ \A a \in DOMAIN outcomes' :
              outcomes'[a] \in DOMAIN loads' /\ loads'[outcomes'[a]].account = a
        /\ DOMAIN outcomes' \subseteq Accounts
      BY <1>3, <1>4 DEF IInv, TypeInvariant, Cancels
  <2>3. DOMAIN loads' \subseteq Numbers /\ loads' \in [DOMAIN loads' -> Load]
      BY <1>3 DEF IInv, TypeInvariant, Cancels
  <2>4. answers' \in Nat
      BY <1>1 DEF IInv, TypeInvariant
  <2> QED BY <1>1, <1>2, <1>3, <2>1, <2>2, <2>3, <2>4 DEF IInv, TypeInvariant, Cancels
<1>7. Numbered'
    BY <1>3 DEF IInv, GtkKnows, Numbered, Cancels
<1>8. OnlyRunningAlive'
    BY <1>1, <1>3 DEF IInv, GtkKnows, OnlyRunningAlive, Cancels
<1>9. RunningIsAlive'
    BY <1>1, <1>3, <1>5 DEF IInv, TypeInvariant, GtkKnows, RunningIsAlive, Cancels
<1>10. OutcomesOver'
  <2>1. ASSUME NEW a \in DOMAIN outcomes'
        PROVE  a \in visible' /\ loads'[outcomes'[a]].at = "over" /\ ~loads'[outcomes'[a]].cancelled
    <3>1. /\ a \in visible' /\ a \in DOMAIN outcomes /\ outcomes'[a] = outcomes[a]
          /\ outcomes[a] \in DOMAIN loads
          /\ loads[outcomes[a]].at = "over" /\ ~loads[outcomes[a]].cancelled
        BY <1>4 DEF IInv, TypeInvariant, GtkKnows, OutcomesOver
    <3>2. outcomes[a] \notin excluded
        BY <1>5, <3>1
    <3> QED BY <1>3, <3>1, <3>2 DEF Cancels
  <2> QED BY <2>1 DEF OutcomesOver
<1>11. LockIsTheWriters'
    BY <1>1, <1>3 DEF IInv, TypeInvariant, LockOrders, LockIsTheWriters, Cancels
<1>12. LateResultsHaveMail'
    BY <1>1 DEF LateResultsHaveMail
<1>13. LatestKeepsMail'
    BY <1>1 DEF IInv, TypeInvariant, LatestKeepsMail
<1> QED BY <1>2, <1>6, <1>7, <1>8, <1>9, <1>10, <1>11, <1>12, <1>13 DEF IInv, GtkKnows, LockOrders

\* The window closes: the running load is cancelled and left to end alone.
LEMMA QuitKeeps ==
    ASSUME IInv, Quit
    PROVE  IInv'
<1> DEFINE stopped == {l \in {running_load} : running_load # NoLoad}
<1>1. /\ closed' = TRUE /\ running_load' = NoLoad
      /\ UNCHANGED <<visible, with_mail, outcomes, worker, locked, store, answers, spent>>
      /\ loads' = IF running_load = NoLoad THEN loads
                  ELSE [loads EXCEPT ![running_load].cancelled = TRUE]
    BY DEF Quit
<1>2. Cancels(stopped)
  <2>1. CASE running_load # NoLoad
    <3>1. stopped = {running_load}
        BY <2>1
    <3> QED BY <1>1, <2>1, <3>1, CancelledIs
  <2>2. CASE running_load = NoLoad
    <3>1. stopped = {}
        BY <2>2
    <3> QED BY <1>1, <2>2, <3>1, NoneCancelledIs
  <2> QED BY <2>1, <2>2
<1>3. \A i \in DOMAIN loads : loads[i].at # "over" => i \in stopped \/ loads[i].cancelled
    BY LoadsAssumption DEF IInv, TypeInvariant, Numbers, GtkKnows, OnlyRunningAlive
<1>4. \A i \in stopped : loads[i].at # "over"
    BY DEF IInv, GtkKnows, RunningIsAlive
<1> HIDE DEF stopped
<1>5. TypeInvariant'
  <2>1. /\ \A a \in DOMAIN outcomes' :
              outcomes'[a] \in DOMAIN loads' /\ loads'[outcomes'[a]].account = a
        /\ DOMAIN outcomes' \subseteq Accounts
      BY <1>1, <1>2 DEF IInv, TypeInvariant, Cancels
  <2> QED BY <1>1, <1>2, <2>1 DEF IInv, TypeInvariant, Cancels, store
<1>6. Numbered' /\ OnlyRunningAlive' /\ RunningIsAlive' /\ (visible \subseteq with_mail)'
    BY <1>1, <1>2, <1>3
       DEF IInv, GtkKnows, Numbered, OnlyRunningAlive, RunningIsAlive, Cancels
<1>7. OutcomesOver'
    BY <1>1, <1>2, <1>4 DEF IInv, TypeInvariant, GtkKnows, OutcomesOver, Cancels
<1>8. LockOrders'
    BY <1>1, <1>2 DEF IInv, TypeInvariant, LockOrders, LockIsTheWriters, LateResultsHaveMail,
                      LatestKeepsMail, Cancels, store
<1> QED BY <1>5, <1>6, <1>7, <1>8 DEF IInv, GtkKnows

\* A deletion needs the lock, so no write is under way; the latest one leaves
\* only accounts with Mail, and any other only removes rows.
LEMMA DeletionRunsKeeps ==
    ASSUME IInv, NEW deletion \in deletions, DeletionRuns(deletion)
    PROVE  IInv'
<1>1. /\ locked = NoLoad /\ deletions' = deletions \ {deletion}
      /\ UNCHANGED <<gtk, loads, worker, locked>>
      /\ stored' \subseteq stored
      /\ spent' = spent \/ spent' = [spent EXCEPT !.failures = @ + 1]
    BY DEF DeletionRuns
<1>2. \/ /\ stored' = stored \intersect deletion.keeps
         /\ carried_out' = (carried_out \/ deletion.answer = answers)
      \/ UNCHANGED <<stored, carried_out>>
    BY DEF DeletionRuns
<1>3. TypeInvariant'
  <2>1. spent' \in [failures : Nat, deaths : Nat] /\ carried_out' \in BOOLEAN
    <3>1. spent \in [failures : Nat, deaths : Nat] /\ carried_out \in BOOLEAN
        BY DEF IInv, TypeInvariant
    <3>2. spent' \in [failures : Nat, deaths : Nat]
        BY <1>1, <3>1
    <3>3. carried_out' \in BOOLEAN
        BY <1>2, <3>1
    <3> QED BY <3>2, <3>3
  <2>2. DOMAIN outcomes' \subseteq Accounts
        /\ \A a \in DOMAIN outcomes' :
              outcomes'[a] \in DOMAIN loads' /\ loads'[outcomes'[a]].account = a
      BY <1>1 DEF IInv, TypeInvariant, gtk
  <2> QED BY <1>1, <2>1, <2>2 DEF IInv, TypeInvariant, gtk
<1>4. GtkKnows'
    BY <1>1 DEF IInv, GtkKnows, Numbered, OnlyRunningAlive, RunningIsAlive, OutcomesOver, gtk
<1>5. LockIsTheWriters' /\ LatestKeepsMail'
    BY <1>1 DEF IInv, LockOrders, LockIsTheWriters, LatestKeepsMail, gtk
<1>6. LateResultsHaveMail'
  <2>1. ASSUME carried_out'
        PROVE  stored' \subseteq with_mail
    <3>1. CASE carried_out
        BY <1>1, <3>1 DEF IInv, LockOrders, LateResultsHaveMail
    <3>2. CASE ~carried_out
      <4>1. stored' = stored \intersect deletion.keeps /\ deletion.answer = answers
          BY <1>2, <2>1, <3>2
      <4> QED BY <4>1 DEF IInv, LockOrders, LatestKeepsMail
    <3> QED BY <3>1, <3>2
  <2> QED BY <1>1, <2>1 DEF LateResultsHaveMail, gtk
<1> QED BY <1>3, <1>4, <1>5, <1>6 DEF IInv, LockOrders

\* The thread that unwound is gone: only the worker changes.
LEMMA WorkerGoneKeeps ==
    ASSUME IInv, WorkerGone
    PROVE  IInv'
<1>1. worker' = "gone" /\ UNCHANGED <<gtk, loads, locked, store, spent>>
    BY DEF WorkerGone
<1>2. TypeInvariant'
    BY <1>1 DEF IInv, TypeInvariant, gtk, store
<1>3. GtkKnows'
    BY <1>1 DEF IInv, GtkKnows, Numbered, OnlyRunningAlive, RunningIsAlive, OutcomesOver, gtk
<1>4. LockOrders'
    BY <1>1 DEF IInv, LockOrders, LockIsTheWriters, LateResultsHaveMail, LatestKeepsMail, gtk, store
<1> QED BY <1>2, <1>3, <1>4 DEF IInv

\* A stutter keeps everything.
LEMMA StutterKeeps ==
    ASSUME IInv, UNCHANGED vars
    PROVE  IInv'
BY DEF IInv, TypeInvariant, GtkKnows, LockOrders, Numbered, OnlyRunningAlive, RunningIsAlive,
       OutcomesOver, LockIsTheWriters, LateResultsHaveMail, LatestKeepsMail, vars, gtk, store

-----------------------------------------------------------------------------
(* The theorems.                                                           *)

\* The invariant holds at the start, whatever an earlier run stored.
LEMMA InitIInv == Init => IInv
<1> SUFFICES ASSUME Init PROVE IInv
    OBVIOUS
<1>1. TypeInvariant
  <2>1. /\ DOMAIN loads = {} /\ DOMAIN outcomes = {}
        /\ loads \in [DOMAIN loads -> Load]
      BY DEF Init
  <2>2. spent \in [failures : Nat, deaths : Nat] /\ carried_out \in BOOLEAN /\ closed \in BOOLEAN
      BY DEF Init
  <2> QED BY <2>1, <2>2 DEF Init, TypeInvariant
<1>2. GtkKnows
  <2>1. DOMAIN loads = 1..0 /\ 0 <= MaxLoads
      BY LoadsAssumption DEF Init
  <2>2. Numbered
      BY <2>1 DEF Numbered
  <2> QED BY <2>2 DEF Init, GtkKnows, OnlyRunningAlive, RunningIsAlive, OutcomesOver
<1>3. LockOrders
    BY DEF Init, LockOrders, LockIsTheWriters, LateResultsHaveMail, LatestKeepsMail
<1> QED BY <1>1, <1>2, <1>3 DEF IInv

\* Every step keeps it: GTK's, the worker's, the pool's.
LEMMA StepIInv == IInv /\ [Next]_vars => IInv'
<1> SUFFICES ASSUME IInv, [Next]_vars PROVE IInv'
    OBVIOUS
<1>1. ASSUME NEW a \in Accounts, NEW t \in Targets, StartLoad(a, t) PROVE IInv'
    BY <1>1, StartLoadKeeps
<1>2. ASSUME NEW status \in [Accounts -> Statuses], ApplyUpdate(status) PROVE IInv'
    BY <1>2, ApplyUpdateKeeps
<1>3. ASSUME NEW l \in DOMAIN loads, LoadStep(l) \/ WorkerUnwinds(l) PROVE IInv'
    BY <1>3, StepsWithoutLock, WriteBeginsKeeps, WriteCommitsKeeps, WriteFailsKeeps DEF LoadStep
<1>4. ASSUME NEW d \in deletions, DeletionRuns(d) PROVE IInv'
    BY <1>4, DeletionRunsKeeps
<1>5. CASE WorkerGone
    BY <1>5, WorkerGoneKeeps
<1>6. CASE Quit
    BY <1>6, QuitKeeps
<1>7. CASE UNCHANGED vars
    BY <1>7, StutterKeeps
<1> QED BY <1>1, <1>2, <1>3, <1>4, <1>5, <1>6, <1>7 DEF Next

\* What GTK knows of its loads and what the lock orders hold throughout.
THEOREM LoadsInvariant == Spec => []IInv
<1>1. Init => IInv
    BY InitIInv
<1>2. IInv /\ [Next]_vars => IInv'
    BY StepIInv
<1> QED BY <1>1, <1>2, PTL DEF Spec

\* Every load, outcome and deletion is of its kind, and an outcome names a
\* load of its own account (refreshes.rs).
THEOREM LoadsTypes == Spec => []TypeInvariant
<1>1. IInv => TypeInvariant
    BY DEF IInv
<1> QED BY <1>1, LoadsInvariant, PTL

\* One load at a time while the window is open, also while a cancelled one is
\* still closing its connection (refreshes.rs, Refreshes::start).
THEOREM OneLoadAlive == Spec => []OneLoadAtATime
<1>1. IInv => OneLoadAtATime
    BY DEF IInv, GtkKnows, OnlyRunningAlive, OneLoadAtATime, Active
<1> QED BY <1>1, LoadsInvariant, PTL

\* After the latest answer's deletion no account without Mail has rows, however
\* late a load's result or an older deletion comes (store_load.rs, the
\* cancellation asked for under the lock).
THEOREM LateResultsOut == Spec => []LateResultStaysOut
<1>1. IInv => LateResultStaysOut
    BY DEF IInv, LockOrders, LateResultsHaveMail, LateResultStaysOut
<1> QED BY <1>1, LoadsInvariant, PTL

\* Outcomes belong to shown accounts and to loads no exclusion cancelled
\* (refreshes.rs, discard_excluded).
THEOREM OutcomesShown == Spec => []OutcomesOfShownAccounts
<1>1. IInv => OutcomesOfShownAccounts
    BY DEF IInv, GtkKnows, OutcomesOver, OutcomesOfShownAccounts
<1> QED BY <1>1, LoadsInvariant, PTL
=============================================================================
