------------------------------ MODULE UiProofs ------------------------------
(***************************************************************************)
(* The two panes of the window, for any accounts, folder lists and stored  *)
(* rows, and any number of reads, answers, clicks, timers and frames.      *)
(*                                                                         *)
(* The account observer misses no change and strands no Retry.  The        *)
(* sidebar it feeds tells the accounts apart, keeps the selection on a row *)
(* that is shown, and gives every folder a row.  The message list shows    *)
(* the latest rows and the reader a message of that list.                  *)
(*                                                                         *)
(* Labels and shown rows are defined by recursion over a sequence.  What   *)
(* they are is proved with least elements in place of induction: of the    *)
(* positions where a claim fails, none is the first.                       *)
(***************************************************************************)
EXTENDS AccountSidebar, MailUi, WellFoundedInduction, NaturalsInduction,
    FiniteSetTheorems, SequenceTheorems, TLAPS

CONSTANT NoRole     \* FolderRole of none

Lists == INSTANCE FolderLists

-----------------------------------------------------------------------------
(* Naturals.                                                                *)

\* A set of naturals that is not empty has a least element.
LEMMA Least ==
    ASSUME NEW T, T \subseteq Nat, T # {}
    PROVE  \E n \in T : \A m \in T : n <= m
<1> DEFINE R == {ss \in Nat \X Nat : ss[1] < ss[2]}
<1>1. IsWellFoundedOn(R, Nat)
    BY NatLessThanWellFounded DEF OpToRel
<1> HIDE DEF R
<1>2. \E n \in T : \A m \in T : ~(<<m, n>> \in R)
    BY <1>1, WFMin
<1>3. PICK n \in T : \A m \in T : ~(<<m, n>> \in R)
    BY <1>2
<1>4. \A m \in T : ~(m < n)
    BY <1>3 DEF R
<1> QED BY <1>4

\* A set of naturals up to N that is not empty has a greatest element.
LEMMA Greatest ==
    ASSUME NEW N \in Nat, NEW T, T \subseteq 0..N, T # {}
    PROVE  \E n \in T : \A m \in T : m <= n
<1> DEFINE S == {k \in 0..N : N - k \in T}
<1>1. S \subseteq Nat /\ S # {}
  <2>1. PICK t \in T : t \in 0..N
      OBVIOUS
  <2>2. N - t \in 0..N /\ N - (N - t) = t
      BY <2>1
  <2> QED BY <2>1, <2>2
<1>2. \A t \in T : N - t \in S
    OBVIOUS
<1>3. \A k \in S : k \in 0..N /\ N - k \in T
    OBVIOUS
<1> HIDE DEF S
<1>4. PICK k \in S : \A m \in S : k <= m
    BY <1>1, Least
<1>5. \A m \in T : m <= N - k
    BY <1>2, <1>3, <1>4
<1> QED BY <1>3, <1>5

-----------------------------------------------------------------------------
(* The account observer.  Its invariant says who still vouches for a change *)
(* the window has not seen: a signal on its way, a read asked for, a call   *)
(* not yet served, or an answer that already holds it.                      *)

\* The answer on its way is still true, or is not the last word.
AnswerStands == answer = goa \/ answer = Failure \/ refetch_needed \/ signals > 0

\* Somebody will still tell the window of every change since its last answer,
\* and no answer on its way undoes what the window knows.
ChangeIsVouchedFor ==
    (connected /\ ~stopped) =>
        /\ read = "answered" => AnswerStands
        /\ UpToDate \/ update.last_check = "Failed" \/ signals > 0
              \/ read \in {"called", "answered"}

\* Before the connection no signal arrives, and no answer can be published.
NothingBeforeConnection ==
    (~connected /\ ~stopped) =>
        /\ signals = 0
        /\ read \in {"none", "connecting"}
        /\ update.last_check # "Complete"
        /\ read = "none" => update.last_check = "Failed"

\* The connection is made once.
ConnectedOnce == connected => read # "connecting"

\* A read asked for meanwhile waits for a read that runs.
RefetchHasItsRead == (refetch_needed /\ ~stopped) => read # "none"

\* After the stop nothing of the observer runs or arrives.
StoppedIsQuiet == stopped => read = "none" /\ ~connected /\ signals = 0

\* An update of the window.
Updates == [accounts : Accounts, last_check : Checks, retry_pending : BOOLEAN]

\* The parts of the invariant besides the types.
Vouched ==
    /\ ChangeIsVouchedFor /\ NothingBeforeConnection /\ ConnectedOnce
    /\ RefetchHasItsRead /\ StoppedIsQuiet /\ RetryIsServed

\* The inductive invariant.
IInv == TypeInvariant /\ Vouched

-----------------------------------------------------------------------------

\* The observer starts with nothing to vouch for: its first read connects.
LEMMA IInvInitially == Init => IInv
<1> SUFFICES ASSUME Init PROVE IInv
    OBVIOUS
<1>1. update \in Updates
    BY ObserverAssumption DEF Init, Updates, Checks
<1>2. TypeInvariant
    BY <1>1, ObserverAssumption DEF Init, TypeInvariant, Reads, Updates
<1>3. Vouched
    BY DEF Init, Vouched, ChangeIsVouchedFor,
       NothingBeforeConnection, ConnectedOnce, RefetchHasItsRead, StoppedIsQuiet, RetryIsServed
<1> QED BY <1>2, <1>3 DEF IInv

\* A change of the accounts sends a signal, or finds no connection to send it on.
LEMMA GoaChangesKeepsIInv == IInv /\ GoaChanges => IInv'
<1> SUFFICES ASSUME IInv, GoaChanges PROVE IInv'
    OBVIOUS
<1>1. update' \in Updates
    BY ObserverAssumption DEF IInv, TypeInvariant, Updates, Checks, GoaChanges
<1>2. TypeInvariant'
    BY <1>1, ObserverAssumption DEF IInv, TypeInvariant, Reads, Updates, GoaChanges
<1>3. Vouched'
    BY DEF IInv, TypeInvariant, Vouched, ChangeIsVouchedFor,
       NothingBeforeConnection, ConnectedOnce, RefetchHasItsRead, StoppedIsQuiet,
       RetryIsServed, AnswerStands, UpToDate,
       GoaChanges
<1> QED BY <1>2, <1>3 DEF IInv

\* An answer is true when it is served.
LEMMA GoaAnswersKeepsIInv == IInv /\ GoaAnswers => IInv'
<1> SUFFICES ASSUME IInv, GoaAnswers PROVE IInv'
    OBVIOUS
<1>1. update' \in Updates
    BY ObserverAssumption DEF IInv, TypeInvariant, Updates, Checks, GoaAnswers, Fail
<1>2. TypeInvariant'
    BY <1>1, ObserverAssumption DEF IInv, TypeInvariant, Reads, Updates, GoaAnswers, Fail
<1>3. Vouched'
    BY DEF IInv, TypeInvariant, Vouched, ChangeIsVouchedFor,
       NothingBeforeConnection, ConnectedOnce, RefetchHasItsRead, StoppedIsQuiet,
       RetryIsServed, AnswerStands, UpToDate,
       GoaAnswers, Fail
<1> QED BY <1>2, <1>3 DEF IInv

\* The connection leads straight to the call.
LEMMA ConnectKeepsIInv == IInv /\ Connect => IInv'
<1> SUFFICES ASSUME IInv, Connect PROVE IInv'
    OBVIOUS
<1>1. update' \in Updates
    BY ObserverAssumption DEF IInv, TypeInvariant, Updates, Checks, Connect
<1>2. TypeInvariant'
    BY <1>1, ObserverAssumption DEF IInv, TypeInvariant, Reads, Updates, Connect
<1>3. Vouched'
    BY DEF IInv, TypeInvariant, Vouched, ChangeIsVouchedFor,
       NothingBeforeConnection, ConnectedOnce, RefetchHasItsRead, StoppedIsQuiet,
       RetryIsServed, AnswerStands, UpToDate,
       Connect
<1> QED BY <1>2, <1>3 DEF IInv

\* A failed connection is published as a failure, and a Retry goes on or ends.
LEMMA ConnectFailsKeepsIInv == IInv /\ ConnectFails => IInv'
<1> SUFFICES ASSUME IInv, ConnectFails PROVE IInv'
    OBVIOUS
<1>1. update' \in Updates
    BY ObserverAssumption DEF IInv, TypeInvariant, Updates, Checks, ConnectFails, Fail, FinishRead
<1>2. read' \in Reads /\ refetch_needed' \in BOOLEAN
    BY DEF Reads, ConnectFails, FinishRead, StartedRead
<1>3. spent' \in [changes : Nat, retries : Nat, failures : Nat]
    BY DEF IInv, TypeInvariant, ConnectFails, Fail
<1>4. TypeInvariant'
    BY <1>1, <1>2, <1>3 DEF IInv, TypeInvariant, Updates, ConnectFails
<1>5. Vouched'
  <2>1. CASE refetch_needed
    BY <2>1 DEF IInv, TypeInvariant, Vouched, ChangeIsVouchedFor,
       NothingBeforeConnection, ConnectedOnce, RefetchHasItsRead, StoppedIsQuiet,
       RetryIsServed, AnswerStands, UpToDate,
       ConnectFails, Fail, FinishRead, StartedRead
  <2>2. CASE ~refetch_needed
    BY <2>2, ObserverAssumption DEF IInv, TypeInvariant, Vouched, ChangeIsVouchedFor,
       NothingBeforeConnection, ConnectedOnce, RefetchHasItsRead, StoppedIsQuiet,
       RetryIsServed, AnswerStands, UpToDate,
       ConnectFails, Fail, FinishRead, StartedRead
  <2> QED BY <2>1, <2>2
<1> QED BY <1>4, <1>5 DEF IInv

\* A published answer was still true, or another read starts or is signalled.
LEMMA ReadCompletesKeepsIInv == IInv /\ ReadCompletes => IInv'
<1> SUFFICES ASSUME IInv, ReadCompletes PROVE IInv'
    OBVIOUS
<1>1. update' \in Updates
    BY ObserverAssumption DEF IInv, TypeInvariant, Updates, Checks, ReadCompletes, FinishRead
<1>2. read' \in Reads
    BY DEF Reads, ReadCompletes, FinishRead, StartedRead
<1>3. TypeInvariant'
    BY <1>1, <1>2, ObserverAssumption DEF IInv, TypeInvariant, Reads, Updates,
       ReadCompletes, FinishRead
<1>4. Vouched'
  <2>1. CASE refetch_needed
    BY <2>1 DEF IInv, TypeInvariant, Vouched, ChangeIsVouchedFor,
       NothingBeforeConnection, ConnectedOnce, RefetchHasItsRead, StoppedIsQuiet,
       RetryIsServed, AnswerStands, UpToDate,
       ReadCompletes, FinishRead, StartedRead
  <2>2. CASE ~refetch_needed
    <3>1. connected /\ ~stopped /\ read' = "none" /\ ~refetch_needed'
        BY <2>2 DEF IInv, Vouched, NothingBeforeConnection, StoppedIsQuiet, ReadCompletes,
        FinishRead
    <3>2. ~update'.retry_pending
        BY <2>2 DEF ReadCompletes, FinishRead
    <3>3. ChangeIsVouchedFor'
      <4>1. CASE answer = Failure
        BY <3>1, <4>1 DEF ChangeIsVouchedFor, ReadCompletes, FinishRead
      <4>2. CASE answer # Failure
        <5>1. update'.accounts = answer /\ update'.last_check = "Complete"
            BY <4>2 DEF ReadCompletes, FinishRead
        <5>2. signals > 0 \/ answer = goa
            BY <2>2, <3>1, <4>2 DEF IInv, Vouched, ChangeIsVouchedFor, AnswerStands, ReadCompletes
        <5> QED BY <3>1, <5>1, <5>2 DEF ChangeIsVouchedFor, UpToDate, ReadCompletes
      <4> QED BY <4>1, <4>2
    <3> QED BY <3>1, <3>2, <3>3 DEF Vouched, NothingBeforeConnection, ConnectedOnce,
              RefetchHasItsRead, StoppedIsQuiet, RetryIsServed, ReadCompletes
  <2> QED BY <2>1, <2>2
<1> QED BY <1>3, <1>4 DEF IInv

\* A signal hands its change over to a read, now or after the one that runs.
LEMMA SignalArrivesKeepsIInv == IInv /\ SignalArrives => IInv'
<1> SUFFICES ASSUME IInv, SignalArrives PROVE IInv'
    OBVIOUS
<1>1. update' \in Updates
    BY ObserverAssumption DEF IInv, TypeInvariant, Updates, Checks, SignalArrives
<1>2. read' \in Reads /\ refetch_needed' \in BOOLEAN
    BY DEF IInv, TypeInvariant, Reads, SignalArrives, RequestRead, StartedRead
<1>3. TypeInvariant'
    BY <1>1, <1>2 DEF IInv, TypeInvariant, Updates, SignalArrives
<1>4. Vouched'
  <2>1. CASE read = "none"
    BY <2>1 DEF IInv, TypeInvariant, Vouched, ChangeIsVouchedFor,
       NothingBeforeConnection, ConnectedOnce, RefetchHasItsRead, StoppedIsQuiet,
       RetryIsServed, AnswerStands, UpToDate,
       SignalArrives, RequestRead, StartedRead
  <2>2. CASE read # "none"
    BY <2>2 DEF IInv, TypeInvariant, Reads, Vouched, ChangeIsVouchedFor,
       NothingBeforeConnection, ConnectedOnce, RefetchHasItsRead, StoppedIsQuiet,
       RetryIsServed, AnswerStands, UpToDate,
       SignalArrives, RequestRead
  <2> QED BY <2>1, <2>2
<1> QED BY <1>3, <1>4 DEF IInv

\* A Retry finds a read or starts one.
LEMMA RefreshAccountsKeepsIInv == IInv /\ RefreshAccounts => IInv'
<1> SUFFICES ASSUME IInv, RefreshAccounts PROVE IInv'
    OBVIOUS
<1>1. update' \in Updates
    BY ObserverAssumption DEF IInv, TypeInvariant, Updates, Checks, RefreshAccounts
<1>2. read' \in Reads /\ refetch_needed' \in BOOLEAN
    BY DEF IInv, TypeInvariant, Reads, RefreshAccounts, RequestRead, StartedRead
<1>3. TypeInvariant'
    BY <1>1, <1>2 DEF IInv, TypeInvariant, Updates, RefreshAccounts
<1>4. Vouched'
  <2>1. CASE read = "none"
    BY <2>1 DEF IInv, TypeInvariant, Vouched, ChangeIsVouchedFor,
       NothingBeforeConnection, ConnectedOnce, RefetchHasItsRead, StoppedIsQuiet,
       RetryIsServed, AnswerStands, UpToDate,
       RefreshAccounts, RequestRead, StartedRead
  <2>2. CASE read # "none"
    BY <2>2 DEF IInv, TypeInvariant, Reads, Vouched, ChangeIsVouchedFor,
       NothingBeforeConnection, ConnectedOnce, RefetchHasItsRead, StoppedIsQuiet,
       RetryIsServed, AnswerStands, UpToDate,
       RefreshAccounts, RequestRead
  <2> QED BY <2>1, <2>2
<1> QED BY <1>3, <1>4 DEF IInv

\* The stop silences everything.
LEMMA StopKeepsIInv == IInv /\ Stop => IInv'
<1> SUFFICES ASSUME IInv, Stop PROVE IInv'
    OBVIOUS
<1>1. update' \in Updates
    BY ObserverAssumption DEF IInv, TypeInvariant, Updates, Checks, Stop
<1>2. TypeInvariant'
    BY <1>1, ObserverAssumption DEF IInv, TypeInvariant, Reads, Updates, Stop
<1>3. Vouched'
    BY DEF IInv, TypeInvariant, Vouched, ChangeIsVouchedFor,
       NothingBeforeConnection, ConnectedOnce, RefetchHasItsRead, StoppedIsQuiet,
       RetryIsServed, AnswerStands, UpToDate,
       Stop
<1> QED BY <1>2, <1>3 DEF IInv

\* A step of none of the variables changes no part of the invariant.
LEMMA StutterKeepsIInv == IInv /\ UNCHANGED vars => IInv'
BY DEF vars, IInv, TypeInvariant, Vouched, ChangeIsVouchedFor, NothingBeforeConnection,
       ConnectedOnce, RefetchHasItsRead, StoppedIsQuiet, RetryIsServed, AnswerStands, UpToDate

\* The invariant holds throughout.
THEOREM ObserverInvariant == Spec => []IInv
<1>1. IInv /\ [Next]_vars => IInv'
    BY GoaChangesKeepsIInv, GoaAnswersKeepsIInv, ConnectKeepsIInv, ConnectFailsKeepsIInv,
       ReadCompletesKeepsIInv, SignalArrivesKeepsIInv, RefreshAccountsKeepsIInv,
       StopKeepsIInv, StutterKeepsIInv
    DEF Next, ObserverStep
<1> QED BY IInvInitially, <1>1, PTL DEF Spec

\* The update the window is given is always one of accounts and a known check,
\* a failed read's included: it keeps the accounts of the last answer.
THEOREM ObserverTypes == Spec => []TypeInvariant
<1>1. IInv => TypeInvariant
    BY DEF IInv
<1> QED BY ObserverInvariant, <1>1, PTL

\* No change of the account list is missed: at rest, accounts published as
\* complete are those Online Accounts holds.
THEOREM NoChangeMissed == Spec => []CurrentWhenIdle
<1>1. IInv => CurrentWhenIdle
    BY DEF IInv, TypeInvariant, Vouched, Reads, ChangeIsVouchedFor,
       NothingBeforeConnection, CurrentWhenIdle
<1> QED BY ObserverInvariant, <1>1, PTL

\* A pending Retry always has a read behind it.
THEOREM NoRetryStranded == Spec => []RetryIsServed
<1>1. IInv => RetryIsServed
    BY DEF IInv, Vouched
<1> QED BY ObserverInvariant, <1>1, PTL

-----------------------------------------------------------------------------
(* The labels of the account list.                                          *)

\* The numbers appended to a row's name make labels of different lengths, so
\* that one of them is free: the label is none of those used.
LEMMA NumberedIsFree ==
    ASSUME NEW row, NEW used, IsFiniteSet(used),
           row.base \in Seq(Range(row.base))
    PROVE  Numbered(row, used) \notin used
<1> DEFINE S == Range(row.base) \union {row.number}
           Label(k) == row.base \o [i \in 1..k |-> row.number]
           N == Cardinality(used)
<1>1. N \in Nat
    BY FS_CardinalityType
<1>2. row.base \in Seq(S)
    BY SeqMonotonic
<1>3. \A k \in Nat : [i \in 1..k |-> row.number] \in Seq(S)
    OBVIOUS
<1>4. \A k \in Nat : Len([i \in 1..k |-> row.number]) = k
    OBVIOUS
<1>5. ASSUME NEW j \in Nat, NEW k \in Nat, Label(j) = Label(k) PROVE j = k
  <2> DEFINE sj == [i \in 1..j |-> row.number]
             sk == [i \in 1..k |-> row.number]
  <2>1. sj \in Seq(S) /\ sk \in Seq(S) /\ Len(sj) = j /\ Len(sk) = k
      BY <1>3, <1>4
  <2> HIDE DEF sj, sk, S
  <2>2. Len(row.base \o sj) = Len(row.base) + Len(sj)
      BY <1>2, <2>1, ConcatProperties
  <2>3. Len(row.base \o sk) = Len(row.base) + Len(sk)
      BY <1>2, <2>1, ConcatProperties
  <2>4. Len(row.base) \in Nat
      BY <1>2, LenProperties
  <2>5. row.base \o sj = row.base \o sk
      BY <1>5 DEF sj, sk
  <2> QED BY <2>1, <2>2, <2>3, <2>4, <2>5
<1> HIDE DEF S, Label, N
<1> DEFINE Free == {k \in 1..N + 1 : Label(k) \notin used}
<1>6. Free # {}
  <2> SUFFICES ASSUME \A k \in 1..N + 1 : Label(k) \in used PROVE FALSE
      BY DEF Free
  <2> DEFINE f == [k \in 1..N + 1 |-> Label(k)]
  <2>1. IsFiniteSet(1..N + 1) /\ Cardinality(1..N + 1) = N + 1
      BY <1>1, FS_Interval
  <2>2. f \in [1..N + 1 -> used]
      OBVIOUS
  <2> HIDE DEF f
  <2>3. Cardinality(used) < Cardinality(1..N + 1)
      BY <1>1, <2>1 DEF N
  <2>4. \E x, y \in 1..N + 1 : x # y /\ f[x] = f[y]
      BY <2>1, <2>2, <2>3, FS_PigeonHole
  <2> QED BY <1>1, <1>5, <2>4 DEF f
<1>7. Free \subseteq Nat
    BY <1>1 DEF Free
<1>8. PICK n \in Free : \A m \in Free : n <= m
    BY <1>6, <1>7, Least
<1>9. \E k \in 1..N + 1 : Label(k) \notin used /\ \A j \in 1..k - 1 : Label(j) \in used
  <2>1. n \in 1..N + 1 /\ Label(n) \notin used
      BY <1>8 DEF Free
  <2>2. ASSUME NEW j \in 1..n - 1 PROVE Label(j) \in used
      BY <1>1, <1>8, <2>1, <2>2 DEF Free
  <2> QED BY <2>1, <2>2
<1>10. Numbered(row, used) = Label(CHOOSE k \in 1..N + 1 :
                        Label(k) \notin used /\ \A j \in 1..k - 1 : Label(j) \in used)
    BY DEF Numbered, Label, N
<1> QED BY <1>9, <1>10

-----------------------------------------------------------------------------

\* The name of another row.
SharesName(shown, a) == \E b \in DOMAIN shown \ {a} : shown[b].base = shown[a].base

\* The names the accounts' rows begin with.
Names(shown) == {shown[b].base : b \in DOMAIN shown}

\* What the labels are defined from: the label of a row, given those before it.
LabelAfter(shown, f, a) ==
    IF SharesName(shown, a)
    THEN Numbered(shown[a], Names(shown) \union {f[b] : b \in {c \in DOMAIN shown : c < a}})
    ELSE shown[a].base

\* The label of a row depends on the labels before it only.
LEMMA LabelOfEqualBefore ==
    ASSUME NEW shown, NEW f, NEW g, NEW a,
           \A b \in DOMAIN shown : b < a => f[b] = g[b]
    PROVE  LabelAfter(shown, f, a) = LabelAfter(shown, g, a)
<1>1. {f[b] : b \in {c \in DOMAIN shown : c < a}} = {g[b] : b \in {c \in DOMAIN shown : c < a}}
    BY Zenon
<1> QED BY <1>1 DEF LabelAfter

\* The rows are labelled in their order: the labels of the first ones exist
\* whatever their number.
LEMMA LabelsOfFirst ==
    ASSUME NEW shown, DOMAIN shown \subseteq Nat
    PROVE  \A n \in Nat :
              \E f : f = [a \in {c \in DOMAIN shown : c < n} |-> LabelAfter(shown, f, a)]
<1> DEFINE First(n) == {c \in DOMAIN shown : c < n}
           Labelled(n) == \E f : f = [a \in First(n) |-> LabelAfter(shown, f, a)]
           T == {n \in Nat : ~Labelled(n)}
<1> SUFFICES ASSUME T # {} PROVE FALSE
    OBVIOUS
<1>1. PICK n \in T : \A m \in T : n <= m
    BY Least
<1>2. n # 0
  <2> SUFFICES ASSUME n = 0 PROVE FALSE
      OBVIOUS
  <2>1. First(0) = {}
      OBVIOUS
  <2> DEFINE f == [a \in {} |-> a]
  <2>2. f = [a \in First(0) |-> LabelAfter(shown, f, a)]
      BY <2>1
  <2> QED BY <1>1, <2>2
<1> HIDE DEF Labelled
<1>3. n - 1 \in Nat /\ n - 1 \notin T
    BY <1>1, <1>2
<1>4. PICK f : f = [a \in First(n - 1) |-> LabelAfter(shown, f, a)]
    BY <1>3 DEF Labelled
<1> DEFINE g == [a \in First(n) |-> LabelAfter(shown, f, a)]
<1>5. ASSUME NEW a \in First(n) PROVE LabelAfter(shown, f, a) = LabelAfter(shown, g, a)
  <2>1. ASSUME NEW b \in DOMAIN shown, b < a PROVE f[b] = g[b]
    <3>1. b \in First(n - 1) /\ b \in First(n)
        BY <1>1, <1>5, <2>1
    <3>2. f[b] = LabelAfter(shown, f, b)
        BY <1>4, <3>1
    <3> QED BY <3>1, <3>2
  <2> HIDE DEF g
  <2> QED BY <2>1, LabelOfEqualBefore
<1>6. g = [a \in First(n) |-> LabelAfter(shown, g, a)]
    BY <1>5
<1>7. Labelled(n)
    BY <1>6 DEF Labelled
<1> QED BY <1>1, <1>7

\* The labels are those the definition says, one row after the other.
LEMMA LabelsDefined ==
    ASSUME NEW shown, NEW N \in Nat, DOMAIN shown \subseteq 1..N
    PROVE  \A a \in DOMAIN shown : Labels(shown)[a] = LabelAfter(shown, Labels(shown), a)
<1>1. {c \in DOMAIN shown : c < N + 1} = DOMAIN shown
    OBVIOUS
<1>2. \A n \in Nat : \E f : f = [a \in {c \in DOMAIN shown : c < n} |-> LabelAfter(shown, f, a)]
  <2>1. DOMAIN shown \subseteq Nat
      OBVIOUS
  <2> QED BY ONLY <2>1, LabelsOfFirst
<1>3. \E f : f = [a \in DOMAIN shown |-> LabelAfter(shown, f, a)]
    BY <1>1, <1>2
<1>4. Labels(shown) = CHOOSE f : f = [a \in DOMAIN shown |-> LabelAfter(shown, f, a)]
    BY Zenon DEF Labels, LabelAfter, Names, SharesName
<1>5. Labels(shown) = [a \in DOMAIN shown |-> LabelAfter(shown, Labels(shown), a)]
    BY <1>3, <1>4
<1> QED BY <1>5

\* Equal names never make two labels equal.
LEMMA LabelsDiffer ==
    ASSUME NEW shown, NEW N \in Nat, DOMAIN shown \subseteq 1..N,
           \A a \in DOMAIN shown : shown[a].base \in Seq(Range(shown[a].base)),
           NEW a \in DOMAIN shown, NEW b \in DOMAIN shown, a < b
    PROVE  Labels(shown)[a] # Labels(shown)[b]
<1> DEFINE label == Labels(shown)
           before(c) == {d \in DOMAIN shown : d < c}
           used(c) == Names(shown) \union {label[d] : d \in before(c)}
<1>1. \A c \in DOMAIN shown : label[c] = LabelAfter(shown, label, c)
    BY LabelsDefined
<1>2. \A c \in DOMAIN shown : SharesName(shown, c) => label[c] = Numbered(shown[c], used(c))
    BY <1>1 DEF LabelAfter
<1>3. \A c \in DOMAIN shown : ~SharesName(shown, c) => label[c] = shown[c].base
    BY <1>1 DEF LabelAfter
<1>4. \A c \in DOMAIN shown : IsFiniteSet(used(c))
  <2> TAKE c \in DOMAIN shown
  <2>1. IsFiniteSet(DOMAIN shown)
    <3>1. IsFiniteSet(1..N)
        BY FS_Interval
    <3> QED BY <3>1, FS_Subset
  <2>2. IsFiniteSet(Names(shown))
    <3> DEFINE f == [d \in DOMAIN shown |-> shown[d].base]
    <3>1. f \in Surjection(DOMAIN shown, Names(shown))
        BY DEF Surjection, Names
    <3> QED BY <2>1, <3>1, FS_Surjection
  <2>3. IsFiniteSet({label[d] : d \in before(c)})
    <3> DEFINE f == [d \in before(c) |-> label[d]]
    <3>1. f \in Surjection(before(c), {label[d] : d \in before(c)})
        BY DEF Surjection
    <3>2. IsFiniteSet(before(c))
        BY <2>1, FS_Subset
    <3> QED BY <3>1, <3>2, FS_Surjection
  <2> QED BY <2>2, <2>3, FS_Union
<1> HIDE DEF label
<1>5. \A c \in DOMAIN shown : SharesName(shown, c) => label[c] \notin used(c)
  <2> TAKE c \in DOMAIN shown
  <2>1. Numbered(shown[c], used(c)) \notin used(c)
      BY <1>4, NumberedIsFree
  <2> QED BY <1>2, <2>1
<1>6. label[a] # label[b]
  <2>1. CASE SharesName(shown, b)
    <3>1. label[a] \in used(b)
        OBVIOUS
    <3> QED BY <1>5, <2>1, <3>1
  <2>2. CASE ~SharesName(shown, b)
    <3>1. label[b] = shown[b].base
        BY <1>3, <2>2
    <3>2. shown[b].base \in used(a)
        BY DEF Names
    <3>3. a # b
        OBVIOUS
    <3>4. CASE SharesName(shown, a)
        BY <1>5, <3>1, <3>2, <3>4
    <3>5. CASE ~SharesName(shown, a)
        BY <1>3, <2>2, <3>1, <3>3, <3>5 DEF SharesName
    <3> QED BY <3>4, <3>5
  <2> QED BY <2>1, <2>2
<1> QED BY <1>6 DEF label

-----------------------------------------------------------------------------
(* The account list and the tree keep their invariant.                      *)

\* What the rows of one account offer to select.
KeysOf(a, node) ==
    {key \in {Key(a, UnderAccount)} : ~IsHeading(node)}
        \union {Key(a, f.identity) :
                    f \in {g \in ShownFolders(node.listed, node.collapsed) : g.selectable}}

\* The records the actions change: a row's fields and a node's.
AccountRows ==
    \A a \in DOMAIN rows : DOMAIN rows[a] = {"base", "label", "problems", "number"}

\* A node holds a folder list that was read, or none yet.
AccountNodes ==
    \A a \in DOMAIN nodes :
        /\ DOMAIN nodes[a] = {"listed", "collapsed"}
        /\ nodes[a].listed \in FolderLists \union {{}}

\* The inductive invariant of the account list and the tree.
SidebarIInv == AccountRows /\ AccountNodes /\ LabelsTellApart /\ SelectionIsShown

-----------------------------------------------------------------------------
(* The tree.                                                               *)

\* The keys that can be selected are those the accounts' nodes show.
LEMMA SelectableByAccount ==
    ASSUME NEW tree, NEW key
    PROVE  key \in SelectableKeys(tree) <=> \E a \in DOMAIN tree : key \in KeysOf(a, tree[a])
BY DEF SelectableKeys, KeysOf

\* A key tells of which account it is.
LEMMA KeyIsOfAccount ==
    ASSUME NEW a, NEW node, NEW key \in KeysOf(a, node)
    PROVE  key.account = a
BY DEF KeysOf, Key

\* A key is of its account's node alone.
LEMMA KeyStays ==
    ASSUME NEW tree, NEW other, NEW key \in SelectableKeys(tree),
           key.account \in DOMAIN other, other[key.account] = tree[key.account]
    PROVE  key \in SelectableKeys(other)
<1>1. PICK a \in DOMAIN tree : key \in KeysOf(a, tree[a])
    BY SelectableByAccount
<1>2. key.account = a
    BY <1>1, KeyIsOfAccount
<1> QED BY <1>1, <1>2, SelectableByAccount

\* Expanding a row hides none.
LEMMA ExpandingHidesNone ==
    ASSUME NEW listed, NEW collapsed, NEW fewer, fewer \subseteq collapsed
    PROVE  ShownFolders(listed, collapsed) \subseteq ShownFolders(listed, fewer)
BY DEF ShownFolders

\* Nobody is shown twice, nothing is selected and no row is there at first.
LEMMA SidebarIInvInitially == SidebarInit => SidebarIInv
BY DEF SidebarInit, SidebarIInv, AccountRows, AccountNodes, LabelsTellApart, SelectionIsShown

\* The rows of an update, each with the name Online Accounts gives it.
LEMMA UpdatedRowsAreNamed ==
    ASSUME NEW accounts \in Accounts, AccountRows
    PROVE  /\ DOMAIN UpdatedRows(accounts) \subseteq 1..Cardinality(Ids)
           /\ \A a \in DOMAIN UpdatedRows(accounts) :
                 /\ DOMAIN UpdatedRows(accounts)[a] = {"base", "label", "problems", "number"}
                 /\ UpdatedRows(accounts)[a].base \in Seq(Range(UpdatedRows(accounts)[a].base))
<1> DEFINE arriving == Arriving(accounts)
           NewRow(a) == [base |-> <<>>, label |-> <<>>, problems |-> {},
                         number |-> next_label_number
                                 + Cardinality({b \in arriving : b < a})]
           row(a) == IF a \in arriving THEN NewRow(a) ELSE rows[a]
           shown == arriving \union Remaining(accounts)
<1>1. UpdatedRows(accounts) = [a \in shown |-> RowDetails(row(a), accounts[a])]
    BY DEF UpdatedRows
<1>2. shown \subseteq DOMAIN accounts
    BY DEF Arriving, Remaining
<1>3. \A a \in shown : DOMAIN row(a) = {"base", "label", "problems", "number"}
    BY DEF AccountRows, Remaining
<1> HIDE DEF row, shown
<1>4. \A a \in shown :
         /\ DOMAIN RowDetails(row(a), accounts[a]) = {"base", "label", "problems", "number"}
         /\ RowDetails(row(a), accounts[a]).base = accounts[a].name
    BY <1>3 DEF RowDetails
<1>5. DOMAIN UpdatedRows(accounts) = shown
    BY <1>1
<1>6. \A a \in shown : UpdatedRows(accounts)[a] = RowDetails(row(a), accounts[a])
    BY <1>1
<1>7. \A a \in shown : accounts[a].name \in Seq(Range(accounts[a].name))
  <2> SUFFICES ASSUME NEW a \in shown PROVE accounts[a].name \in Seq(Range(accounts[a].name))
      OBVIOUS
  <2> DEFINE name == accounts[a].name
             length == Len(name)
  <2>1. length \in Nat /\ name = [i \in 1..length |-> name[i]]
      BY <1>2, SidebarAssumption
  <2> HIDE DEF name, length
  <2>2. \A i \in 1..length : name[i] \in Range(name)
    <3>1. DOMAIN name = 1..length
        BY <2>1
    <3> QED BY <3>1 DEF Range
  <2>3. name \in [1..length -> Range(name)]
      BY <2>1, <2>2
  <2> QED BY <2>1, <2>3 DEF name
<1>8. shown \subseteq 1..Cardinality(Ids)
    BY <1>2, SidebarAssumption
<1> QED BY <1>4, <1>5, <1>6, <1>7, <1>8

\* An update labels the rows anew, and a selection stays only with its account.
LEMMA ApplyUpdateKeepsSidebarIInv ==
    ASSUME SidebarIInv, NEW published, published.accounts \in Accounts, ApplyUpdate(published)
    PROVE  SidebarIInv'
<1>1. CASE published.last_check # "Complete"
  <2>1. MarkUnconfirmed
      BY <1>1 DEF ApplyUpdate
  <2>2. /\ DOMAIN rows' = DOMAIN rows
        /\ \A a \in DOMAIN rows : /\ DOMAIN rows'[a] = DOMAIN rows[a]
                                  /\ rows'[a].label = rows[a].label
      BY <2>1 DEF MarkUnconfirmed, SidebarIInv, AccountRows
  <2>3. nodes' = nodes /\ selection' = selection
      BY <2>1 DEF MarkUnconfirmed
  <2>4. AccountRows' /\ LabelsTellApart'
      BY <2>2 DEF SidebarIInv, AccountRows, LabelsTellApart
  <2>5. AccountNodes' /\ SelectionIsShown'
      BY <2>3 DEF SidebarIInv, AccountNodes, SelectionIsShown, SelectableKeys
  <2> QED BY <2>4, <2>5 DEF SidebarIInv
<1>2. CASE published.last_check = "Complete"
  <2> DEFINE shown == UpdatedRows(published.accounts)
  <2>1. /\ rows' = DisplayLabels(shown)
        /\ selection' = IF selection # NoSelection /\ selection.account \notin DOMAIN rows'
                        THEN NoSelection ELSE selection
        /\ nodes' = UpdatedNodes(DOMAIN rows')
      BY <1>2 DEF ApplyUpdate
  <2>2. /\ DOMAIN shown \subseteq 1..Cardinality(Ids)
        /\ \A a \in DOMAIN shown :
              /\ DOMAIN shown[a] = {"base", "label", "problems", "number"}
              /\ shown[a].base \in Seq(Range(shown[a].base))
      BY UpdatedRowsAreNamed DEF SidebarIInv
  <2> HIDE DEF shown
  <2>3. Cardinality(Ids) \in Nat
      BY SidebarAssumption, FS_CardinalityType
  <2>4. /\ DOMAIN rows' = DOMAIN shown
        /\ \A a \in DOMAIN shown : /\ DOMAIN rows'[a] = DOMAIN shown[a]
                                   /\ rows'[a].label = Labels(shown)[a]
      BY <2>1, <2>2 DEF DisplayLabels
  <2>5. AccountRows'
      BY <2>2, <2>4 DEF AccountRows
  <2>6. ASSUME NEW a \in DOMAIN shown, NEW b \in DOMAIN shown, a < b
        PROVE  Labels(shown)[a] # Labels(shown)[b]
      BY <2>2, <2>3, <2>6, LabelsDiffer
  <2>7. LabelsTellApart'
    <3> SUFFICES ASSUME NEW a \in DOMAIN shown, NEW b \in DOMAIN shown, a # b
                 PROVE  Labels(shown)[a] # Labels(shown)[b]
        BY <2>4 DEF LabelsTellApart
    <3>1. a < b \/ b < a
        BY <2>2
    <3> QED BY <2>6, <3>1
  <2>8. nodes' = [a \in DOMAIN rows' |->
                     IF a \in DOMAIN nodes THEN nodes[a] ELSE [listed |-> {}, collapsed |-> {}]]
      BY <2>1 DEF UpdatedNodes
  <2>9. AccountNodes'
      BY <2>8 DEF SidebarIInv, AccountNodes
  <2>10. SelectionIsShown'
    <3> SUFFICES ASSUME selection' # NoSelection PROVE selection' \in SelectableKeys(nodes')
        BY DEF SelectionIsShown
    <3>1. selection' = selection /\ selection.account \in DOMAIN rows'
        BY <2>1
    <3>2. selection \in SelectableKeys(nodes)
        BY <3>1 DEF SidebarIInv, SelectionIsShown
    <3>3. selection.account \in DOMAIN nodes
        BY <3>2, SelectableByAccount, KeyIsOfAccount
    <3>4. /\ selection.account \in DOMAIN nodes'
          /\ nodes'[selection.account] = nodes[selection.account]
        BY <2>8, <3>1, <3>3
    <3>5. selection \in SelectableKeys(nodes')
        BY <3>2, <3>4, KeyStays
    <3> QED BY <3>1, <3>5
  <2> QED BY <2>5, <2>7, <2>9, <2>10 DEF SidebarIInv
<1> QED BY <1>1, <1>2

\* After a change of one account's node, the selection is of another account,
\* was looked up again, or is none.
LEMMA SelectionWithIsShown ==
    ASSUME SelectionIsShown, NEW account, NEW tree,
           DOMAIN tree = DOMAIN nodes,
           \A a \in DOMAIN nodes \ {account} : tree[a] = nodes[a],
           SelectionWith(account, tree) # NoSelection
    PROVE  SelectionWith(account, tree) \in SelectableKeys(tree)
<1>1. SelectionWith(account, tree) = selection
    BY DEF SelectionWith
<1>2. CASE selection.account = account
    BY <1>1, <1>2 DEF SelectionWith
<1>3. CASE selection.account # account
  <2>1. selection \in SelectableKeys(nodes)
      BY <1>1 DEF SelectionIsShown
  <2>2. selection.account \in DOMAIN nodes
      BY <2>1, SelectableByAccount, KeyIsOfAccount
  <2>3. selection \in SelectableKeys(tree)
      BY <1>3, <2>1, <2>2, KeyStays
  <2> QED BY <1>1, <2>3
<1> QED BY <1>2, <1>3

\* New folders of an account rebuild its rows, and the selection is looked up
\* again among them.
LEMMA ShowFoldersKeepsSidebarIInv ==
    ASSUME SidebarIInv, NEW account, NEW folders \in FolderLists, ShowFolders(account, folders)
    PROVE  SidebarIInv'
<1>1. rows' = rows /\ account \in DOMAIN nodes
    BY DEF ShowFolders, list_vars
<1>2. AccountRows' /\ LabelsTellApart'
    BY <1>1 DEF SidebarIInv, AccountRows, LabelsTellApart
<1>3. /\ DOMAIN nodes' = DOMAIN nodes
      /\ \A a \in DOMAIN nodes \ {account} : nodes'[a] = nodes[a]
      /\ DOMAIN nodes'[account] = {"listed", "collapsed"}
      /\ nodes'[account].listed = folders
    BY <1>1 DEF ShowFolders
<1>4. AccountNodes'
    BY <1>1, <1>3 DEF SidebarIInv, AccountNodes
<1>5. selection' = SelectionWith(account, nodes')
    BY DEF ShowFolders
<1>6. SelectionIsShown'
    BY <1>3, <1>5, SelectionWithIsShown DEF SidebarIInv, SelectionIsShown
<1> QED BY <1>2, <1>4, <1>6 DEF SidebarIInv

\* A collapsed row takes the selection off the rows it hides.
LEMMA CollapseRowKeepsSidebarIInv ==
    ASSUME SidebarIInv, NEW account, NEW row, CollapseRow(account, row)
    PROVE  SidebarIInv'
<1>1. rows' = rows /\ account \in DOMAIN nodes
    BY DEF CollapseRow, list_vars
<1>2. AccountRows' /\ LabelsTellApart'
    BY <1>1 DEF SidebarIInv, AccountRows, LabelsTellApart
<1>3. PICK collapsed : nodes' = [nodes EXCEPT ![account].collapsed = collapsed]
    BY DEF CollapseRow
<1>4. /\ DOMAIN nodes' = DOMAIN nodes
      /\ \A a \in DOMAIN nodes \ {account} : nodes'[a] = nodes[a]
      /\ DOMAIN nodes'[account] = DOMAIN nodes[account]
      /\ nodes'[account].listed = nodes[account].listed
    BY <1>1, <1>3 DEF SidebarIInv, AccountNodes
<1>5. AccountNodes'
    BY <1>1, <1>4 DEF SidebarIInv, AccountNodes
<1>6. selection' = SelectionWith(account, nodes')
    BY DEF CollapseRow, ClearHidden
<1>7. SelectionIsShown'
    BY <1>4, <1>6, SelectionWithIsShown DEF SidebarIInv, SelectionIsShown
<1> QED BY <1>2, <1>5, <1>7 DEF SidebarIInv

\* Expanding shows more rows, and the selection's is still one of them.
LEMMA ExpandRowKeepsSidebarIInv ==
    ASSUME SidebarIInv, NEW account, NEW row, ExpandRow(account, row)
    PROVE  SidebarIInv'
<1>1. rows' = rows /\ account \in DOMAIN nodes /\ selection' = selection
    BY DEF ExpandRow, list_vars
<1>2. AccountRows' /\ LabelsTellApart'
    BY <1>1 DEF SidebarIInv, AccountRows, LabelsTellApart
<1>3. nodes' = [nodes EXCEPT ![account].collapsed = nodes[account].collapsed \ {row}]
    BY DEF ExpandRow
<1>4. /\ DOMAIN nodes' = DOMAIN nodes
      /\ \A a \in DOMAIN nodes \ {account} : nodes'[a] = nodes[a]
      /\ DOMAIN nodes'[account] = DOMAIN nodes[account]
      /\ nodes'[account].listed = nodes[account].listed
      /\ nodes'[account].collapsed \subseteq nodes[account].collapsed
    BY <1>1, <1>3 DEF SidebarIInv, AccountNodes
<1>5. AccountNodes'
    BY <1>1, <1>4 DEF SidebarIInv, AccountNodes
<1>6. ASSUME NEW a \in DOMAIN nodes, NEW key \in KeysOf(a, nodes[a])
      PROVE  key \in KeysOf(a, nodes'[a])
  <2>1. CASE a # account
      BY <1>4, <1>6, <2>1
  <2>2. CASE a = account
    <3>1. ShownFolders(nodes[a].listed, nodes[a].collapsed)
            \subseteq ShownFolders(nodes'[a].listed, nodes'[a].collapsed)
        BY <1>4, <2>2, ExpandingHidesNone
    <3>2. IsHeading(nodes'[a]) <=> IsHeading(nodes[a])
        BY <1>4, <2>2 DEF IsHeading
    <3> QED BY <1>6, <3>1, <3>2 DEF KeysOf
  <2> QED BY <2>1, <2>2
<1>7. SelectionIsShown'
    BY <1>1, <1>4, <1>6, SelectableByAccount DEF SidebarIInv, SelectionIsShown
<1> QED BY <1>2, <1>5, <1>7 DEF SidebarIInv

\* The user selects a row that is shown.
LEMMA SelectKeepsSidebarIInv ==
    ASSUME SidebarIInv, NEW key, Select(key)
    PROVE  SidebarIInv'
<1>1. rows' = rows /\ nodes' = nodes /\ selection' \in SelectableKeys(nodes)
    BY DEF Select, list_vars
<1> QED BY <1>1 DEF SidebarIInv, AccountRows, AccountNodes, LabelsTellApart, SelectionIsShown,
           SelectableKeys

\* Every step of the window is one of the observer's, or none of them.
LEMMA SidebarStepsObserve == SidebarNext => [Next]_vars
BY Zenon DEF SidebarNext, Published, Unpublished, UserOrStore, UserSelects, ShowFolders, Select,
   CollapseRow, ExpandRow, Next, ObserverStep

\* With the sidebar, the observer does what it does alone.
THEOREM SidebarObserves == SidebarSpec => Spec
<1>1. [SidebarNext]_allvars => [Next]_vars
    BY Zenon, SidebarStepsObserve DEF allvars
<1>2. SidebarInit => Init
    BY DEF SidebarInit
<1> QED BY <1>1, <1>2, PTL DEF SidebarSpec, Spec

\* Each step of the window keeps the invariant of the account list and the tree.
LEMMA SidebarStepKeepsSidebarIInv ==
    ASSUME IInv, IInv', SidebarIInv, [SidebarNext]_allvars
    PROVE  SidebarIInv'
<1>1. CASE Published
  <2>1. update'.accounts \in Accounts
      BY DEF IInv, TypeInvariant
  <2>2. ApplyUpdate(update')
      BY <1>1 DEF Published
  <2> QED BY <2>1, <2>2, ApplyUpdateKeepsSidebarIInv
<1>2. CASE Unpublished \/ UNCHANGED allvars
  <2>1. rows' = rows /\ nodes' = nodes /\ selection' = selection
      BY <1>2 DEF Unpublished, allvars, sidebar, list_vars
  <2> QED BY <2>1 DEF SidebarIInv, AccountRows, AccountNodes, LabelsTellApart, SelectionIsShown,
             SelectableKeys
<1>3. CASE UserOrStore
  <2>1. PICK account \in DOMAIN nodes :
           \/ \E folders \in FolderLists : ShowFolders(account, folders)
           \/ \E row \in {UnderAccount} \union {f.identity : f \in nodes[account].listed} :
                 CollapseRow(account, row) \/ ExpandRow(account, row)
      BY <1>3, Zenon DEF UserOrStore
  <2>2. CASE \E folders \in FolderLists : ShowFolders(account, folders)
    <3>1. PICK folders \in FolderLists : ShowFolders(account, folders)
        BY <2>2
    <3> QED BY <3>1, ShowFoldersKeepsSidebarIInv
  <2>3. ASSUME NEW row, CollapseRow(account, row) PROVE SidebarIInv'
      BY <2>3, CollapseRowKeepsSidebarIInv
  <2>4. ASSUME NEW row, ExpandRow(account, row) PROVE SidebarIInv'
      BY <2>4, ExpandRowKeepsSidebarIInv
  <2> QED BY <2>1, <2>2, <2>3, <2>4
<1>4. CASE UserSelects
  <2>1. PICK key \in SelectableKeys(nodes) : Select(key)
      BY <1>4, Zenon DEF UserSelects
  <2> QED BY <2>1, SelectKeepsSidebarIInv
<1> QED BY <1>1, <1>2, <1>3, <1>4 DEF SidebarNext

\* The invariant of the account list and the tree holds throughout, whatever
\* updates, folder lists and clicks come.
THEOREM SidebarInvariant == SidebarSpec => []SidebarIInv
<1>1. SidebarSpec => []IInv
    BY SidebarObserves, ObserverInvariant, PTL
<1>2. IInv /\ IInv' /\ SidebarIInv /\ [SidebarNext]_allvars => SidebarIInv'
    BY SidebarStepKeepsSidebarIInv
<1> QED BY SidebarIInvInitially, <1>1, <1>2, PTL DEF SidebarSpec

\* No two rows of the account list have the same label, whatever names Online
\* Accounts gives the accounts, equal ones and ones that look like a numbered
\* label of another included (accounts.rs assign_display_labels).
THEOREM SidebarLabelsTellApart == SidebarSpec => []LabelsTellApart
<1>1. SidebarIInv => LabelsTellApart
    BY DEF SidebarIInv
<1> QED BY SidebarInvariant, <1>1, PTL

\* The selection is a row that is shown: no update of the accounts, new folder
\* list or collapsed row leaves it on a folder that has none (sidebar_ui.rs
\* show_selection, clear_hidden_selection).
THEOREM SidebarSelectionIsShown == SidebarSpec => []SelectionIsShown
<1>1. SidebarIInv => SelectionIsShown
    BY DEF SidebarIInv
<1> QED BY SidebarInvariant, <1>1, PTL

-----------------------------------------------------------------------------
(* Folder lists.                                                           *)

\* However some folders are cut off a list, one of them sits under the account
\* or under a folder left: following the parents ends at the account.
IsTree(list) ==
    \A cut \in SUBSET list :
        cut # {} => \E f \in cut :
                        \/ f.parent = UnderAccount
                        \/ \E p \in list \ cut : p.identity = f.parent

\* Every folder of a tree has a row when all are expanded.
LEMMA TreeIsShown ==
    ASSUME NEW list, IsTree(list)
    PROVE  list \subseteq ShownFolders(list, {})
<1> DEFINE Expanded(shown) == ({UnderAccount} \union {p.identity : p \in shown}) \ {}
<1> SUFFICES ASSUME NEW f \in list, NEW shown \in SUBSET list,
                    \A g \in list : g.parent \in Expanded(shown) => g \in shown
             PROVE  f \in shown
    BY DEF ShownFolders
<1> SUFFICES ASSUME f \notin shown PROVE FALSE
    OBVIOUS
<1>1. list \ shown # {} /\ list \ shown \in SUBSET list
    OBVIOUS
<1>2. PICK g \in list \ shown : \/ g.parent = UnderAccount
                                \/ \E p \in list \ (list \ shown) : p.identity = g.parent
    BY <1>1 DEF IsTree
<1>3. g.parent \in Expanded(shown)
    BY <1>2
<1> QED BY <1>3

\* A mailbox's name has parts, one at least.
IsListing(list) ==
    \A mailbox \in list :
        mailbox.name \in Seq(Range(mailbox.name)) /\ mailbox.name # <<>>

\* A parent is listed, and its name is shorter.
LEMMA ParentIsShorter ==
    ASSUME NEW list, IsListing(list), NEW mailbox \in list,
           Lists!ListedParent(mailbox, list) # UnderAccount
    PROVE  /\ Lists!ListedParent(mailbox, list) \in {m.name : m \in list}
           /\ Len(Lists!ListedParent(mailbox, list)) = Len(mailbox.name) - 1
           /\ Len(mailbox.name) \in Nat
<1> DEFINE name == mailbox.name
           above == SubSeq(name, 1, Len(name) - 1)
<1>1. name \in Seq(Range(name))
    BY DEF IsListing
<1>2. Len(name) \in Nat /\ \A i \in 1..Len(name) : name[i] \in Range(name)
    BY <1>1, LenProperties, ElementOfSeq
<1>3. Lists!ListedParent(mailbox, list) = above /\ above \in {m.name : m \in list} /\ Len(name) > 1
    BY DEF Lists!ListedParent, Lists!NameAbove, Lists!Listed
<1> HIDE DEF name
<1>4. Len(above) = Len(name) - 1
    BY <1>2, <1>3, SubSeqProperties
<1> QED BY <1>2, <1>3, <1>4 DEF name

\* Among some mailboxes one has the shortest name.
LEMMA ShortestName ==
    ASSUME NEW list, IsListing(list), NEW cut, cut \subseteq list, cut # {}
    PROVE  \E mailbox \in cut : \A m \in cut : Len(mailbox.name) <= Len(m.name)
<1> DEFINE T == {Len(m.name) : m \in cut}
<1>1. \A m \in cut : Len(m.name) \in Nat
    BY LenProperties DEF IsListing
<1>2. T \subseteq Nat /\ T # {}
    BY <1>1
<1>3. \E n \in T : \A m \in T : n <= m
    BY <1>2, Least
<1> QED BY <1>3

\* A LIST answer makes a tree, whatever parents the server left out.
LEMMA ImapFoldersAreTree ==
    ASSUME NEW list, IsListing(list)
    PROVE  IsTree(Lists!ImapFolders(list))
<1> DEFINE folders == Lists!ImapFolders(list)
           Made(m) == [identity   |-> m.name,
                         parent     |-> Lists!ListedParent(m, list),
                         role       |-> m.role,
                         selectable |-> m.attributes \intersect {"Noselect", "NonExistent"} = {}]
<1>1. folders = {Made(m) : m \in list}
    BY DEF Lists!ImapFolders
<1> SUFFICES ASSUME NEW cut \in SUBSET folders, cut # {}
             PROVE  \E f \in cut : \/ f.parent = UnderAccount
                                   \/ \E p \in folders \ cut : p.identity = f.parent
    BY DEF IsTree
<1> DEFINE cutboxes == {m \in list : Made(m) \in cut}
<1>2. cutboxes \subseteq list /\ cutboxes # {}
  <2>1. PICK f \in cut : f \in folders
      OBVIOUS
  <2> HIDE DEF Made
  <2>2. PICK m \in list : f = Made(m)
      BY <1>1, <2>1
  <2> QED BY <2>1, <2>2
<1>3. PICK m \in cutboxes : \A other \in cutboxes : Len(m.name) <= Len(other.name)
    BY <1>2, ShortestName
<1>4. CASE Lists!ListedParent(m, list) = UnderAccount
  <2>1. Made(m) \in cut /\ Made(m).parent = UnderAccount
      BY <1>3, <1>4
  <2> QED BY <2>1
<1>5. CASE Lists!ListedParent(m, list) # UnderAccount
  <2>1. PICK p \in list : p.name = Lists!ListedParent(m, list)
      BY <1>3, <1>5, ParentIsShorter
  <2>2. Len(p.name) = Len(m.name) - 1 /\ Len(m.name) \in Nat
      BY <1>3, <1>5, <2>1, ParentIsShorter
  <2>3. p \notin cutboxes
      BY <1>3, <2>2
  <2>4. Made(p) \in folders \ cut
      BY <1>1, <2>3
  <2> QED BY <1>3, <2>1, <2>4
<1> QED BY <1>4, <1>5

\* A tree stays one when folders are left out and those in them moved under the
\* account.
LEMMA TreeWithoutFolders ==
    ASSUME NEW folders, IsTree(folders), NEW gone,
           \A f \in folders : "parent" \in DOMAIN f
    PROVE  IsTree({[f EXCEPT !.parent = IF @ \in gone THEN UnderAccount ELSE @] :
                      f \in {g \in folders : g.identity \notin gone}})
<1> DEFINE Moved(f) == [f EXCEPT !.parent = IF @ \in gone THEN UnderAccount ELSE @]
           left == {g \in folders : g.identity \notin gone}
           moved == {Moved(f) : f \in left}
<1>1. \A f \in folders :
         /\ Moved(f).identity = f.identity
         /\ Moved(f).parent = IF f.parent \in gone THEN UnderAccount ELSE f.parent
    OBVIOUS
<1> HIDE DEF Moved
<1> SUFFICES ASSUME NEW cut \in SUBSET moved, cut # {}
             PROVE  \E f \in cut : \/ f.parent = UnderAccount
                                   \/ \E p \in moved \ cut : p.identity = f.parent
    BY DEF IsTree, Moved
<1> DEFINE before == {f \in left : Moved(f) \in cut}
<1>2. before # {} /\ before \in SUBSET folders
    OBVIOUS
<1>3. PICK f \in before : \/ f.parent = UnderAccount
                          \/ \E p \in folders \ before : p.identity = f.parent
    BY <1>2 DEF IsTree
<1>4. Moved(f) \in cut
    BY <1>3
<1>5. CASE f.parent = UnderAccount \/ f.parent \in gone
  <2>1. Moved(f).parent = UnderAccount
      BY <1>1, <1>3, <1>5
  <2> QED BY <1>4, <2>1
<1>6. CASE ~(f.parent = UnderAccount \/ f.parent \in gone)
  <2>1. PICK p \in folders \ before : p.identity = f.parent
      BY <1>3, <1>6
  <2>2. Moved(p) \in moved \ cut
      BY <1>6, <2>1
  <2>3. Moved(p).identity = Moved(f).parent
      BY <1>1, <1>3, <1>6, <2>1
  <2> QED BY <1>4, <2>2, <2>3
<1> QED BY <1>5, <1>6

\* Gmail's containers go without taking the folders in them along.
LEMMA GmailFoldersAreTree ==
    ASSUME NEW list, IsListing(list)
    PROVE  IsTree(Lists!GmailFolders(list))
<1> DEFINE folders == Lists!ImapFolders(list)
           gone == {c.identity : c \in Lists!Containers(folders)}
<1>1. IsTree(folders)
    BY ImapFoldersAreTree
<1>2. \A f \in folders : "parent" \in DOMAIN f
    BY DEF Lists!ImapFolders
<1> HIDE DEF folders
<1>3. IsTree({[f EXCEPT !.parent = IF @ \in gone THEN UnderAccount ELSE @] :
                 f \in {g \in folders : g.identity \notin gone}})
  <2> HIDE DEF gone
  <2> QED BY <1>1, <1>2, TreeWithoutFolders
<1> QED BY <1>3 DEF Lists!GmailFolders, folders

\* Graph's folders are in no cycle: of some of them, one has a parent that is
\* none of them.
IsGraphListing(list) ==
    \A cut \in SUBSET list :
        cut # {} => \E folder \in cut : folder.parent_id \notin {f.id : f \in cut}

\* A Graph listing makes a tree, the folders of a parent left out under the
\* account.
LEMMA GraphFoldersAreTree ==
    ASSUME NEW list, IsGraphListing(list)
    PROVE  IsTree(Lists!GraphFolders(list))
<1> DEFINE Made(folder) ==
               [identity   |-> folder.id,
                parent     |-> IF folder.parent_id \in {f.id : f \in list} THEN folder.parent_id
                               ELSE UnderAccount,
                role       |-> folder.well_known,
                selectable |-> TRUE]
           folders == {Made(folder) : folder \in list}
<1>1. Lists!GraphFolders(list) = folders
    BY DEF Lists!GraphFolders
<1> SUFFICES ASSUME NEW cut \in SUBSET folders, cut # {}
             PROVE  \E f \in cut : \/ f.parent = UnderAccount
                                   \/ \E p \in folders \ cut : p.identity = f.parent
    BY <1>1 DEF IsTree
<1> DEFINE before == {f \in list : Made(f) \in cut}
<1>2. before # {} /\ before \in SUBSET list
    OBVIOUS
<1>3. PICK f \in before : f.parent_id \notin {g.id : g \in before}
    BY <1>2 DEF IsGraphListing
<1>4. Made(f) \in cut
    BY <1>3
<1>5. CASE f.parent_id \notin {g.id : g \in list}
  <2>1. Made(f).parent = UnderAccount
      BY <1>5
  <2> QED BY <1>4, <2>1
<1>6. CASE f.parent_id \in {g.id : g \in list}
  <2>1. PICK p \in list : p.id = f.parent_id
      BY <1>6
  <2>2. Made(p) \in folders \ cut
      BY <1>3, <2>1
  <2>3. Made(p).identity = Made(f).parent
      BY <1>6, <2>1
  <2> QED BY <1>4, <2>2, <2>3
<1> QED BY <1>5, <1>6

\* The folder lists the providers' code makes of a server's listing.
IsMade(folders) ==
    \/ \E list : IsListing(list) /\ folders = Lists!ImapFolders(list)
    \/ \E list : IsListing(list) /\ folders = Lists!GmailFolders(list)
    \/ \E list : IsGraphListing(list) /\ folders = Lists!GraphFolders(list)

\* Every folder of an account has a row once all rows are expanded: no parent
\* that is left out of a listing, by the server or with Gmail's containers,
\* takes the folders under it along.  The folder lists are those the providers'
\* code makes of a listing, of mailboxes whose names have a part at least and of
\* Graph folders in no cycle.
THEOREM SidebarShowsEveryFolder ==
    ASSUME \A folders \in FolderLists : IsMade(folders)
    PROVE  SidebarSpec => []EveryFolderHasARow
<1>1. \A folders \in FolderLists : IsTree(folders)
    BY ImapFoldersAreTree, GmailFoldersAreTree, GraphFoldersAreTree DEF IsMade
<1>2. IsTree({})
    BY DEF IsTree
<1>3. SidebarIInv => EveryFolderHasARow
  <2> SUFFICES ASSUME SidebarIInv, NEW a \in DOMAIN nodes
               PROVE  nodes[a].listed \subseteq ShownFolders(nodes[a].listed, {})
      BY DEF EveryFolderHasARow
  <2>1. IsTree(nodes[a].listed)
      BY <1>1, <1>2 DEF SidebarIInv, AccountNodes
  <2> QED BY <2>1, TreeIsShown
<1> QED BY SidebarInvariant, <1>3, PTL

-----------------------------------------------------------------------------
(* The message list: the rows it shows.                                     *)

\* One step of the recursion: the rows shown of the first n, given those of
\* fewer.
FirstShown(u, f, n) ==
    IF n = 0 THEN <<>>
    ELSE IF Shows(u, u.listed.rows[n]) THEN Append(f[n - 1], u.listed.rows[n])
    ELSE f[n - 1]

\* The rows shown of the first n exist whatever n is.
LEMMA FirstShownExists ==
    ASSUME NEW u
    PROVE  \A n \in Nat : \E f : f = [m \in 0..n |-> FirstShown(u, f, m)]
<1> DEFINE Some(n) == \E f : f = [m \in 0..n |-> FirstShown(u, f, m)]
           T == {n \in Nat : ~Some(n)}
<1> HIDE DEF Some
<1> SUFFICES ASSUME T # {} PROVE FALSE
    BY DEF Some
<1>1. PICK n \in T : \A m \in T : n <= m
  <2> HIDE DEF T
  <2>1. T \subseteq Nat
      BY DEF T
  <2> QED BY <2>1, Least
<1>2. n # 0
  <2> DEFINE f == [m \in 0..0 |-> <<>>]
  <2>1. \A m \in 0..0 : FirstShown(u, f, m) = <<>>
      BY DEF FirstShown
  <2>2. f = [m \in 0..0 |-> FirstShown(u, f, m)]
      BY <2>1
  <2>3. Some(0)
      BY <2>2 DEF Some
  <2> QED BY <1>1, <2>3
<1>3. n - 1 \in Nat /\ Some(n - 1)
    BY <1>1, <1>2
<1>4. PICK f : f = [m \in 0..n - 1 |-> FirstShown(u, f, m)]
    BY <1>3 DEF Some
<1> DEFINE g == [m \in 0..n |-> FirstShown(u, f, m)]
<1>5. ASSUME NEW m \in 0..n PROVE FirstShown(u, g, m) = FirstShown(u, f, m)
  <2>1. CASE m = 0
      BY <2>1 DEF FirstShown
  <2>2. CASE m # 0
    <3>1. m - 1 \in 0..n - 1 /\ m - 1 \in 0..n
        BY <1>1, <1>3, <2>2
    <3>2. g[m - 1] = FirstShown(u, f, m - 1)
        BY <3>1
    <3>3. f[m - 1] = FirstShown(u, f, m - 1)
        BY <1>4, <3>1
    <3> HIDE DEF g
    <3> QED BY <3>2, <3>3 DEF FirstShown
  <2> QED BY <2>1, <2>2
<1>6. g = [m \in 0..n |-> FirstShown(u, g, m)]
    BY <1>5
<1>7. Some(n)
    BY <1>6 DEF Some
<1> QED BY <1>1, <1>7

\* The rows shown, as the recursion says.
LEMMA ShownRowsDefined ==
    ASSUME NEW u, Len(u.listed.rows) \in Nat
    PROVE  \E f : /\ ShownRows(u) = f[Len(u.listed.rows)]
                  /\ \A n \in 0..Len(u.listed.rows) : f[n] = FirstShown(u, f, n)
<1> DEFINE N == Len(u.listed.rows)
           g == CHOOSE f : f = [n \in 0..N |-> FirstShown(u, f, n)]
<1>1. \E f : f = [n \in 0..N |-> FirstShown(u, f, n)]
    BY FirstShownExists
<1>2. g = [n \in 0..N |-> FirstShown(u, g, n)]
    BY <1>1
<1>3. ShownRows(u) = g[N]
    BY Zenon DEF ShownRows, FirstShown
<1> HIDE DEF g
<1> QED BY <1>2, <1>3

\* The rows shown are those of the latest rows the list shows.
LEMMA ShownRowsAre ==
    ASSUME NEW u, NEW S, u.listed.rows \in Seq(S)
    PROVE  /\ ShownRows(u) \in Seq(S)
           /\ Range(ShownRows(u)) = {row \in Range(u.listed.rows) : Shows(u, row)}
<1> DEFINE latest == u.listed.rows
           N == Len(latest)
<1>1. N \in Nat /\ DOMAIN latest = 1..N /\ \A n \in 1..N : latest[n] \in S
    BY LenProperties, ElementOfSeq
<1>2. PICK f : /\ ShownRows(u) = f[N]
               /\ \A n \in 0..N : f[n] = FirstShown(u, f, n)
    BY <1>1, ShownRowsDefined
<1> DEFINE Right(n) == /\ f[n] \in Seq(S)
                       /\ Range(f[n]) = {row \in {latest[m] : m \in 1..n} : Shows(u, row)}
           T == {n \in 0..N : ~Right(n)}
<1>3. T = {}
  <2> HIDE DEF Right
  <2> SUFFICES ASSUME T # {} PROVE FALSE
      OBVIOUS
  <2>1. PICK n \in T : \A m \in T : n <= m
    <3> HIDE DEF T
    <3>1. T \subseteq Nat
        BY <1>1 DEF T
    <3> QED BY <3>1, Least
  <2>2. CASE n = 0
    <3>1. f[0] = <<>>
        BY <1>1, <1>2 DEF FirstShown
    <3>2. Right(0)
        BY <3>1, EmptySeq DEF Right, Range
    <3> QED BY <2>1, <2>2, <3>2
  <2>3. CASE n # 0
    <3>1. n - 1 \in 0..N /\ n \in 1..N /\ Right(n - 1)
        BY <1>1, <2>1, <2>3
    <3>2. f[n] = IF Shows(u, latest[n]) THEN Append(f[n - 1], latest[n]) ELSE f[n - 1]
        BY <1>1, <1>2, <2>3, <3>1 DEF FirstShown
    <3>3. f[n - 1] \in Seq(S) /\ latest[n] \in S
        BY <1>1, <3>1 DEF Right
    <3>4. {latest[m] : m \in 1..n} = {latest[m] : m \in 1..n - 1} \union {latest[n]}
        BY <1>1, <3>1
    <3>5. Range(Append(f[n - 1], latest[n])) = Range(f[n - 1]) \union {latest[n]}
      <4> DEFINE s == f[n - 1]
                 t == Append(s, latest[n])
      <4>1. /\ Len(s) \in Nat /\ DOMAIN s = 1..Len(s)
            /\ t \in Seq(S) /\ Len(t) = Len(s) + 1
            /\ \A i \in 1..Len(s) : t[i] = s[i]
            /\ t[Len(s) + 1] = latest[n]
          BY <3>3, AppendProperties, LenProperties
      <4>2. DOMAIN t = 1..Len(s) + 1
          BY <4>1, LenProperties
      <4> HIDE DEF s, t
      <4>3. Range(t) = Range(s) \union {latest[n]}
          BY <4>1, <4>2 DEF Range
      <4> QED BY <4>3 DEF s, t
    <3>6. Right(n)
      <4>1. CASE Shows(u, latest[n])
        <5>1. f[n] = Append(f[n - 1], latest[n])
            BY <3>2, <4>1
        <5>2. f[n] \in Seq(S)
            BY <3>3, <5>1, AppendProperties
        <5> QED BY <3>1, <3>4, <3>5, <4>1, <5>1, <5>2 DEF Right
      <4>2. CASE ~Shows(u, latest[n])
        <5>1. f[n] = f[n - 1]
            BY <3>2, <4>2
        <5> QED BY <3>1, <3>3, <3>4, <4>2, <5>1 DEF Right
      <4> QED BY <4>1, <4>2
    <3> QED BY <2>1, <3>6
  <2> QED BY <2>2, <2>3
<1>4. Right(N)
  <2> HIDE DEF Right
  <2> QED BY <1>1, <1>3
<1>5. {latest[m] : m \in 1..N} = Range(latest)
    BY <1>1 DEF Range
<1> QED BY <1>2, <1>4, <1>5

\* Lists that show the same of equal rows are equal.
LEMMA ShownRowsEqual ==
    ASSUME NEW u, NEW v, NEW S, u.listed.rows \in Seq(S), v.listed.rows = u.listed.rows,
           \A row \in Range(u.listed.rows) : Shows(u, row) <=> Shows(v, row)
    PROVE  ShownRows(u) = ShownRows(v)
<1> DEFINE latest == u.listed.rows
           N == Len(latest)
<1>1. N \in Nat /\ DOMAIN latest = 1..N
    BY LenProperties
<1>2. PICK f : /\ ShownRows(u) = f[N]
               /\ \A n \in 0..N : f[n] = FirstShown(u, f, n)
    BY <1>1, ShownRowsDefined
<1>3. PICK g : /\ ShownRows(v) = g[N]
               /\ \A n \in 0..N : g[n] = FirstShown(v, g, n)
    BY <1>1, ShownRowsDefined
<1> DEFINE T == {n \in 0..N : f[n] # g[n]}
<1>4. T = {}
  <2> SUFFICES ASSUME T # {} PROVE FALSE
      OBVIOUS
  <2>1. PICK n \in T : \A m \in T : n <= m
    <3> HIDE DEF T
    <3>1. T \subseteq Nat
        BY <1>1 DEF T
    <3> QED BY <3>1, Least
  <2>2. CASE n = 0
      BY <1>1, <1>2, <1>3, <2>1, <2>2 DEF FirstShown
  <2>3. CASE n # 0
    <3>1. n - 1 \in 0..N /\ n \in 1..N /\ f[n - 1] = g[n - 1]
        BY <1>1, <2>1, <2>3
    <3>2. latest[n] \in Range(latest)
        BY <1>1, <3>1 DEF Range
    <3>3. Shows(u, latest[n]) <=> Shows(v, latest[n])
        BY <3>2
    <3>4. f[n] = FirstShown(u, f, n) /\ g[n] = FirstShown(v, g, n)
        BY <1>2, <1>3, <2>1
    <3>5. f[n] = g[n]
        BY <2>3, <3>1, <3>3, <3>4 DEF FirstShown
    <3> QED BY <2>1, <3>5
  <2> QED BY <2>2, <2>3
<1>5. f[N] = g[N]
    BY <1>1, <1>4
<1> QED BY <1>2, <1>3, <1>5

-----------------------------------------------------------------------------
(* The invariant of the message list and the reader.                        *)

\* The accounts of the folders.
Accts == {f.account : f \in Folder}

\* A row object.
ItemSet ==
    [row : StoredRows, account : Accts, unread : BOOLEAN, starred : BOOLEAN,
     shown : BOOLEAN, opens_in : SUBSET {1, 2}]

\* The fields of MailUi.
UiSet ==
    [listed         : {Nothing} \union RowReads,
     items          : Seq(ItemSet),
     unread_only    : BOOLEAN,
     removed        : SUBSET Identity,
     pending_change : BOOLEAN,
     open           : {Nothing} \union Identity,
     read_timers    : SUBSET Messages,
     body           : {Nothing} \union Messages,
     requests       : SUBSET Messages,
     opened         : {Nothing} \union Messages,
     unmarked       : BOOLEAN,
     gone           : {Nothing} \union Identity]

\* Items and rows agree, position by position.
ShowsRow(item, row) ==
    /\ ListsSameMessage(item, row)
    /\ item.unread = ~row.seen /\ item.starred = row.flagged
    /\ item.shown \/ item.opens_in # {}

ItemsShow(items, latest) ==
    Len(items) = Len(latest) /\ \A p \in DOMAIN latest : ShowsRow(items[p], latest[p])

\* The list is of the account of the folder listed, and without one empty.
ListIsOf(u) ==
    /\ u.listed = Nothing => u.items = <<>> /\ u.open = Nothing
    /\ \A p \in DOMAIN u.items : u.items[p].account = Account(u)

\* What the reader shows is of the message it opened.
ReaderIsOf(u) ==
    /\ u.open # Nothing =>
          /\ u.listed # Nothing
          /\ OpenMessageOf(u) = u.opened
          /\ u.body \in {Nothing, u.opened}
    /\ u.read_timers \subseteq {m \in {u.opened} : OpenMessageOf(u) = m /\ ~u.unmarked}

\* The state the list is updated from.
Base(u) == u \in UiSet /\ ListIsOf(u) /\ ReaderIsOf(u)

OpenIsListed(u) == u.open # Nothing => PositionOf(u.items, u.open) # {}

\* Under the filter, the message an answer closed the reader for was the last
\* one open.
GoneWasLast(u) == u.unread_only /\ u.gone # Nothing => u.open = Nothing

\* The rows the list shows, with a message an answer closed still open.
Expected(u) == ShownRows(IF u.gone = Nothing THEN u ELSE [u EXCEPT !.open = u.gone])

Follows(u) ==
    u.listed # Nothing /\ ~u.pending_change => ItemsShow(u.items, Expected(u))

UiInv(u) == Base(u) /\ OpenIsListed(u) /\ GoneWasLast(u) /\ Follows(u)

-----------------------------------------------------------------------------

\* A stored row is of an identity, read or not and starred or not.
LEMMA RowsAreOfIdentities ==
    \A row \in StoredRows :
        row.identity \in Identity /\ row.seen \in BOOLEAN /\ row.flagged \in BOOLEAN
<1> SUFFICES ASSUME NEW row \in StoredRows
             PROVE  row.identity \in Identity /\ row.seen \in BOOLEAN /\ row.flagged \in BOOLEAN
    OBVIOUS
<1>1. PICK f \in Folder : row \in UNION Range(RowChoices[f])
    BY DEF StoredRows
<1>2. PICK id \in DOMAIN RowChoices[f] : row \in RowChoices[f][id]
    BY <1>1 DEF Range
<1> QED BY <1>1, <1>2, MailUiAssumption DEF Identity

\* The shown rows of a state are stored rows.
LEMMA ShownRowsTyped ==
    ASSUME NEW u, u.listed \in RowReads
    PROVE  /\ u.listed.rows \in Seq(StoredRows)
           /\ ShownRows(u) \in Seq(StoredRows)
           /\ Range(ShownRows(u)) = {row \in Range(u.listed.rows) : Shows(u, row)}
<1>1. u.listed.rows \in Seq(StoredRows)
    BY DEF RowReads
<1> QED BY <1>1, ShownRowsAre

\* The row object of a row shows that row.
LEMMA ItemForRow ==
    ASSUME NEW u \in UiSet, ListIsOf(u), u.listed # Nothing, NEW row \in StoredRows, NEW change
    PROVE  LET item == ItemFor(u, row, change) IN
           /\ item \in ItemSet
           /\ item.account = Account(u)
           /\ ListsSameMessage(item, row)
           /\ item.unread = ~row.seen /\ item.starred = row.flagged
<1> DEFINE same == {p \in DOMAIN u.items : ListsSameMessage(u.items[p], row)}
           item == ItemFor(u, row, change)
<1>1. row.seen \in BOOLEAN /\ row.flagged \in BOOLEAN
    BY RowsAreOfIdentities
<1>2. Account(u) \in Accts
    BY DEF UiSet, RowReads, Account, Accts
<1>3. CASE same = {}
  <2>1. item = Item(Account(u), row, change = "AtOnce")
      BY <1>3 DEF ItemFor
  <2>2. item = [row |-> row, account |-> Account(u), unread |-> ~row.seen, starred |-> row.flagged,
                shown |-> change = "AtOnce", opens_in |-> {}]
      BY <2>1 DEF Item
  <2>3. (change = "AtOnce") \in BOOLEAN
      OBVIOUS
  <2>4. item \in ItemSet
      BY <1>1, <1>2, <2>2, <2>3 DEF ItemSet
  <2> HIDE DEF item
  <2>5. /\ item.row = row /\ item.account = Account(u)
        /\ item.unread = ~row.seen /\ item.starred = row.flagged
      BY <2>2
  <2> QED BY <2>4, <2>5 DEF ListsSameMessage, item
<1>4. CASE same # {}
  <2> DEFINE p == CHOOSE q \in same : TRUE
  <2>1. p \in same
      BY <1>4
  <2> HIDE DEF p
  <2>2. p \in DOMAIN u.items /\ ListsSameMessage(u.items[p], row)
      BY <2>1
  <2>3. u.items[p] \in ItemSet /\ u.items[p].account = Account(u)
      BY <2>2, LenProperties, ElementOfSeq DEF UiSet, ListIsOf
  <2>4. item = [u.items[p] EXCEPT !.unread = ~row.seen, !.starred = row.flagged]
      BY <1>4 DEF ItemFor, p
  <2> DEFINE old == u.items[p]
  <2> HIDE DEF old, item
  <2>5. old \in ItemSet /\ item = [old EXCEPT !.unread = ~row.seen, !.starred = row.flagged]
      BY <2>3, <2>4 DEF old
  <2>6. item \in ItemSet /\ item.row = old.row /\ item.account = old.account
        /\ item.unread = ~row.seen /\ item.starred = row.flagged
      BY <1>1, <2>5 DEF ItemSet
  <2>7. old.account = Account(u) /\ ListsSameMessage(old, row)
      BY <2>2, <2>3 DEF old
  <2> QED BY <2>6, <2>7 DEF ListsSameMessage, item
<1> QED BY <1>3, <1>4

\* Opening a row object changes nothing else of it.
LEMMA OpenedItem ==
    ASSUME NEW item \in ItemSet, NEW change
    PROVE  LET new == Opened(item, change) IN
           /\ new \in ItemSet
           /\ new.row = item.row /\ new.account = item.account
           /\ new.unread = item.unread /\ new.starred = item.starred
           /\ new.shown \/ new.opens_in # {}
BY DEF Opened, ItemSet

\* The changed list shows its rows.
LEMMA ChangeListShows ==
    ASSUME NEW u \in UiSet, ListIsOf(u), u.listed # Nothing,
           NEW latest \in Seq(StoredRows), NEW change
    PROVE  \E items \in Seq(ItemSet) :
              /\ ChangeList(u, latest, change) = [u EXCEPT !.items = items]
              /\ \A p \in DOMAIN items : items[p].account = Account(u)
              /\ ItemsShow(items, latest)
<1> DEFINE item(p) == Opened(ItemFor(u, latest[p], change), change)
           items == [p \in DOMAIN latest |-> item(p)]
<1>1. /\ Len(latest) \in Nat /\ DOMAIN latest = 1..Len(latest)
      /\ \A p \in 1..Len(latest) : latest[p] \in StoredRows
    BY LenProperties, ElementOfSeq
<1>2. ASSUME NEW p \in DOMAIN latest
      PROVE  item(p) \in ItemSet /\ item(p).account = Account(u) /\ ShowsRow(item(p), latest[p])
  <2> DEFINE for == ItemFor(u, latest[p], change)
  <2>1. latest[p] \in StoredRows
      BY <1>1
  <2>2. /\ for \in ItemSet
        /\ for.account = Account(u)
        /\ ListsSameMessage(for, latest[p])
        /\ for.unread = ~latest[p].seen /\ for.starred = latest[p].flagged
      BY <2>1, ItemForRow
  <2> HIDE DEF for
  <2> DEFINE new == Opened(for, change)
  <2>3. /\ new \in ItemSet
        /\ new.row = for.row /\ new.account = for.account
        /\ new.unread = for.unread /\ new.starred = for.starred
        /\ new.shown \/ new.opens_in # {}
      BY <2>2, OpenedItem
  <2> HIDE DEF new
  <2>4. new \in ItemSet /\ new.account = Account(u) /\ ShowsRow(new, latest[p])
      BY <2>2, <2>3 DEF ShowsRow, ListsSameMessage
  <2> QED BY <2>4 DEF new, for
<1> HIDE DEF item
<1>3. items \in Seq(ItemSet) /\ Len(items) = Len(latest) /\ DOMAIN items = DOMAIN latest
    BY <1>1, <1>2
<1>4. ChangeList(u, latest, change) = [u EXCEPT !.items = items]
    BY DEF ChangeList, item
<1>5. \A p \in DOMAIN items : items[p].account = Account(u)
    BY <1>2
<1>6. ItemsShow(items, latest)
    BY <1>2, <1>3 DEF ItemsShow
<1> HIDE DEF items
<1> QED BY <1>3, <1>4, <1>5, <1>6

\* Closing the rows that leave changes no row object but in that.
LEMMA CloseLeavingRowsKeepsItems ==
    ASSUME NEW items \in Seq(ItemSet), NEW latest
    PROVE  LET closed == CloseLeavingRows(items, latest) IN
           /\ closed \in Seq(ItemSet)
           /\ Len(closed) = Len(items) /\ DOMAIN closed = DOMAIN items
           /\ \A p \in DOMAIN items :
                 closed[p].row = items[p].row /\ closed[p].account = items[p].account
<1> DEFINE new(p) == [items[p] EXCEPT !.shown = @ /\ p \notin Leaving(items, latest)]
           closed == CloseLeavingRows(items, latest)
<1>1. /\ Len(items) \in Nat /\ DOMAIN items = 1..Len(items)
      /\ \A p \in 1..Len(items) : items[p] \in ItemSet
    BY LenProperties, ElementOfSeq
<1>2. closed = [p \in DOMAIN items |-> new(p)]
    BY DEF CloseLeavingRows
<1>3. ASSUME NEW p \in DOMAIN items
      PROVE  new(p) \in ItemSet /\ new(p).row = items[p].row /\ new(p).account = items[p].account
  <2> DEFINE old == items[p]
             open == old.shown /\ p \notin Leaving(items, latest)
  <2>1. old \in ItemSet
      BY <1>1
  <2>2. open \in BOOLEAN
      OBVIOUS
  <2>3. new(p) = [old EXCEPT !.shown = open]
      OBVIOUS
  <2> HIDE DEF old, open, new
  <2>4. new(p) \in ItemSet /\ new(p).row = old.row /\ new(p).account = old.account
      BY <2>1, <2>2, <2>3 DEF ItemSet
  <2> QED BY <2>4 DEF old
<1> HIDE DEF new, closed
<1>4. closed \in Seq(ItemSet) /\ Len(closed) = Len(items) /\ DOMAIN closed = DOMAIN items
    BY <1>1, <1>2, <1>3
<1> QED BY <1>2, <1>3, <1>4 DEF closed

\* A changed list is of the account still; without a change pending it shows
\* the rows.
LEMMA ChangedShows ==
    ASSUME NEW u \in UiSet, ListIsOf(u), u.listed # Nothing,
           NEW latest \in Seq(StoredRows), NEW change
    PROVE  \E items \in Seq(ItemSet), pending \in BOOLEAN :
              /\ Changed(u, latest, change) = [u EXCEPT !.items = items, !.pending_change = pending]
              /\ \A p \in DOMAIN items : items[p].account = Account(u)
              /\ ~pending => ItemsShow(items, latest)
<1>1. CASE change = "AtOnce"
  <2> DEFINE v == [u EXCEPT !.pending_change = FALSE]
  <2>1. v \in UiSet /\ v.listed = u.listed /\ v.items = u.items /\ v.open = u.open
      BY DEF UiSet
  <2>2. Account(v) = Account(u)
      BY <2>1 DEF Account
  <2>3. Changed(u, latest, change) = ChangeList(v, latest, change)
      BY <1>1 DEF Changed
  <2> HIDE DEF v
  <2>4. ListIsOf(v)
      BY <2>1, <2>2 DEF ListIsOf
  <2>5. PICK items \in Seq(ItemSet) :
              /\ ChangeList(v, latest, change) = [v EXCEPT !.items = items]
              /\ \A p \in DOMAIN items : items[p].account = Account(v)
              /\ ItemsShow(items, latest)
      BY <2>1, <2>4, ChangeListShows
  <2>6. [v EXCEPT !.items = items] = [u EXCEPT !.items = items, !.pending_change = FALSE]
      BY DEF v, UiSet
  <2> QED BY <2>2, <2>3, <2>5, <2>6
<1>2. CASE change # "AtOnce"
  <2> DEFINE items == CloseLeavingRows(u.items, latest)
             pending == u.pending_change \/ Leaving(u.items, latest) # {}
             v == [u EXCEPT !.items = items, !.pending_change = pending]
  <2>1. u.items \in Seq(ItemSet) /\ u.pending_change \in BOOLEAN
      BY DEF UiSet
  <2>2. /\ items \in Seq(ItemSet)
        /\ Len(items) = Len(u.items) /\ DOMAIN items = DOMAIN u.items
        /\ \A p \in DOMAIN u.items :
              items[p].row = u.items[p].row /\ items[p].account = u.items[p].account
      BY <2>1, CloseLeavingRowsKeepsItems
  <2>3. pending \in BOOLEAN
      OBVIOUS
  <2>4. Changed(u, latest, change) = IF v.pending_change THEN v ELSE ChangeList(v, latest, change)
      BY <1>2 DEF Changed
  <2> HIDE DEF items, pending
  <2>5. /\ v \in UiSet /\ v.listed = u.listed /\ v.items = items
        /\ v.open = u.open /\ v.pending_change = pending
      BY <2>2, <2>3 DEF UiSet
  <2>6. \A p \in DOMAIN items : items[p].account = Account(u)
      BY <2>2 DEF ListIsOf
  <2>7. Account(v) = Account(u)
      BY <2>5 DEF Account
  <2>8. CASE pending
      BY <2>2, <2>3, <2>4, <2>5, <2>6, <2>8
  <2>9. CASE ~pending
    <3> HIDE DEF v
    <3>1. ListIsOf(v)
        BY <2>5, <2>6, <2>7 DEF ListIsOf
    <3>2. PICK shown \in Seq(ItemSet) :
              /\ ChangeList(v, latest, change) = [v EXCEPT !.items = shown]
              /\ \A p \in DOMAIN shown : shown[p].account = Account(v)
              /\ ItemsShow(shown, latest)
        BY <2>5, <3>1, ChangeListShows
    <3>3. [v EXCEPT !.items = shown] = [u EXCEPT !.items = shown, !.pending_change = pending]
        BY DEF v, UiSet
    <3> QED BY <2>3, <2>4, <2>5, <2>7, <2>9, <3>2, <3>3
  <2> QED BY <2>8, <2>9
<1> QED BY <1>1, <1>2

\* The rows shown depend on no other field.
LEMMA ShowsSame ==
    ASSUME NEW u, NEW v, NEW row, u.removed = v.removed, u.unread_only = v.unread_only,
           u.open = v.open \/ ~u.unread_only
    PROVE  Shows(u, row) <=> Shows(v, row)
BY DEF Shows

\* The shown rows change with the removals, the filter and, under the filter,
\* the open message only.
LEMMA SameShownRows ==
    ASSUME NEW u, NEW v, u.listed \in RowReads, v.listed = u.listed,
           u.removed = v.removed, u.unread_only = v.unread_only,
           u.open = v.open \/ ~u.unread_only
    PROVE  ShownRows(u) = ShownRows(v)
<1>1. \A row \in Range(u.listed.rows) : Shows(u, row) <=> Shows(v, row)
    BY ShowsSame
<1>2. u.listed.rows \in Seq(StoredRows)
    BY ShownRowsTyped
<1> QED BY <1>1, <1>2, ShownRowsEqual

\* Nothing closed by an answer: the rows expected are those shown.
LEMMA ExpectedOfNone ==
    ASSUME NEW u, u.gone = Nothing
    PROVE  Expected(u) = ShownRows(u)
BY DEF Expected

\* Closing the reader leaves the list alone.
LEMMA CloseReaderFields ==
    ASSUME NEW u \in UiSet
    PROVE  LET v == CloseReader(u) IN
           /\ v \in UiSet
           /\ v.listed = u.listed /\ v.items = u.items /\ v.unread_only = u.unread_only
           /\ v.removed = u.removed /\ v.pending_change = u.pending_change
           /\ v.gone = u.gone /\ v.requests = u.requests
           /\ v.open = Nothing /\ v.read_timers = {}
BY DEF CloseReader, DropPendingRead, UiSet

\* A closed reader shows nothing wrong.
LEMMA CloseReaderBase ==
    ASSUME NEW u \in UiSet, ListIsOf(u)
    PROVE  Base(CloseReader(u)) /\ OpenIsListed(CloseReader(u)) /\ GoneWasLast(CloseReader(u))
<1> DEFINE v == CloseReader(u)
<1>1. /\ v \in UiSet
      /\ v.listed = u.listed /\ v.items = u.items
      /\ v.open = Nothing /\ v.read_timers = {}
    BY CloseReaderFields
<1> HIDE DEF v
<1>2. Account(v) = Account(u)
    BY <1>1 DEF Account
<1>3. ListIsOf(v)
    BY <1>1, <1>2 DEF ListIsOf
<1>4. ReaderIsOf(v)
    BY <1>1 DEF ReaderIsOf
<1>5. OpenIsListed(v) /\ GoneWasLast(v)
    BY <1>1 DEF OpenIsListed, GoneWasLast
<1> QED BY <1>1, <1>3, <1>4, <1>5 DEF Base, v

\* An update of the list leaves the whole invariant, whatever the list was.
LEMMA UpdateShownKeeps ==
    ASSUME NEW u, Base(u), NEW change, NEW animates
    PROVE  UiInv(UpdateShown(u, change, animates))
<1>1. CASE u.listed = Nothing
  <2>1. UpdateShown(u, change, animates) = u
      BY <1>1 DEF UpdateShown
  <2> QED BY <1>1, <2>1 DEF UiInv, Base, ListIsOf, OpenIsListed, GoneWasLast, Follows
<1>2. CASE u.listed # Nothing
  <2> DEFINE latest == ShownRows(u)
             how == IF animates THEN change ELSE "AtOnce"
             list == Changed(u, latest, how)
             changed == [list EXCEPT !.gone = Nothing]
             stays == \/ u.open = Nothing
                      \/ /\ \E row \in Range(latest) : row.identity = u.open
                         /\ PositionOf(changed.items, u.open) # {}
  <2>1. u \in UiSet /\ ListIsOf(u) /\ ReaderIsOf(u) /\ u.listed \in RowReads
      BY <1>2 DEF Base, UiSet
  <2>2. UpdateShown(u, change, animates) = IF stays THEN changed ELSE CloseReader(changed)
      BY <1>2 DEF UpdateShown
  <2>3. latest \in Seq(StoredRows) /\ Range(latest) = {row \in Range(u.listed.rows) : Shows(u, row)}
      BY <2>1, ShownRowsTyped
  <2> HIDE DEF how
  <2>4. PICK items \in Seq(ItemSet), pending \in BOOLEAN :
              /\ list = [u EXCEPT !.items = items, !.pending_change = pending]
              /\ \A p \in DOMAIN items : items[p].account = Account(u)
              /\ ~pending => ItemsShow(items, latest)
    <3> HIDE DEF latest
    <3> QED BY <1>2, <2>1, <2>3, ChangedShows
  <2> HIDE DEF list
  <2>5. changed = [u EXCEPT !.items = items, !.pending_change = pending, !.gone = Nothing]
    <3>1. changed = [[u EXCEPT !.items = items, !.pending_change = pending] EXCEPT !.gone = Nothing]
        BY <2>4
    <3> QED BY <2>1, <3>1 DEF UiSet
  <2> HIDE DEF changed
  <2>6. /\ changed \in UiSet
        /\ changed.listed = u.listed /\ changed.items = items
        /\ changed.unread_only = u.unread_only /\ changed.removed = u.removed
        /\ changed.pending_change = pending /\ changed.gone = Nothing
      BY <2>1, <2>5 DEF UiSet
  <2>7. /\ changed.open = u.open /\ changed.read_timers = u.read_timers /\ changed.body = u.body
        /\ changed.opened = u.opened /\ changed.unmarked = u.unmarked
      BY <2>1, <2>5 DEF UiSet
  <2>8. Account(changed) = Account(u)
      BY <2>6 DEF Account
  <2>9. ListIsOf(changed)
      BY <1>2, <2>4, <2>6, <2>8 DEF ListIsOf
  <2>10. OpenMessageOf(changed) = OpenMessageOf(u)
      BY <2>6, <2>7, <2>8 DEF OpenMessageOf
  <2>11. ReaderIsOf(changed)
      BY <2>1, <2>6, <2>7, <2>10 DEF ReaderIsOf
  <2>12. ShownRows(changed) = latest
      BY <2>1, <2>6, <2>7, SameShownRows
  <2>13. CASE stays
    <3>1. OpenIsListed(changed)
        BY <2>7, <2>13 DEF OpenIsListed
    <3>2. GoneWasLast(changed)
        BY <2>6 DEF GoneWasLast
    <3>3. Expected(changed) = latest
        BY <2>6, <2>12, ExpectedOfNone
    <3>4. Follows(changed)
        BY <2>4, <2>6, <3>3 DEF Follows
    <3> QED BY <2>2, <2>6, <2>9, <2>11, <2>13, <3>1, <3>2, <3>4 DEF UiInv, Base
  <2>14. CASE ~stays
    <3> DEFINE closed == CloseReader(changed)
    <3>1. /\ closed \in UiSet
          /\ closed.listed = u.listed /\ closed.items = items /\ closed.unread_only = u.unread_only
          /\ closed.removed = u.removed /\ closed.pending_change = pending
          /\ closed.gone = Nothing /\ closed.open = Nothing
        BY <2>6, CloseReaderFields
    <3>2. Base(closed) /\ OpenIsListed(closed) /\ GoneWasLast(closed)
        BY <2>6, <2>9, CloseReaderBase
    <3> HIDE DEF closed
    <3>3. ASSUME ~pending PROVE ItemsShow(items, Expected(closed))
      <4>1. ItemsShow(items, latest)
          BY <2>4, <3>3
      <4>2. ~\E row \in Range(latest) : row.identity = u.open
        <5> SUFFICES ASSUME NEW row \in Range(latest), row.identity = u.open PROVE FALSE
            OBVIOUS
        <5>1. Len(latest) \in Nat /\ DOMAIN latest = 1..Len(latest)
            BY <2>3, LenProperties
        <5>2. PICK p \in DOMAIN latest : latest[p] = row
            BY DEF Range
        <5>3. items[p].row.identity = u.open
            BY <4>1, <5>2 DEF ItemsShow, ShowsRow, ListsSameMessage
        <5>4. p \in DOMAIN items
            BY <4>1, <5>1, LenProperties DEF ItemsShow
        <5>5. PositionOf(changed.items, u.open) # {}
            BY <2>6, <5>3, <5>4 DEF PositionOf
        <5> QED BY <2>14, <5>5
      <4>3. \A row \in Range(u.listed.rows) : Shows(u, row) <=> Shows(closed, row)
        <5> TAKE row \in Range(u.listed.rows)
        <5>1. row.identity \in Identity
          <6>1. u.listed.rows \in Seq(StoredRows)
              BY <2>1, ShownRowsTyped
          <6>2. row \in StoredRows
              BY <6>1, LenProperties, ElementOfSeq DEF Range
          <6> QED BY <6>2, RowsAreOfIdentities
        <5>2. row.identity # Nothing
            BY <5>1, MailUiAssumption DEF Identity
        <5>3. Shows(u, row) => row.identity # u.open
            BY <2>3, <4>2
        <5> QED BY <3>1, <5>2, <5>3 DEF Shows
      <4>4. u.listed.rows \in Seq(StoredRows)
          BY <2>1, ShownRowsTyped
      <4>5. ShownRows(closed) = latest
          BY <3>1, <4>3, <4>4, ShownRowsEqual
      <4> QED BY <3>1, <4>1, <4>5, ExpectedOfNone
    <3>4. Follows(closed)
        BY <3>1, <3>3 DEF Follows
    <3> QED BY <2>2, <2>14, <3>2, <3>4 DEF UiInv, closed
  <2> QED BY <2>13, <2>14
<1> QED BY <1>1, <1>2

\* What the list expects depends on what it lists and, under the filter, on
\* what is open.
LEMMA ExpectedSame ==
    ASSUME NEW u \in UiSet, NEW v \in UiSet, u.listed # Nothing, v.listed = u.listed,
           v.removed = u.removed, v.unread_only = u.unread_only,
           ~u.unread_only \/ (v.open = u.open /\ v.gone = u.gone)
    PROVE  Expected(v) = Expected(u)
<1> DEFINE seen(w) == IF w.gone = Nothing THEN w ELSE [w EXCEPT !.open = w.gone]
<1>1. ASSUME NEW w \in UiSet
      PROVE  /\ seen(w).listed = w.listed /\ seen(w).removed = w.removed
             /\ seen(w).unread_only = w.unread_only
             /\ seen(w).open = IF w.gone = Nothing THEN w.open ELSE w.gone
    BY DEF UiSet
<1>2. u.listed \in RowReads
    BY DEF UiSet
<1>3. Expected(u) = ShownRows(seen(u)) /\ Expected(v) = ShownRows(seen(v))
    BY DEF Expected
<1> HIDE DEF seen
<1>4. seen(v).open = seen(u).open \/ ~u.unread_only
    BY <1>1
<1>5. ShownRows(seen(u)) = ShownRows(seen(v))
    BY <1>1, <1>2, <1>4, SameShownRows
<1> QED BY <1>3, <1>5

\* The invariant is not about the requests, and holds with fewer timers and a
\* content of the open message.
LEMMA OtherFieldsKeep ==
    ASSUME NEW u, UiInv(u), NEW v \in UiSet,
           v.listed = u.listed, v.items = u.items, v.unread_only = u.unread_only,
           v.removed = u.removed, v.pending_change = u.pending_change,
           v.open = u.open, v.opened = u.opened, v.gone = u.gone,
           v.read_timers \subseteq u.read_timers,
           v.unmarked = u.unmarked \/ v.read_timers = {},
           v.body = u.body \/ v.body = u.opened
    PROVE  UiInv(v)
<1>1. Account(v) = Account(u) /\ OpenMessageOf(v) = OpenMessageOf(u)
    BY DEF Account, OpenMessageOf
<1>2. ListIsOf(v)
    BY <1>1 DEF UiInv, Base, ListIsOf
<1>3. ReaderIsOf(v)
    BY <1>1 DEF UiInv, Base, ReaderIsOf
<1>4. OpenIsListed(v) /\ GoneWasLast(v)
    BY DEF UiInv, OpenIsListed, GoneWasLast
<1>5. Follows(v)
  <2> SUFFICES ASSUME v.listed # Nothing, ~v.pending_change
               PROVE  ItemsShow(v.items, Expected(v))
      BY DEF Follows
  <2>1. Expected(v) = Expected(u)
      BY ExpectedSame DEF UiInv, Base
  <2> QED BY <2>1 DEF UiInv, Follows
<1> QED BY <1>2, <1>3, <1>4, <1>5 DEF UiInv, Base

\* Messages.
LEMMA OpenMessageTyped ==
    ASSUME NEW u \in UiSet, OpenMessageOf(u) # Nothing
    PROVE  /\ u.open \in Identity /\ u.listed \in RowReads
           /\ OpenMessageOf(u) \in Messages /\ OpenMessageOf(u).identity = u.open
<1>1. u.open # Nothing /\ u.listed # Nothing
    BY DEF OpenMessageOf
<1>2. u.open \in Identity /\ u.listed \in RowReads
    BY <1>1 DEF UiSet
<1>3. Account(u) \in Accts
    BY <1>2 DEF RowReads, Account, Accts
<1>4. OpenMessageOf(u) = [account |-> Account(u), identity |-> u.open]
    BY <1>1 DEF OpenMessageOf, Message
<1> QED BY <1>2, <1>3, <1>4 DEF Messages, Accts

\* A cleared list leaves nothing open and no timer running.
LEMMA ClearKeeps ==
    ASSUME NEW u, Base(u)
    PROVE  /\ Base(Clear(u)) /\ UiInv(Clear(u))
           /\ Clear(u).listed = Nothing /\ Clear(u).items = <<>>
           /\ Clear(u).open = Nothing /\ Clear(u).read_timers = {}
<1>1. CASE u.listed = Nothing
  <2>1. Clear(u) = u
      BY <1>1 DEF Clear
  <2>2. u.open = Nothing /\ u.items = <<>>
      BY <1>1 DEF Base, ListIsOf
  <2>3. u.read_timers = {}
    <3> SUFFICES ASSUME NEW m \in u.read_timers PROVE FALSE
        OBVIOUS
    <3>1. OpenMessageOf(u) = Nothing
        BY <2>2 DEF OpenMessageOf
    <3>2. m = Nothing
        BY <3>1 DEF Base, ReaderIsOf
    <3>3. m \in Messages
        BY DEF Base, UiSet
    <3> QED BY <3>2, <3>3, NothingAssumption
  <2> QED BY <1>1, <2>1, <2>2, <2>3 DEF UiInv, OpenIsListed, GoneWasLast, Follows
<1>2. CASE u.listed # Nothing
  <2> DEFINE w == [u EXCEPT !.items = <<>>, !.listed = Nothing]
             v == CloseReader(w)
  <2>1. Clear(u) = v
      BY <1>2 DEF Clear
  <2>2. w \in UiSet /\ w.items = <<>> /\ w.listed = Nothing
    <3>1. <<>> \in Seq(ItemSet) /\ Nothing \in {Nothing} \union RowReads
        BY EmptySeq
    <3> QED BY <3>1 DEF Base, UiSet
  <2> HIDE DEF w
  <2>3. /\ v \in UiSet
        /\ v.listed = Nothing /\ v.items = <<>> /\ v.open = Nothing /\ v.read_timers = {}
      BY <2>2, CloseReaderFields
  <2> HIDE DEF v
  <2>4. ListIsOf(v) /\ ReaderIsOf(v)
      BY <2>3 DEF ListIsOf, ReaderIsOf
  <2>5. OpenIsListed(v) /\ GoneWasLast(v) /\ Follows(v)
      BY <2>3 DEF OpenIsListed, GoneWasLast, Follows
  <2> QED BY <2>1, <2>3, <2>4, <2>5 DEF UiInv, Base
<1> QED BY <1>1, <1>2

\* A row opened: its message is the open one, in the list, with the one timer
\* its opening started.
LEMMA OpenMessageKeeps ==
    ASSUME NEW u, Base(u), NEW p \in DOMAIN u.items
    PROVE  LET v == OpenMessage(u, p) IN
           /\ Base(v)
           /\ v.listed = u.listed /\ v.items = u.items /\ v.unread_only = u.unread_only
           /\ v.removed = u.removed /\ v.pending_change = u.pending_change /\ v.gone = u.gone
           /\ OpenIsListed(u) => OpenIsListed(v)
<1> DEFINE item == u.items[p]
           id == item.row.identity
           message == Message(Account(u), id)
           v == OpenMessage(u, p)
<1>1. CASE u.listed = Nothing \/ ~item.shown
  <2>1. v = u
      BY <1>1 DEF OpenMessage
  <2> QED BY <2>1
<1>2. CASE ~(u.listed = Nothing \/ ~item.shown)
  <2>1. u \in UiSet /\ ListIsOf(u)
      BY DEF Base
  <2>2. item \in ItemSet
      BY <2>1, LenProperties, ElementOfSeq DEF UiSet
  <2>3. id \in Identity /\ id # Nothing
    <3>1. item.row \in StoredRows
        BY <2>2 DEF ItemSet
    <3> QED BY <3>1, RowsAreOfIdentities, MailUiAssumption DEF Identity
  <2>4. u.listed \in RowReads /\ u.listed # Nothing
      BY <1>2, <2>1 DEF UiSet
  <2>5. Account(u) \in Accts
      BY <2>4 DEF RowReads, Account, Accts
  <2>6. message \in Messages
      BY <2>3, <2>5 DEF Message, Messages, Accts
  <2>7. v = [u EXCEPT !.open = id, !.read_timers = {message}, !.body = Nothing,
                      !.opened = message, !.unmarked = FALSE,
                      !.requests = u.requests \union {message}]
    <3> HIDE DEF id, message
    <3>1. v = RequestContent(
                [DropPendingRead(u) EXCEPT
                    !.open = id, !.read_timers = @ \union {message},
                    !.body = Nothing, !.opened = message, !.unmarked = FALSE],
                message)
        BY <1>2 DEF OpenMessage, id, message
    <3>2. DropPendingRead(u) = [u EXCEPT !.read_timers = {}]
        BY DEF DropPendingRead
    <3> QED BY <2>1, <3>1, <3>2 DEF RequestContent, UiSet
  <2> HIDE DEF v, id, message
  <2>8. /\ v \in UiSet
        /\ v.listed = u.listed /\ v.items = u.items /\ v.unread_only = u.unread_only
        /\ v.removed = u.removed /\ v.pending_change = u.pending_change /\ v.gone = u.gone
      BY <2>1, <2>3, <2>6, <2>7 DEF UiSet
  <2>9. /\ v.open = id /\ v.read_timers = {message} /\ v.body = Nothing
        /\ v.opened = message /\ v.unmarked = FALSE
      BY <2>1, <2>7 DEF UiSet
  <2>10. Account(v) = Account(u)
      BY <2>8 DEF Account
  <2>11. OpenMessageOf(v) = message
      BY <2>3, <2>4, <2>8, <2>9, <2>10 DEF OpenMessageOf, message
  <2>12. ListIsOf(v)
      BY <2>1, <2>4, <2>8, <2>10 DEF ListIsOf
  <2>13. ReaderIsOf(v)
      BY <2>4, <2>8, <2>9, <2>11 DEF ReaderIsOf
  <2>14. OpenIsListed(v)
      BY <2>8, <2>9 DEF OpenIsListed, PositionOf, id
  <2> QED BY <2>8, <2>12, <2>13, <2>14 DEF Base, v
<1> QED BY <1>1, <1>2

\* The invariant of the message list and the reader.
UiIInv == UiInv(ui)

\* The window starts with no folder shown.
LEMMA UiIInvInitially == UiInit => UiIInv
<1> SUFFICES ASSUME UiInit PROVE UiInv(ui)
    BY DEF UiIInv
<1>1. ui = [listed |-> Nothing, items |-> <<>>, unread_only |-> FALSE, removed |-> {},
            pending_change |-> FALSE, open |-> Nothing, read_timers |-> {}, body |-> Nothing,
            requests |-> {}, opened |-> Nothing, unmarked |-> FALSE, gone |-> Nothing]
    BY DEF UiInit
<1>2. <<>> \in Seq(ItemSet)
    BY EmptySeq
<1>3. ui \in UiSet
    BY <1>1, <1>2 DEF UiSet
<1>4. /\ ui.listed = Nothing /\ ui.items = <<>> /\ ui.open = Nothing /\ ui.read_timers = {}
    BY <1>1
<1>5. ListIsOf(ui) /\ ReaderIsOf(ui)
    BY <1>4 DEF ListIsOf, ReaderIsOf
<1>6. OpenIsListed(ui) /\ GoneWasLast(ui) /\ Follows(ui)
    BY <1>4 DEF OpenIsListed, GoneWasLast, Follows
<1> QED BY <1>3, <1>5, <1>6 DEF UiInv, Base

\* What a read of a folder finds are stored rows.
LEMMA ListingsTyped ==
    ASSUME NEW folder \in Folder, NEW latest \in Listings[folder]
    PROVE  latest \in Seq(StoredRows)
<1> DEFINE choice == UNION Range(RowChoices[folder])
           Before(row, other) ==
                \E i, j \in DOMAIN Identities :
                    i < j /\ Identities[i] = row.identity /\ Identities[j] = other.identity
<1>1. Listings[folder] = UNION {
              {listing \in [1..n -> choice] :
                  \A p, q \in 1..n : p < q => Before(listing[p], listing[q])} :
              n \in 0..Len(Identities)}
    BY DEF Listings
<1> HIDE DEF Before
<1>2. PICK n \in 0..Len(Identities) : latest \in [1..n -> choice]
    BY <1>1
<1>3. choice \subseteq StoredRows
    BY DEF StoredRows
<1>4. n \in Nat
    OBVIOUS
<1> HIDE DEF choice
<1> QED BY <1>2, <1>3, <1>4

\* A read's rows are shown, after the list of another account was cleared.
LEMMA ShowRowsKeepsUiIInv ==
    ASSUME UiIInv, NEW folder \in Folder, NEW animates, NEW latest \in Listings[folder],
           ShowRows(folder, latest, animates)
    PROVE  UiIInv'
<1> DEFINE same_folder  == ui.listed # Nothing /\ ui.listed.folder = folder
           same_account == ui.listed # Nothing /\ Account(ui) = folder.account
           kept         == IF same_account THEN ui ELSE Clear(ui)
           newest       == [folder |-> folder, rows |-> latest]
           removed      == IF same_folder THEN kept.removed ELSE {}
           v            == [kept EXCEPT !.listed = newest, !.removed = removed]
<1>1. \E change : ui' = UpdateShown(v, change, animates)
    BY DEF ShowRows
<1>2. Base(kept)
    BY ClearKeeps DEF UiIInv, UiInv
<1>3. newest \in RowReads /\ newest # Nothing
    BY ListingsTyped, NothingAssumption DEF RowReads
<1>4. ~same_account => kept.items = <<>> /\ kept.open = Nothing /\ kept.read_timers = {}
    BY ClearKeeps DEF UiIInv, UiInv
<1>5. same_account => kept = ui
    OBVIOUS
<1> HIDE DEF kept
<1>6. removed \in SUBSET Identity
    BY <1>2 DEF Base, UiSet
<1> HIDE DEF removed
<1>7. /\ v \in UiSet
      /\ v.listed = newest /\ v.items = kept.items /\ v.open = kept.open
      /\ v.read_timers = kept.read_timers /\ v.opened = kept.opened
      /\ v.body = kept.body /\ v.unmarked = kept.unmarked
    BY <1>2, <1>3, <1>6 DEF Base, UiSet
<1>8. Account(v) = folder.account
    BY <1>7 DEF Account
<1> HIDE DEF v
<1>9. Base(v)
  <2>1. CASE same_account
    <3>1. kept = ui /\ Account(v) = Account(ui) /\ ui.listed # Nothing
        BY <1>5, <1>8, <2>1
    <3>2. OpenMessageOf(v) = OpenMessageOf(ui)
        BY <1>3, <1>7, <3>1 DEF OpenMessageOf
    <3>3. ListIsOf(v)
        BY <1>2, <1>3, <1>7, <3>1 DEF Base, ListIsOf
    <3>4. ReaderIsOf(v)
        BY <1>2, <1>3, <1>7, <3>1, <3>2 DEF Base, ReaderIsOf
    <3> QED BY <1>7, <3>3, <3>4 DEF Base
  <2>2. CASE ~same_account
    <3>1. v.items = <<>> /\ v.open = Nothing /\ v.read_timers = {} /\ v.listed # Nothing
        BY <1>3, <1>4, <1>7, <2>2
    <3>2. ListIsOf(v) /\ ReaderIsOf(v)
        BY <3>1 DEF ListIsOf, ReaderIsOf
    <3> QED BY <1>7, <3>2 DEF Base
  <2> QED BY <2>1, <2>2
<1>10. UiInv(ui')
    BY <1>1, <1>9, UpdateShownKeeps
<1> QED BY <1>10 DEF UiIInv

\* The filter changes the list at once.
LEMMA SetUnreadFilterKeepsUiIInv ==
    ASSUME UiIInv, NEW unread_only \in BOOLEAN, SetUnreadFilter(unread_only)
    PROVE  UiIInv'
<1> DEFINE v == [ui EXCEPT !.unread_only = unread_only]
<1>1. ui' = UpdateShown(v, "AtOnce", TRUE)
    BY DEF SetUnreadFilter
<1>2. Base(ui)
    BY DEF UiIInv, UiInv
<1>3. /\ v \in UiSet
      /\ v.listed = ui.listed /\ v.items = ui.items /\ v.open = ui.open
      /\ v.read_timers = ui.read_timers /\ v.opened = ui.opened
      /\ v.body = ui.body /\ v.unmarked = ui.unmarked
    BY <1>2 DEF Base, UiSet
<1> HIDE DEF v
<1>4. Account(v) = Account(ui) /\ OpenMessageOf(v) = OpenMessageOf(ui)
    BY <1>3 DEF Account, OpenMessageOf
<1>5. Base(v)
    BY <1>2, <1>3, <1>4 DEF Base, ListIsOf, ReaderIsOf
<1>6. UiInv(ui')
    BY <1>1, <1>5, UpdateShownKeeps
<1> QED BY <1>6 DEF UiIInv

\* An answer for another message changes nothing that is shown; one for the
\* open message shows its content, or closes the reader.
LEMMA ShowContentKeepsUiIInv ==
    ASSUME UiIInv, NEW message, NEW held \in BOOLEAN, ShowContent(message, held)
    PROVE  UiIInv'
<1> DEFINE u == [ui EXCEPT !.requests = ui.requests \ {message}]
<1>1. message \in ui.requests
    BY DEF ShowContent
<1>2. ui' = IF ~IsForOpen(ui, message) THEN u
            ELSE IF held THEN [u EXCEPT !.body = message]
            ELSE [CloseReader(u) EXCEPT !.gone = message.identity]
    BY DEF ShowContent
<1>3. ui \in UiSet /\ UiInv(ui)
    BY DEF UiIInv, UiInv, Base
<1>4. message \in Messages
    BY <1>1, <1>3 DEF UiSet
<1>5. /\ u \in UiSet
      /\ u.listed = ui.listed /\ u.items = ui.items /\ u.unread_only = ui.unread_only
      /\ u.removed = ui.removed /\ u.pending_change = ui.pending_change
      /\ u.open = ui.open /\ u.opened = ui.opened /\ u.gone = ui.gone
      /\ u.read_timers = ui.read_timers /\ u.unmarked = ui.unmarked /\ u.body = ui.body
    BY <1>3 DEF UiSet
<1> HIDE DEF u
<1>6. UiInv(u)
    BY <1>3, <1>5, OtherFieldsKeep
<1>7. CASE ~IsForOpen(ui, message)
    BY <1>2, <1>6, <1>7 DEF UiIInv
<1>8. ASSUME IsForOpen(ui, message) PROVE UiIInv'
  <2>1. OpenMessageOf(ui) = message /\ message # Nothing
      BY <1>4, <1>8, NothingAssumption DEF IsForOpen
  <2>2. ui.open \in Identity /\ ui.listed \in RowReads /\ message.identity = ui.open
      BY <1>3, <2>1, OpenMessageTyped
  <2>3. ui.open # Nothing /\ ui.listed # Nothing
      BY <2>1 DEF OpenMessageOf
  <2>4. CASE held
    <3> DEFINE v == [u EXCEPT !.body = message]
    <3>1. ui' = v
        BY <1>2, <1>8, <2>4
    <3>2. /\ v \in UiSet
          /\ v.listed = u.listed /\ v.items = u.items /\ v.unread_only = u.unread_only
          /\ v.removed = u.removed /\ v.pending_change = u.pending_change
          /\ v.open = u.open /\ v.opened = u.opened /\ v.gone = u.gone
          /\ v.read_timers = u.read_timers /\ v.unmarked = u.unmarked /\ v.body = message
        BY <1>4, <1>5 DEF UiSet
    <3>3. message = u.opened
        BY <1>3, <1>5, <2>1, <2>3 DEF UiInv, Base, ReaderIsOf
    <3> HIDE DEF v
    <3>4. UiInv(v)
        BY <1>6, <3>2, <3>3, OtherFieldsKeep
    <3> QED BY <3>1, <3>4 DEF UiIInv
  <2>5. CASE ~held
    <3> DEFINE w == CloseReader(u)
               v == [w EXCEPT !.gone = message.identity]
    <3>1. ui' = v
        BY <1>2, <1>8, <2>5
    <3>2. /\ w \in UiSet
          /\ w.listed = ui.listed /\ w.items = ui.items /\ w.unread_only = ui.unread_only
          /\ w.removed = ui.removed /\ w.pending_change = ui.pending_change
          /\ w.open = Nothing /\ w.read_timers = {}
        BY <1>5, CloseReaderFields
    <3> HIDE DEF w
    <3>3. /\ v \in UiSet
          /\ v.listed = ui.listed /\ v.items = ui.items /\ v.unread_only = ui.unread_only
          /\ v.removed = ui.removed /\ v.pending_change = ui.pending_change
          /\ v.open = Nothing /\ v.read_timers = {} /\ v.gone = ui.open
        BY <2>2, <3>2 DEF UiSet
    <3> HIDE DEF v
    <3>4. Account(v) = Account(ui)
        BY <3>3 DEF Account
    <3>5. ListIsOf(v)
        BY <1>3, <2>3, <3>3, <3>4 DEF UiInv, Base, ListIsOf
    <3>6. ReaderIsOf(v) /\ OpenIsListed(v) /\ GoneWasLast(v)
        BY <3>3 DEF ReaderIsOf, OpenIsListed, GoneWasLast
    <3>7. Expected(v) = Expected(ui)
      <4> DEFINE sv == [v EXCEPT !.open = ui.open]
                 su == IF ui.gone = Nothing THEN ui ELSE [ui EXCEPT !.open = ui.gone]
      <4>1. Expected(v) = ShownRows(sv)
          BY <2>3, <3>3 DEF Expected
      <4>2. Expected(ui) = ShownRows(su)
          BY DEF Expected
      <4>3. sv.listed = ui.listed /\ sv.removed = ui.removed /\ sv.unread_only = ui.unread_only
            /\ sv.open = ui.open
          BY <3>3 DEF UiSet
      <4>4. su.listed = ui.listed /\ su.removed = ui.removed /\ su.unread_only = ui.unread_only
            /\ su.open = IF ui.gone = Nothing THEN ui.open ELSE ui.gone
          BY <1>3 DEF UiSet
      <4>5. ui.gone = Nothing \/ ~ui.unread_only
          BY <1>3, <2>3 DEF UiInv, GoneWasLast
      <4> HIDE DEF sv, su
      <4>6. ShownRows(su) = ShownRows(sv)
          BY <2>2, <4>3, <4>4, <4>5, SameShownRows
      <4> QED BY <4>1, <4>2, <4>6
    <3>8. Follows(v)
        BY <1>3, <3>3, <3>7 DEF UiInv, Follows
    <3> QED BY <3>1, <3>3, <3>5, <3>6, <3>8 DEF UiIInv, UiInv, Base
  <2> QED BY <2>4, <2>5
<1> QED BY <1>7, <1>8

\* A Retry only asks for the open message's content once more.
LEMMA ReadOpenContentAgainKeepsUiIInv ==
    ASSUME UiIInv, ReadOpenContentAgain
    PROVE  UiIInv'
<1> DEFINE v == [ui EXCEPT !.requests = ui.requests \union {OpenMessageOf(ui)}]
<1>1. ui' = v
    BY DEF ReadOpenContentAgain, RequestContent
<1>2. ui \in UiSet /\ UiInv(ui)
    BY DEF UiIInv, UiInv, Base
<1>3. OpenMessageOf(ui) \in Messages
    BY <1>2, OpenMessageTyped DEF ReadOpenContentAgain
<1>4. /\ v \in UiSet
      /\ v.listed = ui.listed /\ v.items = ui.items /\ v.unread_only = ui.unread_only
      /\ v.removed = ui.removed /\ v.pending_change = ui.pending_change
      /\ v.open = ui.open /\ v.opened = ui.opened /\ v.gone = ui.gone
      /\ v.read_timers = ui.read_timers /\ v.unmarked = ui.unmarked /\ v.body = ui.body
    BY <1>2, <1>3 DEF UiSet
<1> HIDE DEF v
<1>5. UiInv(v)
    BY <1>2, <1>4, OtherFieldsKeep
<1> QED BY <1>1, <1>5 DEF UiIInv

\* A click opens a listed row; under the filter the list changes with it.
LEMMA ActivateKeepsUiIInv ==
    ASSUME UiIInv, NEW position, Activate(position)
    PROVE  UiIInv'
<1> DEFINE v == OpenMessage(ui, position)
<1>1. position \in DOMAIN ui.items
    BY DEF Activate
<1>2. ui' = IF ui.unread_only THEN UpdateShown(v, "AtOnce", TRUE) ELSE v
    BY DEF Activate
<1>3. UiInv(ui) /\ Base(ui) /\ ui \in UiSet
    BY DEF UiIInv, UiInv, Base
<1>4. /\ Base(v)
      /\ v.listed = ui.listed /\ v.items = ui.items /\ v.unread_only = ui.unread_only
      /\ v.removed = ui.removed /\ v.pending_change = ui.pending_change /\ v.gone = ui.gone
      /\ OpenIsListed(v)
    BY <1>1, <1>3, OpenMessageKeeps DEF UiInv
<1> HIDE DEF v
<1>5. CASE ui.unread_only
    BY <1>2, <1>4, <1>5, UpdateShownKeeps DEF UiIInv
<1>6. CASE ~ui.unread_only
  <2>1. GoneWasLast(v)
      BY <1>4, <1>6 DEF GoneWasLast
  <2>2. v \in UiSet
      BY <1>4 DEF Base
  <2>3. ASSUME v.listed # Nothing PROVE Expected(v) = Expected(ui)
      BY <1>3, <1>4, <1>6, <2>2, <2>3, ExpectedSame
  <2>4. Follows(v)
      BY <1>3, <1>4, <2>3 DEF UiInv, Follows
  <2> QED BY <1>2, <1>4, <1>6, <2>1, <2>4 DEF UiIInv, UiInv
<1> QED BY <1>5, <1>6

\* Marking unread stops the timer.
LEMMA MarkUnreadKeepsUiIInv ==
    ASSUME UiIInv, MarkUnread
    PROVE  UiIInv'
<1> DEFINE v == [ui EXCEPT !.read_timers = {}, !.unmarked = TRUE]
<1>1. ui \in UiSet /\ UiInv(ui)
    BY DEF UiIInv, UiInv, Base
<1>2. ui' = v
    BY <1>1 DEF MarkUnread, DropPendingRead, UiSet
<1>3. /\ v \in UiSet
      /\ v.listed = ui.listed /\ v.items = ui.items /\ v.unread_only = ui.unread_only
      /\ v.removed = ui.removed /\ v.pending_change = ui.pending_change
      /\ v.open = ui.open /\ v.opened = ui.opened /\ v.gone = ui.gone
      /\ v.read_timers = {} /\ v.body = ui.body
    BY <1>1 DEF UiSet
<1> HIDE DEF v
<1>4. UiInv(v)
    BY <1>1, <1>3, OtherFieldsKeep
<1> QED BY <1>2, <1>4 DEF UiIInv

\* The timer that fires is none of the running ones.
LEMMA ReadTimerKeepsUiIInv ==
    ASSUME UiIInv, NEW message, ReadTimer(message)
    PROVE  UiIInv'
<1> DEFINE v == [ui EXCEPT !.read_timers = ui.read_timers \ {message}]
<1>1. ui \in UiSet /\ UiInv(ui)
    BY DEF UiIInv, UiInv, Base
<1>2. ui' = v
    BY DEF ReadTimer
<1>3. /\ v \in UiSet
      /\ v.listed = ui.listed /\ v.items = ui.items /\ v.unread_only = ui.unread_only
      /\ v.removed = ui.removed /\ v.pending_change = ui.pending_change
      /\ v.open = ui.open /\ v.opened = ui.opened /\ v.gone = ui.gone
      /\ v.read_timers \subseteq ui.read_timers /\ v.unmarked = ui.unmarked /\ v.body = ui.body
    BY <1>1 DEF UiSet
<1> HIDE DEF v
<1>4. UiInv(v)
    BY <1>1, <1>3, OtherFieldsKeep
<1> QED BY <1>2, <1>4 DEF UiIInv

\* The next message opened after a removal is one of the list.
LEMMA NextIsListed ==
    ASSUME NEW items \in Seq(ItemSet), NEW position,
           NEW p \in NextAfterLeaving(items, position)
    PROVE  p \in DOMAIN items
<1> DEFINE above == {q \in DOMAIN items : q < position /\ items[q].shown}
           below == {q \in DOMAIN items : q > position /\ items[q].shown}
           nearest_above == CHOOSE q \in above : \A r \in above : r <= q
           nearest_below == CHOOSE q \in below : \A r \in below : q <= r
<1> USE DEF NextAfterLeaving
<1>1. Len(items) \in Nat /\ DOMAIN items \subseteq 0..Len(items)
    BY LenProperties
<1>2. below # {} => nearest_below \in below
  <2> HAVE below # {}
  <2>1. below \subseteq Nat
      BY <1>1
  <2> HIDE DEF below
  <2>2. \E q \in below : \A r \in below : q <= r
      BY <2>1, Least
  <2> QED BY <2>2
<1>3. above # {} => nearest_above \in above
  <2> HAVE above # {}
  <2>1. above \subseteq 0..Len(items)
      BY <1>1
  <2> HIDE DEF above
  <2>2. \E q \in above : \A r \in above : r <= q
      BY <1>1, <2>1, Greatest
  <2> QED BY <2>2
<1> QED BY <1>2, <1>3

\* Without a folder to show, the list and the reader are empty.
LEMMA ShowNoRowsKeepsUiIInv ==
    ASSUME UiIInv, ShowNoRows
    PROVE  UiIInv'
<1>1. ui' = Clear(ui)
    BY DEF ShowNoRows
<1>2. Base(ui)
    BY DEF UiIInv, UiInv
<1> QED BY <1>1, <1>2, ClearKeeps DEF UiIInv

\* A removal of the open message opens the next listed row, or none.
LEMMA RemoveInWindowKeepsUiIInv ==
    ASSUME UiIInv, NEW id \in Identity, NEW animates, RemoveInWindow(id, animates)
    PROVE  UiIInv'
<1> DEFINE at == PositionOf(ui.items, id)
           next == NextAfterLeaving(ui.items, CHOOSE p \in at : TRUE)
           u == [ui EXCEPT !.removed = ui.removed \union {id}]
           v == IF ui.open # id THEN u
                ELSE IF next = {} THEN CloseReader(u)
                ELSE OpenMessage(u, CHOOSE p \in next : TRUE)
<1>1. ui' = UpdateShown(v, "Animated", animates)
    BY DEF RemoveInWindow
<1>2. ui \in UiSet /\ Base(ui)
    BY DEF UiIInv, UiInv, Base
<1>3. next \subseteq DOMAIN ui.items
  <2>1. ui.items \in Seq(ItemSet)
      BY <1>2 DEF UiSet
  <2> QED BY <2>1, NextIsListed
<1> HIDE DEF next
<1>4. /\ u \in UiSet
      /\ u.listed = ui.listed /\ u.items = ui.items /\ u.unread_only = ui.unread_only
      /\ u.open = ui.open /\ u.opened = ui.opened /\ u.read_timers = ui.read_timers
      /\ u.unmarked = ui.unmarked /\ u.body = ui.body
    BY <1>2 DEF UiSet
<1> HIDE DEF u
<1>5. Account(u) = Account(ui) /\ OpenMessageOf(u) = OpenMessageOf(ui)
    BY <1>4 DEF Account, OpenMessageOf
<1>6. ListIsOf(u)
    BY <1>2, <1>4, <1>5 DEF Base, ListIsOf
<1>7. ReaderIsOf(u)
    BY <1>2, <1>4, <1>5 DEF Base, ReaderIsOf
<1>8. Base(u)
    BY <1>4, <1>6, <1>7 DEF Base
<1>9. Base(v)
  <2>1. CASE ui.open # id
      BY <1>8, <2>1
  <2>2. CASE ui.open = id /\ next = {}
      BY <1>4, <1>6, <2>2, CloseReaderBase
  <2>3. CASE ui.open = id /\ next # {}
    <3> DEFINE p == CHOOSE q \in next : TRUE
    <3>1. p \in DOMAIN u.items
        BY <1>3, <1>4, <2>3
    <3>2. v = OpenMessage(u, p)
        BY <2>3
    <3> HIDE DEF p, v
    <3> QED BY <1>8, <3>1, <3>2, OpenMessageKeeps
  <2> QED BY <2>1, <2>2, <2>3
<1> HIDE DEF v
<1> QED BY <1>1, <1>9, UpdateShownKeeps DEF UiIInv

\* The timer changes the list to the rows that are to be shown when it fires.
LEMMA ChangeAfterClosingKeepsUiIInv ==
    ASSUME UiIInv, NEW animates, ChangeAfterClosing(animates)
    PROVE  UiIInv'
<1> DEFINE u == [ui EXCEPT !.pending_change = FALSE]
<1>1. ui' = UpdateShown(u, "Animated", animates)
    BY DEF ChangeAfterClosing
<1>2. ui \in UiSet /\ Base(ui)
    BY DEF UiIInv, UiInv, Base
<1>3. /\ u \in UiSet
      /\ u.listed = ui.listed /\ u.items = ui.items
      /\ u.open = ui.open /\ u.opened = ui.opened /\ u.read_timers = ui.read_timers
      /\ u.unmarked = ui.unmarked /\ u.body = ui.body
    BY <1>2 DEF UiSet
<1> HIDE DEF u
<1>4. Account(u) = Account(ui) /\ OpenMessageOf(u) = OpenMessageOf(ui)
    BY <1>3 DEF Account, OpenMessageOf
<1>5. ListIsOf(u)
    BY <1>2, <1>3, <1>4 DEF Base, ListIsOf
<1>6. ReaderIsOf(u)
    BY <1>2, <1>3, <1>4 DEF Base, ReaderIsOf
<1>7. Base(u)
    BY <1>3, <1>5, <1>6 DEF Base
<1> QED BY <1>1, <1>7, UpdateShownKeeps DEF UiIInv

\* A frame leaves a row object its message and its state, and open or still to
\* be opened.
LEMMA DrawnItem ==
    ASSUME NEW item \in ItemSet
    PROVE  /\ Drawn(item) \in ItemSet
           /\ Drawn(item).row = item.row /\ Drawn(item).account = item.account
           /\ Drawn(item).unread = item.unread /\ Drawn(item).starred = item.starred
           /\ item.shown \/ item.opens_in # {} => Drawn(item).shown \/ Drawn(item).opens_in # {}
<1> DEFINE now  == item.shown \/ 1 \in item.opens_in
           left == {n - 1 : n \in item.opens_in \ {1}}
           new  == [item EXCEPT !.shown = now, !.opens_in = left]
<1>1. Drawn(item) = new
    BY DEF Drawn
<1>2. item.opens_in \subseteq {1, 2}
    BY DEF ItemSet
<1>3. left \subseteq {1, 2} /\ now \in BOOLEAN
    BY <1>2
<1>4. item.shown \/ item.opens_in # {} => now \/ left # {}
  <2>1. ASSUME 2 \in item.opens_in PROVE 1 \in left
      BY <2>1
  <2> QED BY <1>2, <2>1
<1> HIDE DEF now, left
<1>5. /\ new \in ItemSet
      /\ new.row = item.row /\ new.account = item.account
      /\ new.unread = item.unread /\ new.starred = item.starred
      /\ new.shown = now /\ new.opens_in = left
    BY <1>3 DEF ItemSet
<1> HIDE DEF new
<1> QED BY <1>1, <1>4, <1>5

\* The rows expected are stored rows.
LEMMA ExpectedTyped ==
    ASSUME NEW u \in UiSet, u.listed # Nothing
    PROVE  Expected(u) \in Seq(StoredRows)
<1> DEFINE w == IF u.gone = Nothing THEN u ELSE [u EXCEPT !.open = u.gone]
<1>1. w.listed \in RowReads
    BY DEF UiSet
<1>2. Expected(u) = ShownRows(w)
    BY DEF Expected
<1> HIDE DEF w
<1> QED BY <1>1, <1>2, ShownRowsTyped

\* A frame opens rows, and leaves the list as it is.
LEMMA FrameKeepsUiIInv ==
    ASSUME UiIInv, Frame
    PROVE  UiIInv'
<1> DEFINE items == [p \in DOMAIN ui.items |-> Drawn(ui.items[p])]
           v == [ui EXCEPT !.items = items]
<1>1. ui' = v
    BY DEF Frame
<1>2. UiInv(ui) /\ Base(ui) /\ ui \in UiSet
    BY DEF UiIInv, UiInv, Base
<1>3. /\ Len(ui.items) \in Nat /\ DOMAIN ui.items = 1..Len(ui.items)
      /\ \A p \in DOMAIN ui.items : ui.items[p] \in ItemSet
  <2>1. ui.items \in Seq(ItemSet)
      BY <1>2 DEF UiSet
  <2> QED BY <2>1, LenProperties, ElementOfSeq
<1>4. /\ DOMAIN items = DOMAIN ui.items
      /\ \A p \in DOMAIN ui.items :
            /\ items[p] \in ItemSet
            /\ items[p].row = ui.items[p].row /\ items[p].account = ui.items[p].account
            /\ items[p].unread = ui.items[p].unread /\ items[p].starred = ui.items[p].starred
            /\ ui.items[p].shown \/ ui.items[p].opens_in # {}
               => items[p].shown \/ items[p].opens_in # {}
    BY <1>3, DrawnItem
<1>5. items \in Seq(ItemSet) /\ Len(items) = Len(ui.items)
  <2> DEFINE n == Len(ui.items)
  <2>1. n \in Nat /\ items = [p \in 1..n |-> Drawn(ui.items[p])]
      BY <1>3
  <2>2. \A p \in 1..n : Drawn(ui.items[p]) \in ItemSet
      BY <1>3, DrawnItem
  <2> HIDE DEF n, items
  <2>3. items \in [1..n -> ItemSet]
      BY <2>1, <2>2
  <2>4. items \in Seq(ItemSet) /\ Len(items) = n
      BY <2>1, <2>3
  <2> QED BY <2>4 DEF n
<1> HIDE DEF items
<1>6. /\ v \in UiSet
      /\ v.items = items
      /\ v.listed = ui.listed /\ v.unread_only = ui.unread_only
      /\ v.removed = ui.removed /\ v.pending_change = ui.pending_change
      /\ v.open = ui.open /\ v.opened = ui.opened /\ v.gone = ui.gone
      /\ v.read_timers = ui.read_timers /\ v.unmarked = ui.unmarked /\ v.body = ui.body
    BY <1>2, <1>5 DEF UiSet
<1> HIDE DEF v
<1>7. Account(v) = Account(ui) /\ OpenMessageOf(v) = OpenMessageOf(ui)
    BY <1>6 DEF Account, OpenMessageOf
<1>8. ListIsOf(v)
  <2>1. \A p \in DOMAIN v.items : v.items[p].account = Account(v)
      BY <1>2, <1>4, <1>6, <1>7 DEF Base, ListIsOf
  <2>2. ASSUME v.listed = Nothing PROVE v.items = <<>> /\ v.open = Nothing
    <3>1. ui.items = <<>> /\ ui.open = Nothing
        BY <1>2, <1>6, <2>2 DEF Base, ListIsOf
    <3>2. Len(items) = 0
        BY <1>5, <3>1
    <3> QED BY <1>5, <1>6, <3>1, <3>2, EmptySeq
  <2> QED BY <2>1, <2>2 DEF ListIsOf
<1>9. ReaderIsOf(v)
    BY <1>2, <1>6, <1>7 DEF Base, ReaderIsOf
<1>10. OpenIsListed(v)
  <2>1. PositionOf(v.items, v.open) = PositionOf(ui.items, ui.open)
      BY <1>4, <1>6 DEF PositionOf
  <2> QED BY <1>2, <1>6, <2>1 DEF UiInv, OpenIsListed
<1>11. GoneWasLast(v)
    BY <1>2, <1>6 DEF UiInv, GoneWasLast
<1>12. Follows(v)
  <2> SUFFICES ASSUME v.listed # Nothing, ~v.pending_change
               PROVE  ItemsShow(v.items, Expected(v))
      BY DEF Follows
  <2>1. Expected(v) = Expected(ui)
      BY <1>2, <1>6, ExpectedSame
  <2>2. ItemsShow(ui.items, Expected(ui))
      BY <1>2, <1>6 DEF UiInv, Follows
  <2> DEFINE latest == Expected(ui)
  <2> HIDE DEF latest
  <2>3. Len(items) = Len(latest)
      BY <1>5, <2>2 DEF ItemsShow, latest
  <2>4. ASSUME NEW p \in DOMAIN latest PROVE ShowsRow(items[p], latest[p])
    <3>1. ShowsRow(ui.items[p], latest[p])
        BY <2>2 DEF ItemsShow, latest
    <3>2. DOMAIN latest = 1..Len(latest)
      <4>1. latest \in Seq(StoredRows)
          BY <1>2, <1>6, ExpectedTyped DEF latest
      <4> QED BY <4>1, LenProperties
    <3>3. p \in DOMAIN ui.items
        BY <1>3, <1>5, <2>3, <3>2
    <3> QED BY <1>4, <3>1, <3>3 DEF ShowsRow, ListsSameMessage
  <2> QED BY <1>6, <2>1, <2>3, <2>4 DEF ItemsShow, latest
<1> QED BY <1>1, <1>6, <1>8, <1>9, <1>10, <1>11, <1>12 DEF UiIInv, UiInv, Base

\* Each callback keeps the invariant of the message list and the reader.
LEMMA NextKeepsUiIInv == UiIInv /\ [UiNext]_uivars => UiIInv'
<1> SUFFICES ASSUME UiIInv, [UiNext]_uivars PROVE UiIInv'
    OBVIOUS
<1>1. CASE Step
  <2>1. ASSUME NEW folder \in Folder, NEW animates \in BOOLEAN, NEW latest \in Listings[folder],
               ShowRows(folder, latest, animates)
        PROVE  UiIInv'
      BY <2>1, ShowRowsKeepsUiIInv
  <2>2. ASSUME ShowNoRows PROVE UiIInv'
      BY <2>2, ShowNoRowsKeepsUiIInv
  <2>3. ASSUME NEW unread_only \in BOOLEAN, SetUnreadFilter(unread_only) PROVE UiIInv'
      BY <2>3, SetUnreadFilterKeepsUiIInv
  <2>4. ASSUME NEW message \in ui.requests, NEW held \in BOOLEAN, ShowContent(message, held)
        PROVE  UiIInv'
      BY <2>4, ShowContentKeepsUiIInv
  <2>5. ASSUME ReadOpenContentAgain PROVE UiIInv'
      BY <2>5, ReadOpenContentAgainKeepsUiIInv
  <2>6. ASSUME NEW position \in DOMAIN ui.items, Activate(position) PROVE UiIInv'
      BY <2>6, ActivateKeepsUiIInv
  <2>7. ASSUME MarkUnread PROVE UiIInv'
      BY <2>7, MarkUnreadKeepsUiIInv
  <2>8. ASSUME NEW id \in Identity, NEW animates \in BOOLEAN, RemoveInWindow(id, animates)
        PROVE  UiIInv'
      BY <2>8, RemoveInWindowKeepsUiIInv
  <2>9. ASSUME NEW animates \in BOOLEAN, ChangeAfterClosing(animates) PROVE UiIInv'
      BY <2>9, ChangeAfterClosingKeepsUiIInv
  <2>10. ASSUME NEW message \in ui.read_timers, ReadTimer(message) PROVE UiIInv'
      BY <2>10, ReadTimerKeepsUiIInv
  <2>11. ASSUME Frame PROVE UiIInv'
      BY <2>11, FrameKeepsUiIInv
  <2> QED BY <1>1, <2>1, <2>2, <2>3, <2>4, <2>5, <2>6, <2>7, <2>8, <2>9, <2>10, <2>11 DEF Step
<1>2. CASE UNCHANGED uivars
    BY <1>2 DEF UiIInv, uivars
<1> QED BY <1>1, <1>2 DEF UiNext

\* The invariant of the message list and the reader holds throughout,
\* whatever the order of reads, answers, clicks, timers and frames.
THEOREM UiInvariant == UiSpec => []UiIInv
<1>1. UiInit => UiIInv
    BY UiIInvInitially
<1>2. UiIInv /\ [UiNext]_uivars => UiIInv'
    BY NextKeepsUiIInv
<1> QED BY <1>1, <1>2, PTL DEF UiSpec

\* With no change pending the list shows exactly the latest rows that the
\* filter, the open message and the removals in the window call for, in their
\* order and with their read states and stars; a row still closed opens in a
\* frame to come (mail_ui.rs update_shown, change_list).
THEOREM UiListFollowsRows == UiSpec => []ListFollowsRows
<1>1. UiIInv => ListFollowsRows
  <2> SUFFICES ASSUME UiIInv, ui.listed # Nothing, ~ui.pending_change
               PROVE  ListFollowsRows
      BY DEF ListFollowsRows
  <2>1. ItemsShow(ui.items, Expected(ui))
      BY DEF UiIInv, UiInv, Follows
  <2> QED BY <2>1 DEF ListFollowsRows, ItemsShow, ShowsRow, Expected
<1> QED BY <1>1, UiInvariant, PTL

\* The open message is in the list, of the account of the folder shown, and the
\* reader shows no other's content, however late an answer comes (mail_ui.rs
\* show_content, is_for_open).
THEOREM UiReaderShowsListedMessage == UiSpec => []ReaderShowsListedMessage
<1>1. UiIInv => ReaderShowsListedMessage
    BY DEF UiIInv, UiInv, Base, ListIsOf, ReaderIsOf, OpenIsListed, ReaderShowsListedMessage
<1> QED BY <1>1, UiInvariant, PTL

\* A running timer marks only the message still open, and none the user marked
\* unread since it was opened (mail_ui.rs open_message, drop_pending_read).
THEOREM UiReadTimerIsOfOpenMessage == UiSpec => []ReadTimerIsOfOpenMessage
<1>1. UiIInv => ReadTimerIsOfOpenMessage
    BY DEF UiIInv, UiInv, Base, ReaderIsOf, ReadTimerIsOfOpenMessage
<1> QED BY <1>1, UiInvariant, PTL
=============================================================================
