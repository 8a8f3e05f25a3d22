--------------------------- MODULE ImapCycleProofs ---------------------------
(***************************************************************************)
(* What an IMAP cycle keeps, for every set of accounts, folders and        *)
(* messages, on Generic IMAP and on Gmail, for every batch size and bound. *)
(* Numbers are taken at one moment, a listing at a later one, and what was *)
(* listed is stored later still, with other clients' changes in between;   *)
(* so the invariant says of every number what it proves of the messages    *)
(* that did not change since.                                              *)
(***************************************************************************)
EXTENDS ImapCycle, StoreRowsProofs, FiniteSetTheorems

-----------------------------------------------------------------------------
(* Types.                                                                  *)

\* What an opening may return.
Numbers == [uid_validity : 1..MaxValidity, message_count : 0..MaxUid,
            uid_next : 1..(MaxUid + 1), highest_modseq : Nat]

\* What the folder's saved state may say, and what names a message: every
\* opening's numbers, and every identity a cycle gives.
NumbersArePlaces ==
    /\ Numbers \subseteq Place /\ NoPlace \notin Numbers
    /\ Gmail # {} => Mail \subseteq MessageId
    /\ Gmail # Account => FolderId \X (1..MaxValidity) \X (1..MaxUid) \subseteq MessageId

\* A folder of the server: the UIDs were handed out, no change is newer than
\* the folder's own mod-sequence, and no message is in it twice.
BoxSound(b) ==
    /\ b \in Box
    /\ \A u \in DOMAIN b.held : u < b.next /\ b.held[u].modseq <= b.modseq
    /\ \A u, v \in DOMAIN b.held : b.held[u].mail = b.held[v].mail => u = v

ServerTypes ==
    /\ DOMAIN box = FolderRef
    /\ \A f \in FolderRef : BoxSound(box[f])
    /\ flags \in [Mail -> Flags]

SavedPlace(f)   == store.folders[f].place
Synchronized(f) == store.folders[f].synchronized

StoreTypes ==
    /\ Kept(store)
    /\ DOMAIN store.folders = FolderRef

CycleFields ==
    {"phase", "folder", "numbers", "plan", "stored", "changes", "listed",
     "complete", "missing", "fetched", "withheld", "sent", "command"}

Openings == {"opened", "reopened"}
Fillings == {"settling", "sending", "refused", "reading", "confirming"}

PassPlans == [lists : {"Nothing", "ChangedFlags", "Everything"}, since : Nat]

\* The local variables of a running cycle.
CycleRecord(c) ==
    /\ DOMAIN c = CycleFields
    /\ c.phase \in Phases \ {"idle"}
    /\ c.folder \in FolderRef
    /\ c.numbers \in Numbers
    /\ c.plan \in PassPlans
    /\ c.listed \in PartialFunctions(MessageId, [uid : 1..MaxUid, flags : Flags])
    /\ c.missing \subseteq DOMAIN c.listed
    /\ c.changes \subseteq PendingChange
    /\ c.sent \subseteq PendingChange
    /\ c.command \subseteq PendingChange
    /\ c.complete \in BOOLEAN /\ c.fetched \in BOOLEAN /\ c.withheld \in BOOLEAN

CycleTypes == Running => CycleRecord(cycle)

CounterTypes ==
    faults \in Nat /\ faults <= MaxFaults /\ wishes \in Nat /\ wishes <= MaxWishes

Types == ServerTypes /\ StoreTypes /\ CycleTypes /\ CounterTypes

-----------------------------------------------------------------------------
(* What numbers prove.                                                     *)

\* The numbers are of an earlier moment of the folder, or of now.
Earlier(f, p) ==
    /\ p \in Numbers
    /\ p.uid_validity <= box[f].validity
    /\ p.uid_next <= box[f].next
    /\ p.highest_modseq <= box[f].modseq

\* No message arrived since the numbers; the one at `u` did not change.
NoneArrived(f, p) == p.uid_validity = box[f].validity /\ p.uid_next = box[f].next

Unchanged(f, p, u) ==
    p.uid_validity = box[f].validity /\ box[f].held[u].modseq <= p.highest_modseq

Agrees(f, u) == StoredFlags(f, IdentityAt(f, u)) = FlagsAt(f, u)

\* The numbers prove the store, but for missing messages: none of the folder
\* is left out unless one arrived since, none is stored beyond the folder's
\* count, and a stored message that did not change since shows its flags.
ProvesMessages(f, p, missing) ==
    NoneArrived(f, p) =>
        /\ IdentitiesIn(f) \subseteq HeldIn(store, f) \union missing
        /\ IsFiniteSet(HeldIn(store, f) \union missing)
        /\ Cardinality(HeldIn(store, f) \union missing) <= p.message_count

ProvesFlags(f, p) ==
    \A u \in Uids(f) :
        Unchanged(f, p, u) /\ IdentityAt(f, u) \in HeldIn(store, f) => Agrees(f, u)

Proves(f, p, missing) == ProvesMessages(f, p, missing) /\ ProvesFlags(f, p)

SavedProves ==
    \A f \in FolderRef : Synchronized(f) =>
        Earlier(f, SavedPlace(f)) /\ Proves(f, SavedPlace(f), {})

\* The numbers the listing goes on from.
Reference == [cycle.numbers EXCEPT !.highest_modseq = cycle.plan.since]

\* Between an opening and its listing.
OpeningProves(f) ==
    /\ cycle.stored = ReadFolderSync(store, f)
    /\ Earlier(f, Reference)
    /\ NoneArrived(f, cycle.numbers) =>
          Cardinality(Uids(f)) <= cycle.numbers.message_count
    /\ cycle.numbers.message_count = 0 =>
          seen.steady = {} /\ \A u \in Uids(f) : ~Unchanged(f, cycle.numbers, u)
    /\ cycle.plan.lists # "Everything" => Proves(f, Reference, {})
    /\ cycle.plan.lists = "Nothing" => cycle.plan.since = cycle.numbers.highest_modseq

\* Some numbers still vouch for the message at `u`: those saved, or the
\* cycle's own.
Vouched(g, u) ==
    \/ Synchronized(g) /\ Unchanged(g, SavedPlace(g), u)
    \/ g = cycle.folder /\ Unchanged(g, cycle.numbers, u)

\* A value that was the server's when the cycle read it, and still is
\* wherever it may replace a flag some numbers vouch for.
StillShows(account, id, values) ==
    \A g \in FolderRef : \A u \in Uids(g) :
        g.account = account /\ IdentityAt(g, u) = id /\ Vouched(g, u)
            => FlagsAt(g, u) = values

StillShowsFlag(account, id, flag, value) ==
    \A g \in FolderRef : \A u \in Uids(g) :
        g.account = account /\ IdentityAt(g, u) = id /\ Vouched(g, u)
            => FlagsAt(g, u)[flag] = value

\* A change that may be settled: the server showed it.
Answered(f, c) ==
    /\ StillShowsFlag(f.account, c.identity, c.flag, c.wanted)
    /\ <<c.identity, c.flag, c.wanted>> \in seen.shown

WereShown(id, values) ==
    \A g \in MessageFlag : <<id, g, values[g]>> \in seen.shown

\* From the first pass on until the second opening: what was listed, and what
\* is missing; and the changes to be settled, or sent together.
FillKeeps(f) ==
    /\ \A id \in DOMAIN cycle.listed :
          /\ StillShows(f.account, id, cycle.listed[id].flags)
          /\ WereShown(id, cycle.listed[id].flags)
    /\ cycle.missing # {} => cycle.fetched
    /\ cycle.fetched => ~Synchronized(f)
    /\ cycle.complete /\ ~cycle.withheld => Proves(f, cycle.numbers, cycle.missing)

ChangesProve(f) ==
    /\ cycle.phase = "settling" => \A c \in cycle.changes : Answered(f, c)
    /\ cycle.phase = "confirming" => \A c \in cycle.command : Answered(f, c)
    /\ cycle.phase \in {"refused", "reading", "confirming"} =>
          \A c, d \in cycle.command : c.flag = d.flag /\ c.wanted = d.wanted

\* The cycle's history of its folder.
Watches(f) ==
    /\ seen.steady \subseteq IdentitiesIn(f)
    /\ IdentitiesIn(f) \subseteq seen.ever
    /\ FlagValues(f) \subseteq seen.shown

CycleProves ==
    Running =>
        /\ Earlier(cycle.folder, cycle.numbers)
        /\ Watches(cycle.folder)
        /\ cycle.phase \in Openings => OpeningProves(cycle.folder)
        /\ cycle.phase \in Fillings => FillKeeps(cycle.folder) /\ ChangesProve(cycle.folder)

Invariant == Types /\ SavedProves /\ CycleProves

-----------------------------------------------------------------------------
(* How the server's folders change.                                        *)

\* What a folder becomes by any step: numbers only rise, a message that is
\* there at an unchanged next UID was there before, and one whose
\* mod-sequence is not new did not change.
BoxFollows(a, b) ==
    /\ b.modseqs = a.modseqs
    /\ a.validity <= b.validity /\ a.next <= b.next /\ a.modseq <= b.modseq
    /\ b.next = a.next => DOMAIN b.held \subseteq DOMAIN a.held
    /\ \A u \in DOMAIN b.held :
          b.held[u].modseq <= a.modseq => u \in DOMAIN a.held /\ b.held[u] = a.held[u]
    /\ \A u \in DOMAIN b.held \intersect DOMAIN a.held :
          b.held[u].mail = a.held[u].mail /\ a.held[u].modseq <= b.held[u].modseq

ServerMoves ==
    \A f \in FolderRef :
        /\ BoxFollows(box[f], box'[f])
        /\ \A u \in Uids(f)' : box'[f].held[u].modseq <= box[f].modseq =>
              FlagsAt(f, u)' = FlagsAt(f, u)

\* A folder's type, unfolded.
LEMMA BoxType ==
    ASSUME NEW b
    PROVE  b \in Box <=>
             /\ b = [modseqs |-> b.modseqs, validity |-> b.validity, next |-> b.next,
                     modseq |-> b.modseq, held |-> b.held]
             /\ b.modseqs \in BOOLEAN
             /\ b.validity \in 1..MaxValidity
             /\ b.next \in 1..(MaxUid + 1)
             /\ b.modseq \in Nat \ {0}
             /\ DOMAIN b.held \subseteq 1..MaxUid
             /\ b.held \in [DOMAIN b.held -> [mail : Mail, modseq : Nat \ {0}]]
<1> DEFINE T == [mail : Mail, modseq : Nat \ {0}]
<1>1. b.held \in PartialFunctions(1..MaxUid, T)
        <=> DOMAIN b.held \subseteq 1..MaxUid /\ b.held \in [DOMAIN b.held -> T]
    BY PartialFunctionType
<1>2. b \in Box <=>
        /\ b = [modseqs |-> b.modseqs, validity |-> b.validity, next |-> b.next,
                modseq |-> b.modseq, held |-> b.held]
        /\ b.modseqs \in BOOLEAN
        /\ b.validity \in 1..MaxValidity
        /\ b.next \in 1..(MaxUid + 1)
        /\ b.modseq \in Nat \ {0}
        /\ b.held \in PartialFunctions(1..MaxUid, T)
  <2> HIDE DEF T
  <2> QED BY DEF Box, T
<1> QED BY <1>1, <1>2

\* A folder's parts.
LEMMA BoxParts ==
    ASSUME NEW b, BoxSound(b)
    PROVE  /\ b.validity \in Nat /\ b.next \in Nat /\ b.modseq \in Nat /\ b.modseq # 0
           /\ b.validity \in 1..MaxValidity /\ b.next \in 1..(MaxUid + 1)
           /\ b.modseqs \in BOOLEAN
           /\ \A u \in DOMAIN b.held :
                 /\ u \in Nat /\ u \in 1..MaxUid /\ u < b.next
                 /\ b.held[u] \in [mail : Mail, modseq : Nat \ {0}]
                 /\ b.held[u].mail \in Mail
                 /\ b.held[u].modseq \in Nat /\ b.held[u].modseq # 0
                 /\ b.held[u].modseq <= b.modseq
<1>1. MaxValidity \in Nat /\ MaxUid \in Nat
    BY ServerAssumption
<1> QED BY <1>1, BoxType DEF BoxSound

\* What a write of some of its parts leaves of the others.
LEMMA BoxWritten ==
    ASSUME NEW b \in Box, NEW n, NEW q, NEW h
    PROVE  /\ [b EXCEPT !.modseq = q, !.held = h]
              = [modseqs |-> b.modseqs, validity |-> b.validity, next |-> b.next,
                 modseq |-> q, held |-> h]
           /\ [b EXCEPT !.next = n, !.modseq = q, !.held = h]
              = [modseqs |-> b.modseqs, validity |-> b.validity, next |-> n,
                 modseq |-> q, held |-> h]
<1> DEFINE c == [b EXCEPT !.modseq = q]
           d == [b EXCEPT !.next = n]
           e == [d EXCEPT !.modseq = q]
<1>1. b = [modseqs |-> b.modseqs, validity |-> b.validity, next |-> b.next,
           modseq |-> b.modseq, held |-> b.held]
    BY BoxType
<1>2. /\ c = [modseqs |-> b.modseqs, validity |-> b.validity, next |-> b.next,
              modseq |-> q, held |-> b.held]
      /\ d = [modseqs |-> b.modseqs, validity |-> b.validity, next |-> n,
              modseq |-> b.modseq, held |-> b.held]
    BY <1>1
<1>3. /\ [b EXCEPT !.modseq = q, !.held = h] = [c EXCEPT !.held = h]
      /\ [b EXCEPT !.next = n, !.modseq = q, !.held = h] = [e EXCEPT !.held = h]
    OBVIOUS
<1> HIDE DEF d
<1>4. e = [modseqs |-> b.modseqs, validity |-> b.validity, next |-> n,
           modseq |-> q, held |-> b.held]
    BY <1>2
<1> HIDE DEF c, e
<1> QED BY <1>2, <1>3, <1>4

LEMMA SameBoxFollows ==
    ASSUME NEW b, BoxSound(b)
    PROVE  BoxFollows(b, b)
    BY BoxParts DEF BoxFollows

\* One folder changes, and no flag.
LEMMA OneBoxMoves ==
    ASSUME ServerTypes, NEW f \in FolderRef, NEW b, BoxSound(b), BoxFollows(box[f], b),
           DOMAIN box' = FolderRef, box'[f] = b,
           \A g \in FolderRef \ {f} : box'[g] = box[g], UNCHANGED flags
    PROVE  ServerTypes' /\ ServerMoves
<1>1. ServerTypes'
    BY DEF ServerTypes
<1>2. \A g \in FolderRef : BoxFollows(box[g], box'[g])
    BY SameBoxFollows DEF ServerTypes
<1>3. ASSUME NEW g \in FolderRef, NEW u \in Uids(g)', box'[g].held[u].modseq <= box[g].modseq
      PROVE  FlagsAt(g, u)' = FlagsAt(g, u)
  <2>1. box'[g].held[u] = box[g].held[u]
      BY <1>2, <1>3 DEF BoxFollows, Uids
  <2> QED BY <2>1 DEF FlagsAt
<1> QED BY <1>1, <1>2, <1>3 DEF ServerMoves

LEMMA ServerRests ==
    ASSUME ServerTypes, UNCHANGED serverVars
    PROVE  ServerTypes' /\ ServerMoves
<1>1. box' = box /\ flags' = flags
    BY DEF serverVars
<1>2. ServerTypes'
    BY <1>1 DEF ServerTypes
<1>3. \A g \in FolderRef : BoxFollows(box[g], box'[g])
    BY <1>1, SameBoxFollows DEF ServerTypes
<1> QED BY <1>1, <1>2, <1>3 DEF ServerMoves, FlagsAt

\* A message arrives, under the next UID and a new mod-sequence.
LEMMA ArriveMoves ==
    ASSUME ServerTypes, NEW f \in FolderRef, NEW mail \in Mail, Arrive(f, mail)
    PROVE  ServerTypes' /\ ServerMoves
<1>1. PICK b : b = box[f]
    OBVIOUS
<1>2. BoxSound(b)
    BY <1>1 DEF ServerTypes
<1> DEFINE row(u) == IF u = b.next THEN [mail |-> mail, modseq |-> b.modseq + 1] ELSE b.held[u]
           held == [u \in DOMAIN b.held \union {b.next} |-> row(u)]
           c == [b EXCEPT !.next = @ + 1, !.modseq = @ + 1, !.held = held]
<1>3. /\ \A u \in DOMAIN b.held : b.held[u].mail # mail
      /\ b.next <= MaxUid
      /\ box' = [box EXCEPT ![f] = c] /\ UNCHANGED flags
    BY <1>1 DEF Arrive, HeldMail, Uids
<1>4. c = [modseqs |-> b.modseqs, validity |-> b.validity, next |-> b.next + 1,
           modseq |-> b.modseq + 1, held |-> held]
  <2>1. b \in Box
      BY <1>2 DEF BoxSound
  <2>2. PICK n, q : n = b.next + 1 /\ q = b.modseq + 1
      OBVIOUS
  <2> HIDE DEF held
  <2>3. c = [b EXCEPT !.next = n, !.modseq = q, !.held = held]
      BY <2>2
  <2> HIDE DEF c
  <2> QED BY <2>1, <2>2, <2>3, BoxWritten
<1>5. /\ DOMAIN held = DOMAIN b.held \union {b.next}
      /\ \A u \in DOMAIN held : held[u] = row(u)
    OBVIOUS
<1>6. /\ b.validity \in 1..MaxValidity /\ b.next \in 1..(MaxUid + 1) /\ b.modseqs \in BOOLEAN
      /\ b.next \in Nat /\ b.modseq \in Nat /\ b.validity \in Nat
      /\ \A u \in DOMAIN b.held :
            /\ u \in 1..MaxUid /\ u \in Nat /\ u < b.next
            /\ b.held[u] \in [mail : Mail, modseq : Nat \ {0}]
            /\ b.held[u].modseq \in Nat /\ b.held[u].modseq <= b.modseq
    BY <1>2, BoxParts
<1> HIDE DEF held, c
<1>7. BoxSound(c)
  <2>1. \A u \in DOMAIN held : /\ u \in 1..MaxUid /\ u < b.next + 1
                               /\ held[u] \in [mail : Mail, modseq : Nat \ {0}]
                               /\ held[u].modseq <= b.modseq + 1
    <3>1. MaxUid \in Nat
        BY ServerAssumption
    <3> QED BY <1>3, <1>5, <1>6, <3>1
  <2>2. b.next + 1 \in 1..(MaxUid + 1)
      BY <1>3, <1>6, ServerAssumption
  <2>3. b.modseq + 1 \in Nat \ {0}
      BY <1>6
  <2>4. held \in [DOMAIN held -> [mail : Mail, modseq : Nat \ {0}]]
    <3>1. held = [u \in DOMAIN held |-> held[u]]
        BY DEF held
    <3> HIDE DEF row
    <3> QED BY <2>1, <3>1
  <2>5. c \in Box
      BY <1>4, <1>6, <2>1, <2>2, <2>3, <2>4, BoxType
  <2>6. \A u, v \in DOMAIN held : held[u].mail = held[v].mail => u = v
    <3>1. \A u, v \in DOMAIN b.held : b.held[u].mail = b.held[v].mail => u = v
        BY <1>2 DEF BoxSound
    <3> QED BY <1>3, <1>5, <3>1
  <2> QED BY <1>4, <2>1, <2>5, <2>6 DEF BoxSound
<1>8. BoxFollows(b, c)
    BY <1>4, <1>5, <1>6 DEF BoxFollows
<1>9. DOMAIN box' = FolderRef /\ box'[f] = c /\ \A g \in FolderRef \ {f} : box'[g] = box[g]
    BY <1>3 DEF ServerTypes
<1> QED BY <1>1, <1>3, <1>7, <1>8, <1>9, OneBoxMoves

\* A message goes, perhaps uncounted.
LEMMA ExpungeMoves ==
    ASSUME ServerTypes, NEW f \in FolderRef, NEW uid \in Uids(f), Expunge(f, uid)
    PROVE  ServerTypes' /\ ServerMoves
<1>1. PICK b : b = box[f]
    OBVIOUS
<1>2. BoxSound(b)
    BY <1>1 DEF ServerTypes
<1> DEFINE held == [u \in DOMAIN b.held \ {uid} |-> b.held[u]]
           c == [b EXCEPT !.held = held]
<1>3. /\ box' = [box EXCEPT ![f] = c] /\ UNCHANGED flags
  <2>1. box' = [box EXCEPT ![f].held = Restrict(@, DOMAIN @ \ {uid})] /\ UNCHANGED flags
      BY DEF Expunge
  <2>2. Restrict(b.held, DOMAIN b.held \ {uid}) = held
      BY DEF Restrict
  <2> QED BY <1>1, <2>1, <2>2
<1>4. c = [modseqs |-> b.modseqs, validity |-> b.validity, next |-> b.next,
           modseq |-> b.modseq, held |-> held]
  <2>1. b = [modseqs |-> b.modseqs, validity |-> b.validity, next |-> b.next,
             modseq |-> b.modseq, held |-> b.held]
      BY <1>2, BoxType DEF BoxSound
  <2> HIDE DEF held
  <2> QED BY <2>1
<1>5. /\ DOMAIN held \subseteq DOMAIN b.held
      /\ \A u \in DOMAIN held : held[u] = b.held[u]
      /\ held = [u \in DOMAIN held |-> held[u]]
    OBVIOUS
<1> HIDE DEF held, c
<1>6. BoxSound(c)
  <2>1. c \in Box
    <3>1. b \in Box
        BY <1>2 DEF BoxSound
    <3>2. DOMAIN held \subseteq 1..MaxUid /\ held \in [DOMAIN held -> [mail : Mail, modseq : Nat \ {0}]]
        BY <1>5, <3>1, BoxType
    <3> QED BY <1>4, <3>1, <3>2, BoxType
  <2> QED BY <1>2, <1>4, <1>5, <2>1 DEF BoxSound
<1>7. BoxFollows(b, c)
    BY <1>2, <1>4, <1>5, BoxParts DEF BoxFollows
<1>8. DOMAIN box' = FolderRef /\ box'[f] = c /\ \A g \in FolderRef \ {f} : box'[g] = box[g]
    BY <1>3 DEF ServerTypes
<1> QED BY <1>1, <1>3, <1>6, <1>7, <1>8, OneBoxMoves

\* The folder is numbered anew.
LEMMA RenumberMoves ==
    ASSUME ServerTypes, NEW f \in FolderRef, Renumber(f)
    PROVE  ServerTypes' /\ ServerMoves
<1>1. PICK b : b = box[f]
    OBVIOUS
<1>2. BoxSound(b)
    BY <1>1 DEF ServerTypes
<1> DEFINE c == [b EXCEPT !.validity = @ + 1]
<1>3. b.validity < MaxValidity /\ box' = [box EXCEPT ![f] = c] /\ UNCHANGED flags
    BY <1>1 DEF Renumber
<1>4. c = [modseqs |-> b.modseqs, validity |-> b.validity + 1, next |-> b.next,
           modseq |-> b.modseq, held |-> b.held]
  <2>1. b = [modseqs |-> b.modseqs, validity |-> b.validity, next |-> b.next,
             modseq |-> b.modseq, held |-> b.held]
      BY <1>2, BoxType DEF BoxSound
  <2> QED BY <2>1
<1> HIDE DEF c
<1>5. b.validity + 1 \in 1..MaxValidity
    BY <1>2, <1>3, BoxParts, ServerAssumption
<1>6. BoxSound(c)
  <2>1. c \in Box
      BY <1>2, <1>4, <1>5, BoxType DEF BoxSound
  <2> QED BY <1>2, <1>4, <2>1 DEF BoxSound
<1>7. BoxFollows(b, c)
    BY <1>2, <1>4, BoxParts DEF BoxFollows
<1>8. DOMAIN box' = FolderRef /\ box'[f] = c /\ \A g \in FolderRef \ {f} : box'[g] = box[g]
    BY <1>3 DEF ServerTypes
<1> QED BY <1>1, <1>3, <1>6, <1>7, <1>8, OneBoxMoves

\* Flags set to a value: a message whose flag changed gets a new
\* mod-sequence wherever it is.
LEMMA SetFlagMoves ==
    ASSUME ServerTypes, NEW mails \in SUBSET Mail, NEW flag \in MessageFlag,
           NEW value \in BOOLEAN, SetFlag(mails, flag, value)
    PROVE  ServerTypes' /\ ServerMoves
<1> DEFINE changed == {m \in mails : flags[m][flag] # value}
           at(f) == {u \in Uids(f) : box[f].held[u].mail \in changed}
           modseq(f) == IF at(f) = {} THEN box[f].modseq ELSE box[f].modseq + 1
           row(f, u) == [box[f].held[u] EXCEPT !.modseq = modseq(f)]
           held(f) == [u \in Uids(f) |-> IF u \in at(f) THEN row(f, u) ELSE box[f].held[u]]
<1>1. /\ flags' = [m \in Mail |-> IF m \in mails THEN [flags[m] EXCEPT ![flag] = value]
                                  ELSE flags[m]]
      /\ box' = [f \in FolderRef |-> BoxAfterFlag(f, changed)]
    BY DEF SetFlag
<1>2. flags' \in [Mail -> Flags]
    BY <1>1 DEF ServerTypes, Flags
<1>3. \A m \in Mail : m \notin changed => flags'[m] = flags[m]
    BY <1>1 DEF ServerTypes, Flags
<1>4. ASSUME NEW f \in FolderRef
      PROVE  /\ BoxSound(box'[f]) /\ BoxFollows(box[f], box'[f])
             /\ \A u \in Uids(f)' : box'[f].held[u].modseq <= box[f].modseq =>
                   FlagsAt(f, u)' = FlagsAt(f, u)
  <2>1. BoxSound(box[f])
      BY DEF ServerTypes
  <2>2. box'[f] = [box[f] EXCEPT !.modseq = modseq(f), !.held = held(f)]
    <3>1. box'[f] = BoxAfterFlag(f, changed)
        BY <1>1
    <3> QED BY <3>1 DEF BoxAfterFlag
  <2>3. box'[f] = [modseqs |-> box[f].modseqs, validity |-> box[f].validity,
                   next |-> box[f].next, modseq |-> modseq(f), held |-> held(f)]
    <3>1. box[f] \in Box
        BY <2>1 DEF BoxSound
    <3> HIDE DEF modseq, held
    <3> QED BY <2>2, <3>1, BoxWritten
  <2>4. /\ box[f].modseq \in Nat /\ box[f].modseq # 0
        /\ box[f].validity \in Nat /\ box[f].next \in Nat
        /\ \A u \in Uids(f) :
              /\ box[f].held[u] \in [mail : Mail, modseq : Nat \ {0}]
              /\ box[f].held[u].mail \in Mail
              /\ box[f].held[u].modseq \in Nat /\ box[f].held[u].modseq <= box[f].modseq
      BY <2>1, BoxParts DEF Uids
  <2>5. modseq(f) \in Nat \ {0} /\ box[f].modseq <= modseq(f)
      BY <2>4
  <2>6. \A u \in at(f) : modseq(f) = box[f].modseq + 1
      OBVIOUS
  <2>7. ASSUME NEW u \in Uids(f)
        PROVE  /\ held(f)[u] \in [mail : Mail, modseq : Nat \ {0}]
               /\ held(f)[u].mail = box[f].held[u].mail
               /\ held(f)[u].modseq = IF u \in at(f) THEN modseq(f) ELSE box[f].held[u].modseq
               /\ u \notin at(f) => held(f)[u] = box[f].held[u]
    <3>1. held(f)[u] = IF u \in at(f) THEN row(f, u) ELSE box[f].held[u]
        OBVIOUS
    <3>2. row(f, u) = [mail |-> box[f].held[u].mail, modseq |-> modseq(f)]
      <4> HIDE DEF modseq
      <4> QED BY <2>4
    <3> HIDE DEF modseq, at, row, held
    <3> QED BY <2>4, <2>5, <3>1, <3>2
  <2>8. DOMAIN held(f) = Uids(f) /\ held(f) = [u \in Uids(f) |-> held(f)[u]]
      OBVIOUS
  <2>9. at(f) \subseteq Uids(f) /\ \A u \in Uids(f) : u \in at(f) <=> box[f].held[u].mail \in changed
      OBVIOUS
  <2> HIDE DEF modseq, at, row, held, changed
  <2>10. box'[f].held = held(f) /\ box'[f].modseq = modseq(f) /\ Uids(f)' = Uids(f)
         /\ box'[f].modseqs = box[f].modseqs /\ box'[f].validity = box[f].validity
         /\ box'[f].next = box[f].next
      BY <2>3, <2>8 DEF Uids
  <2>11. \A u \in Uids(f) : held(f)[u].modseq <= modseq(f)
      BY <2>4, <2>5, <2>7
  <2>12. BoxSound(box'[f])
    <3>1. box[f] \in Box
        BY <2>1 DEF BoxSound
    <3>2. held(f) \in [Uids(f) -> [mail : Mail, modseq : Nat \ {0}]]
        BY <2>7, <2>8
    <3>3. box'[f] \in Box
        BY <2>3, <2>5, <2>8, <2>10, <3>1, <3>2, BoxType DEF Uids
    <3>4. \A u \in Uids(f) : u < box[f].next
        BY <2>1 DEF BoxSound, Uids
    <3>5. \A u, v \in Uids(f) : held(f)[u].mail = held(f)[v].mail => u = v
        BY <2>1, <2>7 DEF BoxSound, Uids
    <3> QED BY <2>8, <2>10, <2>11, <3>3, <3>4, <3>5 DEF BoxSound
  <2>13. ASSUME NEW u \in Uids(f), held(f)[u].modseq <= box[f].modseq
         PROVE  u \notin at(f)
      BY <2>4, <2>6, <2>7, <2>13
  <2>14. BoxFollows(box[f], box'[f])
    <3>1. /\ DOMAIN box'[f].held = Uids(f) /\ DOMAIN box[f].held = Uids(f)
        BY <2>8, <2>10 DEF Uids
    <3>2. \A u \in Uids(f) : held(f)[u].modseq <= box[f].modseq => held(f)[u] = box[f].held[u]
        BY <2>7, <2>13
    <3>3. \A u \in Uids(f) : /\ held(f)[u].mail = box[f].held[u].mail
                              /\ box[f].held[u].modseq <= held(f)[u].modseq
        BY <2>4, <2>5, <2>7
    <3> QED BY <2>4, <2>5, <2>10, <3>1, <3>2, <3>3 DEF BoxFollows
  <2>15. ASSUME NEW u \in Uids(f)', box'[f].held[u].modseq <= box[f].modseq
         PROVE  FlagsAt(f, u)' = FlagsAt(f, u)
    <3>1. u \in Uids(f) /\ u \notin at(f)
        BY <2>10, <2>13, <2>15
    <3>2. box[f].held[u].mail \notin changed /\ box[f].held[u].mail \in Mail
        BY <2>4, <2>9, <3>1
    <3> QED BY <1>3, <2>7, <2>10, <3>1, <3>2 DEF FlagsAt
  <2> QED BY <2>12, <2>14, <2>15
<1>5. DOMAIN box' = FolderRef
    BY <1>1
<1> HIDE DEF changed
<1> QED BY <1>2, <1>4, <1>5 DEF ServerTypes, ServerMoves

\* Every step moves the server's folders so, and the cycle's own command sets
\* a flag.
LEMMA MailMoves ==
    ASSUME ServerTypes, MailChanges
    PROVE  ServerTypes' /\ ServerMoves
<1>1. ASSUME NEW f \in FolderRef, NEW uid \in Uids(f), Expunge(f, uid)
      PROVE  ServerTypes' /\ ServerMoves
    BY <1>1, ExpungeMoves
<1>2. ASSUME NEW m \in Mail, NEW g \in MessageFlag, FlagElsewhere(m, g)
      PROVE  ServerTypes' /\ ServerMoves
  <2>1. PICK value \in BOOLEAN : value = ~flags[m][g]
      OBVIOUS
  <2>2. SetFlag({m}, g, value) /\ {m} \in SUBSET Mail
      BY <1>2, <2>1 DEF FlagElsewhere
  <2> QED BY <2>2, SetFlagMoves
<1> QED BY <1>1, <1>2, ArriveMoves, RenumberMoves DEF MailChanges

\* The mail a command's UIDs name.
LEMMA CommandMail ==
    ASSUME ServerTypes, cycle.folder \in FolderRef, NEW command
    PROVE  MailOf(command) \in SUBSET Mail
<1>1. BoxSound(box[cycle.folder])
    BY DEF ServerTypes
<1>2. \A u \in Uids(cycle.folder) : box[cycle.folder].held[u].mail \in Mail
    BY <1>1, BoxParts DEF Uids
<1> QED BY <1>2 DEF MailOf

LEMMA CommandMoves ==
    ASSUME ServerTypes, CycleTypes, SendCommand
    PROVE  ServerTypes' /\ ServerMoves
<1>1. Running
    BY DEF SendCommand, Running, Idle
<1>2. cycle.folder \in FolderRef /\ cycle.changes \subseteq PendingChange
    BY <1>1 DEF CycleTypes, CycleRecord
<1>3. PICK c \in cycle.changes :
         \E mails \in SUBSET MailOf(LowestUids(UidsPerCommand, SameChange(c))) :
            SetFlag(mails, c.flag, c.wanted)
    BY DEF SendCommand
<1>4. PICK flag \in MessageFlag, value \in BOOLEAN : flag = c.flag /\ value = c.wanted
    BY <1>2 DEF PendingChange
<1>5. PICK mails \in SUBSET Mail : SetFlag(mails, flag, value)
    BY <1>2, <1>3, <1>4, CommandMail
<1> QED BY <1>5, SetFlagMoves

-----------------------------------------------------------------------------
(* Identities, and what an opening returns.                                *)

\* One identity names one message, wherever it is in the account.
LEMMA SameIdentity ==
    ASSUME ServerTypes, NEW f \in FolderRef, NEW g \in FolderRef, f.account = g.account,
           NEW u \in Uids(f), NEW v \in Uids(g), IdentityAt(f, u) = IdentityAt(g, v)
    PROVE  box[f].held[u].mail = box[g].held[v].mail /\ FlagsAt(f, u) = FlagsAt(g, v)
<1>1. CASE OnGmail(f)
    BY <1>1 DEF IdentityAt, FlagsAt, OnGmail
<1>2. CASE ~OnGmail(f)
  <2>1. f.identity = g.identity /\ u = v
      BY <1>2 DEF IdentityAt, OnGmail
  <2>2. f = g
      BY <2>1 DEF FolderRef
  <2> QED BY <2>1, <2>2 DEF FlagsAt
<1> QED BY <1>1, <1>2

\* A folder gives each of its messages another identity.
LEMMA OneIdentity ==
    ASSUME ServerTypes, NEW f \in FolderRef,
           NEW u \in Uids(f), NEW v \in Uids(f), IdentityAt(f, u) = IdentityAt(f, v)
    PROVE  u = v
    BY SameIdentity DEF ServerTypes, BoxSound, Uids

LEMMA IdentityTypes ==
    ASSUME NumbersArePlaces, ServerTypes, NEW f \in FolderRef, NEW u \in Uids(f)
    PROVE  IdentityAt(f, u) \in MessageId /\ FlagsAt(f, u) \in Flags
<1>1. /\ box[f].held[u].mail \in Mail /\ u \in 1..MaxUid
      /\ box[f].validity \in 1..MaxValidity
    BY BoxParts DEF ServerTypes, Uids
<1>2. f.identity \in FolderId /\ f.account \in Account
    BY DEF FolderRef
<1> QED BY <1>1, <1>2 DEF NumbersArePlaces, IdentityAt, OnGmail, FlagsAt, ServerTypes

\* A folder's messages are counted.
LEMMA UidsFinite ==
    ASSUME ServerTypes, NEW f \in FolderRef
    PROVE  /\ IsFiniteSet(Uids(f)) /\ Cardinality(Uids(f)) \in 0..MaxUid
           /\ IsFiniteSet(IdentitiesIn(f))
           /\ Cardinality(IdentitiesIn(f)) = Cardinality(Uids(f))
<1>1. MaxUid \in Nat
    BY ServerAssumption
<1>2. Uids(f) \in SUBSET (1..MaxUid)
    BY BoxParts DEF ServerTypes, Uids
<1>3. IsFiniteSet(1..MaxUid) /\ Cardinality(1..MaxUid) = MaxUid
    BY <1>1, FS_Interval
<1>4. IsFiniteSet(Uids(f)) /\ Cardinality(Uids(f)) <= MaxUid
    BY <1>2, <1>3, FS_Subset
<1>5. Cardinality(Uids(f)) \in Nat
    BY <1>4, FS_CardinalityType
<1> DEFINE named == [u \in Uids(f) |-> IdentityAt(f, u)]
<1>6. named \in Surjection(Uids(f), IdentitiesIn(f))
    BY DEF Surjection, IdentitiesIn
<1>7. named \in Injection(Uids(f), IdentitiesIn(f))
  <2>1. named \in [Uids(f) -> IdentitiesIn(f)]
      BY DEF IdentitiesIn
  <2>2. \A u, v \in Uids(f) : named[u] = named[v] => u = v
      BY OneIdentity
  <2> QED BY <2>1, <2>2 DEF Injection, IsInjective
<1> HIDE DEF named
<1>8. /\ IsFiniteSet(IdentitiesIn(f))
      /\ Cardinality(IdentitiesIn(f)) = Cardinality(Uids(f))
    BY <1>4, <1>6, <1>7, FS_Surjection
<1> QED BY <1>1, <1>4, <1>5, <1>8

\* What an opening returns is of now.
LEMMA OpeningTypes ==
    ASSUME ServerTypes, NEW f \in FolderRef
    PROVE  Earlier(f, OpeningNumbers(f))
<1>1. /\ box[f].validity \in 1..MaxValidity /\ box[f].next \in 1..(MaxUid + 1)
      /\ box[f].modseq \in Nat /\ box[f].validity \in Nat /\ box[f].next \in Nat
    BY BoxParts DEF ServerTypes
<1>2. Cardinality(Uids(f)) \in 0..MaxUid
    BY UidsFinite
<1> QED BY <1>1, <1>2 DEF Earlier, OpeningNumbers, Numbers, NoModseq

\* The parts of numbers.
LEMMA NumbersParts ==
    ASSUME NEW p \in Numbers
    PROVE  /\ p = [uid_validity |-> p.uid_validity, message_count |-> p.message_count,
                   uid_next |-> p.uid_next, highest_modseq |-> p.highest_modseq]
           /\ p.uid_validity \in Nat /\ p.message_count \in Nat /\ p.uid_next \in Nat
           /\ p.highest_modseq \in Nat
           /\ p.uid_validity \in 1..MaxValidity /\ p.message_count \in 0..MaxUid
           /\ p.uid_next \in 1..(MaxUid + 1)
    BY ServerAssumption DEF Numbers

-----------------------------------------------------------------------------
(* What numbers prove, as the server's folders change.                     *)

\* A message that did not change since earlier numbers is as it was before
\* the step.
LEMMA UnchangedBefore ==
    ASSUME ServerTypes, ServerTypes', ServerMoves, NEW f \in FolderRef, NEW p, Earlier(f, p),
           NEW u \in Uids(f)', Unchanged(f, p, u)'
    PROVE  /\ u \in Uids(f) /\ Unchanged(f, p, u)
           /\ IdentityAt(f, u)' = IdentityAt(f, u) /\ FlagsAt(f, u)' = FlagsAt(f, u)
<1>1. PICK a, b : a = box[f] /\ b = box'[f]
    OBVIOUS
<1>2. BoxSound(a) /\ BoxSound(b) /\ BoxFollows(a, b)
    BY <1>1 DEF ServerTypes, ServerMoves
<1>3. u \in DOMAIN b.held /\ p.uid_validity = b.validity
      /\ b.held[u].modseq <= p.highest_modseq
    BY <1>1 DEF Uids, Unchanged
<1>4. /\ p.uid_validity \in Nat /\ p.highest_modseq \in Nat
      /\ p.uid_validity <= a.validity /\ p.highest_modseq <= a.modseq
    BY <1>1, NumbersParts DEF Earlier
<1>5. /\ a.validity \in Nat /\ a.modseq \in Nat /\ b.held[u].modseq \in Nat
      /\ a.validity <= b.validity /\ b.validity \in Nat
    BY <1>2, <1>3, BoxParts DEF BoxFollows
<1>6. a.validity = b.validity /\ b.held[u].modseq <= a.modseq
    BY <1>3, <1>4, <1>5
<1>7. u \in DOMAIN a.held /\ b.held[u] = a.held[u]
    BY <1>2, <1>3, <1>6 DEF BoxFollows
<1>8. FlagsAt(f, u)' = FlagsAt(f, u)
    BY <1>1, <1>6 DEF ServerMoves
<1> QED BY <1>1, <1>3, <1>6, <1>7, <1>8 DEF Uids, Unchanged, IdentityAt

\* No message arrived since earlier numbers: none did in the step.
LEMMA NoneArrivedBefore ==
    ASSUME ServerTypes, ServerTypes', ServerMoves, NEW f \in FolderRef, NEW p, Earlier(f, p),
           NoneArrived(f, p)'
    PROVE  /\ NoneArrived(f, p) /\ Uids(f)' \subseteq Uids(f)
           /\ IdentitiesIn(f)' \subseteq IdentitiesIn(f)
<1>1. PICK a, b : a = box[f] /\ b = box'[f]
    OBVIOUS
<1>2. BoxSound(a) /\ BoxSound(b) /\ BoxFollows(a, b)
    BY <1>1 DEF ServerTypes, ServerMoves
<1>3. p.uid_validity = b.validity /\ p.uid_next = b.next
    BY <1>1 DEF NoneArrived
<1>4. /\ p.uid_validity <= a.validity /\ p.uid_next <= a.next
      /\ p.uid_validity \in Nat /\ p.uid_next \in Nat
    BY <1>1, NumbersParts DEF Earlier
<1>5. /\ a.validity \in Nat /\ a.next \in Nat /\ b.validity \in Nat /\ b.next \in Nat
      /\ a.validity <= b.validity /\ a.next <= b.next
    BY <1>2, BoxParts DEF BoxFollows
<1>6. a.validity = b.validity /\ a.next = b.next
    BY <1>3, <1>4, <1>5
<1>7. DOMAIN b.held \subseteq DOMAIN a.held
      /\ \A u \in DOMAIN b.held : b.held[u].mail = a.held[u].mail
    BY <1>2, <1>6 DEF BoxFollows
<1>8. NoneArrived(f, p) /\ Uids(f)' \subseteq Uids(f)
    BY <1>1, <1>3, <1>6, <1>7 DEF NoneArrived, Uids
<1>9. \A u \in Uids(f)' : IdentityAt(f, u)' = IdentityAt(f, u)
    BY <1>1, <1>6, <1>7 DEF IdentityAt, Uids
<1> QED BY <1>8, <1>9 DEF IdentitiesIn

LEMMA EarlierStays ==
    ASSUME ServerTypes, ServerTypes', ServerMoves, NEW f \in FolderRef, NEW p, Earlier(f, p)
    PROVE  Earlier(f, p)'
<1>1. PICK a, b : a = box[f] /\ b = box'[f]
    OBVIOUS
<1>2. BoxSound(a) /\ BoxSound(b) /\ BoxFollows(a, b)
    BY <1>1 DEF ServerTypes, ServerMoves
<1>3. /\ a.validity \in Nat /\ a.next \in Nat /\ b.validity \in Nat /\ b.next \in Nat
      /\ a.modseq \in Nat /\ b.modseq \in Nat
      /\ a.validity <= b.validity /\ a.next <= b.next /\ a.modseq <= b.modseq
    BY <1>2, BoxParts DEF BoxFollows
<1>4. p \in Numbers /\ p.uid_validity <= a.validity /\ p.uid_next <= a.next
      /\ p.highest_modseq <= a.modseq
    BY <1>1 DEF Earlier
<1>5. p.uid_validity \in Nat /\ p.uid_next \in Nat /\ p.highest_modseq \in Nat
    BY <1>4, NumbersParts
<1> QED BY <1>1, <1>3, <1>4, <1>5 DEF Earlier


-----------------------------------------------------------------------------
(* Steps that leave every folder's messages stored, and the state saved.   *)

\* The numbers that vouch for the messages of a folder: those saved, the
\* running cycle's own, and those its listing goes on from.
Vouches(f, p) ==
    \/ Synchronized(f) /\ p = SavedPlace(f)
    \/ Running /\ f = cycle.folder /\ p = cycle.numbers
    \/ Running /\ f = cycle.folder /\ cycle.phase \in Openings /\ p = Reference

KeepsAgreeing(f, p) ==
    \A u \in Uids(f)' :
        Unchanged(f, p, u)' /\ IdentityAt(f, u) \in HeldIn(store, f) /\ Agrees(f, u)
            => Agrees(f, u)'

\* Every folder holds what it held; what numbers prove of a flag stays so.
RowsStay ==
    /\ store'.folders = store.folders
    /\ \A f \in FolderRef : HeldIn(store, f)' = HeldIn(store, f)
    /\ \A f \in FolderRef, p \in Numbers : Vouches(f, p) => KeepsAgreeing(f, p)

LEMMA VouchesEarlier ==
    ASSUME SavedProves, CycleProves, NEW f \in FolderRef, NEW p, Vouches(f, p)
    PROVE  Earlier(f, p) /\ p \in Numbers
<1>1. Earlier(f, p)
  <2>1. CASE Synchronized(f) /\ p = SavedPlace(f)
      BY <2>1 DEF SavedProves
  <2>2. CASE Running /\ f = cycle.folder /\ p = cycle.numbers
      BY <2>2 DEF CycleProves
  <2>3. CASE Running /\ f = cycle.folder /\ cycle.phase \in Openings /\ p = Reference
      BY <2>3 DEF CycleProves, OpeningProves
  <2> QED BY <2>1, <2>2, <2>3 DEF Vouches
<1> QED BY <1>1 DEF Earlier

\* Rows with the flags they had show what they showed.
LEMMA SameRowsStay ==
    ASSUME ServerTypes, ServerTypes', ServerMoves, SavedProves, CycleProves,
           store'.folders = store.folders,
           \A f \in FolderRef : HeldIn(store, f)' = HeldIn(store, f),
           \A f \in FolderRef : \A id \in HeldIn(store, f) :
              StoredFlags(f, id)' = StoredFlags(f, id)
    PROVE  RowsStay
<1>1. ASSUME NEW f \in FolderRef, NEW p \in Numbers, Vouches(f, p)
      PROVE  KeepsAgreeing(f, p)
  <2> SUFFICES ASSUME NEW u \in Uids(f)', Unchanged(f, p, u)',
                      IdentityAt(f, u) \in HeldIn(store, f), Agrees(f, u)
               PROVE  Agrees(f, u)'
      BY DEF KeepsAgreeing
  <2>1. Earlier(f, p)
      BY <1>1, VouchesEarlier
  <2>2. IdentityAt(f, u)' = IdentityAt(f, u) /\ FlagsAt(f, u)' = FlagsAt(f, u)
      BY <2>1, UnchangedBefore
  <2>3. PICK id \in HeldIn(store, f) : id = IdentityAt(f, u)
      OBVIOUS
  <2>4. StoredFlags(f, id) = FlagsAt(f, u) /\ StoredFlags(f, id)' = StoredFlags(f, id)
      BY <2>3 DEF Agrees
  <2> QED BY <2>2, <2>3, <2>4 DEF Agrees
<1> QED BY <1>1 DEF RowsStay

\* What numbers prove outlives the server's changes and such a step.
LEMMA ProofRests ==
    ASSUME ServerTypes, ServerTypes', ServerMoves, RowsStay,
           NEW f \in FolderRef, NEW p, Earlier(f, p), Vouches(f, p),
           NEW missing, Proves(f, p, missing)
    PROVE  Proves(f, p, missing)'
<1>1. HeldIn(store, f)' = HeldIn(store, f) /\ KeepsAgreeing(f, p)
    BY DEF RowsStay, Earlier
<1>2. ProvesMessages(f, p, missing)'
    BY <1>1, NoneArrivedBefore DEF Proves, ProvesMessages
<1>3. ProvesFlags(f, p)'
  <2> SUFFICES ASSUME NEW u \in Uids(f)', Unchanged(f, p, u)',
                      IdentityAt(f, u)' \in HeldIn(store, f)'
               PROVE  Agrees(f, u)'
      BY DEF ProvesFlags
  <2>1. /\ u \in Uids(f) /\ Unchanged(f, p, u)
        /\ IdentityAt(f, u)' = IdentityAt(f, u)
      BY UnchangedBefore
  <2>2. IdentityAt(f, u) \in HeldIn(store, f)
      BY <1>1, <2>1
  <2>3. Agrees(f, u)
      BY <2>1, <2>2 DEF Proves, ProvesFlags
  <2> QED BY <1>1, <2>2, <2>3 DEF KeepsAgreeing
<1> QED BY <1>2, <1>3 DEF Proves

LEMMA SavedRests ==
    ASSUME ServerTypes, ServerTypes', ServerMoves, RowsStay, SavedProves
    PROVE  SavedProves'
<1> SUFFICES ASSUME NEW f \in FolderRef, Synchronized(f)'
             PROVE  (Earlier(f, SavedPlace(f)) /\ Proves(f, SavedPlace(f), {}))'
    BY DEF SavedProves
<1>1. PICK p : p = SavedPlace(f)
    OBVIOUS
<1>2. p = SavedPlace(f)' /\ Synchronized(f) /\ Vouches(f, p)
    BY <1>1 DEF RowsStay, SavedPlace, Synchronized, Vouches
<1>3. Earlier(f, p) /\ Proves(f, p, {})
    BY <1>1, <1>2 DEF SavedProves
<1>4. Earlier(f, p)' /\ Proves(f, p, {})'
    BY <1>2, <1>3, EarlierStays, ProofRests
<1> QED BY <1>2, <1>4

\* The cycle keeps its folder and its numbers.
SameNumbers ==
    Running /\ cycle'.folder = cycle.folder /\ cycle'.numbers = cycle.numbers

\* A message some numbers vouch for is as it was before the step.
LEMMA VouchedBefore ==
    ASSUME ServerTypes, ServerTypes', ServerMoves, SavedProves, CycleProves,
           store'.folders = store.folders, SameNumbers,
           NEW f \in FolderRef, NEW u \in Uids(f)', Vouched(f, u)'
    PROVE  /\ u \in Uids(f) /\ Vouched(f, u)
           /\ IdentityAt(f, u)' = IdentityAt(f, u) /\ FlagsAt(f, u)' = FlagsAt(f, u)
<1>1. PICK p, q, c : p = SavedPlace(f) /\ q = cycle.numbers /\ c = cycle.folder
    OBVIOUS
<1>2. /\ p = SavedPlace(f)' /\ q = cycle'.numbers /\ c = cycle'.folder
      /\ Synchronized(f)' <=> Synchronized(f)
    BY <1>1 DEF SavedPlace, Synchronized, SameNumbers
<1>3. CASE Synchronized(f)' /\ Unchanged(f, p, u)'
  <2>1. Earlier(f, p) /\ Synchronized(f)
      BY <1>1, <1>2, <1>3 DEF SavedProves
  <2>2. /\ u \in Uids(f) /\ Unchanged(f, p, u)
        /\ IdentityAt(f, u)' = IdentityAt(f, u) /\ FlagsAt(f, u)' = FlagsAt(f, u)
      BY <1>3, <2>1, UnchangedBefore
  <2> QED BY <1>1, <2>1, <2>2 DEF Vouched
<1>4. CASE f = c /\ Unchanged(f, q, u)'
  <2>1. Earlier(f, q)
      BY <1>1, <1>4 DEF CycleProves, SameNumbers
  <2>2. /\ u \in Uids(f) /\ Unchanged(f, q, u)
        /\ IdentityAt(f, u)' = IdentityAt(f, u) /\ FlagsAt(f, u)' = FlagsAt(f, u)
      BY <1>4, <2>1, UnchangedBefore
  <2> QED BY <1>1, <1>4, <2>2 DEF Vouched
<1> QED BY <1>2, <1>3, <1>4 DEF Vouched

\* What the server showed it still shows where that matters.
LEMMA ShowsRest ==
    ASSUME ServerTypes, ServerTypes', ServerMoves, SavedProves, CycleProves,
           store'.folders = store.folders, SameNumbers, NEW account, NEW id
    PROVE  /\ \A values : StillShows(account, id, values) => StillShows(account, id, values)'
           /\ \A flag, value : StillShowsFlag(account, id, flag, value)
                                  => StillShowsFlag(account, id, flag, value)'
<1>1. ASSUME NEW values, StillShows(account, id, values)
      PROVE  StillShows(account, id, values)'
  <2> SUFFICES ASSUME NEW g \in FolderRef, NEW u \in Uids(g)', g.account = account,
                      IdentityAt(g, u)' = id, Vouched(g, u)'
               PROVE  FlagsAt(g, u)' = values
      BY DEF StillShows
  <2> QED BY <1>1, VouchedBefore DEF StillShows
<1>2. ASSUME NEW flag, NEW value, StillShowsFlag(account, id, flag, value)
      PROVE  StillShowsFlag(account, id, flag, value)'
  <2> SUFFICES ASSUME NEW g \in FolderRef, NEW u \in Uids(g)', g.account = account,
                      IdentityAt(g, u)' = id, Vouched(g, u)'
               PROVE  FlagsAt(g, u)'[flag] = value
      BY DEF StillShowsFlag
  <2> QED BY <1>2, VouchedBefore DEF StillShowsFlag
<1> QED BY <1>1, <1>2

\* The history of the cycle's folder follows the server.
SeenGoesOn(f) ==
    \/ seen' = [steady |-> seen.steady \intersect IdentitiesIn(f)',
                ever   |-> seen.ever \union IdentitiesIn(f)',
                shown  |-> seen.shown \union FlagValues(f)']
    \/ UNCHANGED <<serverVars, seen>>

LEMMA WatchesRest ==
    ASSUME NEW f, Watches(f), SeenGoesOn(f)
    PROVE  Watches(f)' /\ seen'.steady \subseteq seen.steady /\ seen.shown \subseteq seen'.shown
<1>1. CASE UNCHANGED <<serverVars, seen>>
    BY <1>1 DEF Watches, serverVars, IdentitiesIn, IdentityAt, FlagValues, FlagsAt, Uids
<1>2. CASE seen' = [steady |-> seen.steady \intersect IdentitiesIn(f)',
                    ever   |-> seen.ever \union IdentitiesIn(f)',
                    shown  |-> seen.shown \union FlagValues(f)']
    BY <1>2 DEF Watches
<1> QED BY <1>1, <1>2 DEF SeenGoesOn

\* What the first pass left of the cycle.
FillStays ==
    \A i \in {"folder", "numbers", "listed", "complete", "missing", "fetched", "withheld"} :
        cycle'[i] = cycle[i]

LEMMA FillRests ==
    ASSUME ServerTypes, ServerTypes', ServerMoves, RowsStay, SavedProves, CycleProves,
           Running, FillStays, NEW f \in FolderRef, f = cycle.folder,
           seen.shown \subseteq seen'.shown, FillKeeps(f)
    PROVE  FillKeeps(f)'
<1>1. /\ SameNumbers /\ cycle'.listed = cycle.listed /\ cycle'.complete = cycle.complete
      /\ cycle'.missing = cycle.missing /\ cycle'.fetched = cycle.fetched
      /\ cycle'.withheld = cycle.withheld
    BY DEF FillStays, SameNumbers
<1>2. store'.folders = store.folders
    BY DEF RowsStay
<1>3. ASSUME NEW id \in DOMAIN cycle.listed
      PROVE  (StillShows(f.account, id, cycle.listed[id].flags)
              /\ WereShown(id, cycle.listed[id].flags))'
  <2>1. PICK values : values = cycle.listed[id].flags
      OBVIOUS
  <2>2. StillShows(f.account, id, values) /\ WereShown(id, values)
      BY <2>1 DEF FillKeeps
  <2>3. StillShows(f.account, id, values)'
      BY <1>1, <1>2, <2>2, ShowsRest
  <2>4. WereShown(id, values)'
      BY <2>2 DEF WereShown
  <2>5. values = cycle'.listed[id].flags
      BY <1>1, <2>1
  <2> QED BY <2>3, <2>4, <2>5
<1>4. (cycle.complete /\ ~cycle.withheld => Proves(f, cycle.numbers, cycle.missing))'
  <2> SUFFICES ASSUME cycle.complete, ~cycle.withheld
               PROVE  Proves(f, cycle.numbers, cycle.missing)'
      BY <1>1
  <2>1. PICK p, missing : p = cycle.numbers /\ missing = cycle.missing
      OBVIOUS
  <2>2. Proves(f, p, missing) /\ Vouches(f, p) /\ Earlier(f, p)
      BY <2>1 DEF FillKeeps, Vouches, CycleProves
  <2>3. Proves(f, p, missing)'
      BY <2>2, ProofRests
  <2> QED BY <1>1, <2>1, <2>3 DEF SameNumbers
<1>5. (cycle.fetched => ~Synchronized(f))' /\ (cycle.missing # {} => cycle.fetched)'
    BY <1>1, <1>2 DEF FillKeeps, Synchronized
<1> QED BY <1>1, <1>3, <1>4, <1>5 DEF FillKeeps

\* A change to be settled stays answered.
LEMMA AnsweredRests ==
    ASSUME ServerTypes, ServerTypes', ServerMoves, SavedProves, CycleProves,
           store'.folders = store.folders, SameNumbers,
           seen.shown \subseteq seen'.shown, NEW f, NEW c, Answered(f, c)
    PROVE  Answered(f, c)'
<1>1. StillShowsFlag(f.account, c.identity, c.flag, c.wanted)'
  <2>1. StillShowsFlag(f.account, c.identity, c.flag, c.wanted)
      BY DEF Answered
  <2> QED BY <2>1, ShowsRest
<1> QED BY <1>1 DEF Answered

\* An opening's numbers beside which something happens prove what they did.
LEMMA OpeningRests ==
    ASSUME ServerTypes, ServerTypes', ServerMoves, RowsStay, SavedProves, CycleProves,
           cycle.phase \in Openings, Running, cycle' = cycle,
           NEW f \in FolderRef, f = cycle.folder, OpeningProves(f),
           ReadFolderSync(store, f)' = ReadFolderSync(store, f),
           seen'.steady \subseteq seen.steady
    PROVE  OpeningProves(f)'
<1>1. PICK p, r : p = cycle.numbers /\ r = Reference
    OBVIOUS
<1>2. p = cycle'.numbers /\ r = Reference'
    BY <1>1 DEF Reference
<1>3. Earlier(f, p) /\ Earlier(f, r) /\ p \in Numbers
    BY <1>1 DEF OpeningProves, CycleProves, Earlier
<1>4. Earlier(f, r)'
    BY <1>3, EarlierStays
<1>5. ASSUME NoneArrived(f, p)'
      PROVE  Cardinality(Uids(f))' <= p.message_count
  <2>1. NoneArrived(f, p) /\ Uids(f)' \subseteq Uids(f)
      BY <1>3, <1>5, NoneArrivedBefore
  <2>2. PICK before, after : before = Uids(f) /\ after = Uids(f)'
      OBVIOUS
  <2>3. IsFiniteSet(before) /\ Cardinality(before) \in Nat
      BY <2>2, UidsFinite
  <2>4. after \in SUBSET before
      BY <2>1, <2>2
  <2>5. Cardinality(after) <= Cardinality(before) /\ IsFiniteSet(after)
      BY <2>3, <2>4, FS_Subset
  <2>6. Cardinality(after) \in Nat
      BY <2>5, FS_CardinalityType
  <2>7. Cardinality(before) <= p.message_count /\ p.message_count \in Nat
      BY <1>1, <1>3, <2>1, <2>2, NumbersParts DEF OpeningProves
  <2> QED BY <2>2, <2>3, <2>5, <2>6, <2>7
<1>6. ASSUME p.message_count = 0
      PROVE  seen'.steady = {} /\ \A u \in Uids(f)' : ~Unchanged(f, p, u)'
  <2>1. seen.steady = {} /\ \A u \in Uids(f) : ~Unchanged(f, p, u)
      BY <1>1, <1>6 DEF OpeningProves
  <2> QED BY <1>3, <2>1, UnchangedBefore
<1>7. ASSUME cycle.plan.lists # "Everything"
      PROVE  Proves(f, r, {})'
  <2>1. Proves(f, r, {}) /\ Vouches(f, r)
      BY <1>1, <1>7 DEF OpeningProves, Vouches
  <2> QED BY <1>3, <2>1, ProofRests
<1> QED BY <1>1, <1>2, <1>4, <1>5, <1>6, <1>7 DEF OpeningProves

\* Other clients, the user, and nothing at all.
LEMMA StepBesides ==
    ASSUME Types, SavedProves, CycleProves, ServerTypes', ServerMoves, RowsStay,
           cycle' = cycle, Running => SeenGoesOn(cycle.folder),
           \A f \in FolderRef : ReadFolderSync(store, f)' = ReadFolderSync(store, f)
    PROVE  SavedProves' /\ CycleProves'
<1>1. ServerTypes /\ SavedProves'
    BY SavedRests DEF Types
<1>2. CASE ~Running
    BY <1>1, <1>2 DEF CycleProves, Running
<1>3. CASE Running
  <2>1. PICK f \in FolderRef, p \in {cycle.numbers} : f = cycle.folder
      BY <1>3 DEF Types, CycleTypes, CycleRecord
  <2>2. SeenGoesOn(f)
    <3>1. IdentitiesIn(cycle.folder)' = IdentitiesIn(f)' /\ FlagValues(cycle.folder)' = FlagValues(f)'
        BY <2>1
    <3> QED BY <1>3, <2>1, <3>1 DEF SeenGoesOn
  <2>3. Watches(f)' /\ seen'.steady \subseteq seen.steady /\ seen.shown \subseteq seen'.shown
      BY <1>3, <2>1, <2>2, WatchesRest DEF CycleProves
  <2>4. Earlier(f, p)'
      BY <1>1, <1>3, <2>1, EarlierStays DEF CycleProves
  <2>5. cycle.phase \in Openings => OpeningProves(f)'
      BY <1>1, <1>3, <2>1, <2>3, OpeningRests DEF CycleProves
  <2>6. FillStays /\ SameNumbers /\ store'.folders = store.folders
      BY <1>3 DEF FillStays, SameNumbers, RowsStay
  <2>7. cycle.phase \in Fillings => FillKeeps(f)'
      BY <1>1, <1>3, <2>1, <2>3, <2>6, FillRests DEF CycleProves
  <2>8. ASSUME cycle.phase \in Fillings
        PROVE  ChangesProve(f)'
    <3>1. ChangesProve(f)
        BY <1>3, <2>1, <2>8 DEF CycleProves
    <3>2. \A c : Answered(f, c) => Answered(f, c)'
        BY <1>1, <2>3, <2>6, AnsweredRests
    <3> QED BY <3>1, <3>2 DEF ChangesProve
  <2> QED BY <1>1, <1>3, <2>1, <2>3, <2>4, <2>5, <2>7, <2>8 DEF CycleProves
<1> QED BY <1>2, <1>3

-----------------------------------------------------------------------------
(* The user and the other clients, beside the cycle.                       *)

\* A change of the user, and the end of those that were refused, leave what
\* the rows show of the server.
LEMMA WishTypes ==
    ASSUME StoreTypes,
           NEW account, NEW ids, NEW id \in MessageId, NEW flag \in MessageFlag,
           NEW value \in BOOLEAN,
           \/ store' = WritePendingFlag(store, account, id, flag, value)
           \/ store' = DropPendingFlags(store, account, ids, flag, value)
    PROVE  /\ StoreTypes' /\ store'.folders = store.folders
           /\ \A f \in FolderRef : HeldIn(store, f)' = HeldIn(store, f)
           /\ \A f \in FolderRef : \A i \in HeldIn(store, f) :
                 StoredFlags(f, i)' = StoredFlags(f, i)
<1>1. Kept(store)
    BY DEF StoreTypes
<1>2. /\ Kept(store') /\ store'.folders = store.folders
      /\ store'.memberships = store.memberships
      /\ SameServerFlags(store, store')
    BY <1>1, WishedRows, DroppedRows
<1>3. StoreTypes'
    BY <1>2 DEF StoreTypes
<1>4. \A f \in FolderRef : HeldIn(store, f)' = HeldIn(store, f)
    BY <1>2, SameMemberships
<1>5. \A f \in FolderRef : \A i \in HeldIn(store, f) :
         StoredFlags(f, i)' = StoredFlags(f, i)
    BY <1>1, <1>2, HeldIsStored DEF Kept, SameServerFlags, StoredFlags
<1> QED BY <1>2, <1>3, <1>4, <1>5

\* What a cycle would start from stays.
LEMMA FolderSyncStays ==
    ASSUME store'.folders = store.folders,
           \A f \in FolderRef : HeldIn(store, f)' = HeldIn(store, f),
           \A f \in FolderRef : \A i \in HeldIn(store, f) :
              StoredFlags(f, i)' = StoredFlags(f, i)
    PROVE  \A f \in FolderRef : ReadFolderSync(store, f)' = ReadFolderSync(store, f)
<1> SUFFICES ASSUME NEW f \in FolderRef
             PROVE  ReadFolderSync(store, f)' = ReadFolderSync(store, f)
    OBVIOUS
<1>1. PICK held : held = HeldIn(store, f)
    OBVIOUS
<1>2. held = HeldIn(store, f)'
    BY <1>1
<1>3. [i \in held |-> store'.messages[Key(f.account, i)].server]
        = [i \in held |-> store.messages[Key(f.account, i)].server]
  <2>1. \A i \in held : store'.messages[Key(f.account, i)].server
                          = store.messages[Key(f.account, i)].server
      BY <1>1 DEF StoredFlags
  <2> QED BY <2>1
<1> QED BY <1>1, <1>2, <1>3 DEF ReadFolderSync

LEMMA BesidesProves ==
    ASSUME Types, SavedProves, CycleProves, ServerTypes', ServerMoves,
           \/ MailChanges
           \/ \E key \in DOMAIN store.messages, flag \in MessageFlag, wanted \in BOOLEAN :
                 UserWishes(key, flag, wanted)
           \/ UNCHANGED vars
    PROVE  StoreTypes' /\ CycleTypes' /\ SavedProves' /\ CycleProves'
<1>1. cycle' = cycle
    BY DEF MailChanges, UserWishes, vars
<1>2. CycleTypes'
    BY <1>1 DEF Types, CycleTypes, CycleRecord, Running
<1>3. Running => SeenGoesOn(cycle.folder)
  <2>1. CASE MailChanges
      BY <2>1 DEF MailChanges, Watch, SeenGoesOn
  <2>2. CASE ~MailChanges
      BY <2>2 DEF UserWishes, vars, SeenGoesOn
  <2> QED BY <2>1, <2>2
<1>4. /\ StoreTypes' /\ store'.folders = store.folders
      /\ \A f \in FolderRef : HeldIn(store, f)' = HeldIn(store, f)
      /\ \A f \in FolderRef : \A i \in HeldIn(store, f) :
            StoredFlags(f, i)' = StoredFlags(f, i)
  <2>1. CASE store' = store
      BY <2>1 DEF Types, StoreTypes, StoredFlags
  <2>2. ASSUME NEW key \in DOMAIN store.messages, NEW flag \in MessageFlag,
               NEW wanted \in BOOLEAN, UserWishes(key, flag, wanted)
        PROVE  /\ StoreTypes' /\ store'.folders = store.folders
               /\ \A f \in FolderRef : HeldIn(store, f)' = HeldIn(store, f)
               /\ \A f \in FolderRef : \A i \in HeldIn(store, f) :
                     StoredFlags(f, i)' = StoredFlags(f, i)
    <3>1. key.identity \in MessageId
      <4>1. DOMAIN store.messages \subseteq MessageKey
          BY TablesType DEF Types, StoreTypes, Kept, Sound
      <4> QED BY <4>1 DEF MessageKey
    <3>2. PICK id \in MessageId, account \in {key.account} : id = key.identity
        BY <3>1
    <3>3. store' = WritePendingFlag(store, account, id, flag, wanted)
        BY <2>2, <3>2 DEF UserWishes
    <3> QED BY <3>3, WishTypes DEF Types
  <2>3. CASE MailChanges \/ UNCHANGED vars
      BY <2>1, <2>3 DEF MailChanges, vars
  <2> QED BY <2>2, <2>3
<1>5. RowsStay
    BY <1>4, SameRowsStay DEF Types
<1>6. \A f \in FolderRef : ReadFolderSync(store, f)' = ReadFolderSync(store, f)
    BY <1>4, FolderSyncStays
<1> QED BY <1>1, <1>2, <1>3, <1>4, <1>5, <1>6, StepBesides

-----------------------------------------------------------------------------
(* The commands and their answers.                                         *)

\* A step between the first pass and the second opening.
LEMMA FillStep ==
    ASSUME Types, SavedProves, CycleProves, ServerTypes', ServerMoves, RowsStay,
           Running, Running', cycle.phase \in Fillings, cycle'.phase \in Fillings, FillStays,
           SeenGoesOn(cycle.folder),
           \A f \in FolderRef : f = cycle.folder => ChangesProve(f)'
    PROVE  SavedProves' /\ CycleProves'
<1>1. ServerTypes /\ SavedProves'
    BY SavedRests DEF Types
<1>2. PICK f \in FolderRef, p \in {cycle.numbers} : f = cycle.folder
    BY DEF Types, CycleTypes, CycleRecord
<1>3. cycle'.folder = f /\ cycle'.numbers = p
    BY <1>2 DEF FillStays
<1>4. SeenGoesOn(f)
  <2>1. IdentitiesIn(cycle.folder)' = IdentitiesIn(f)' /\ FlagValues(cycle.folder)' = FlagValues(f)'
      BY <1>3
  <2> QED BY <1>2, <2>1 DEF SeenGoesOn
<1>5. Watches(f)' /\ seen'.steady \subseteq seen.steady /\ seen.shown \subseteq seen'.shown
    BY <1>2, <1>4, WatchesRest DEF CycleProves
<1>6. Earlier(f, p)'
    BY <1>1, <1>2, EarlierStays DEF CycleProves
<1>7. FillKeeps(f)'
    BY <1>1, <1>2, <1>5, FillRests DEF CycleProves
<1>8. ~(cycle'.phase \in Openings)
    BY DEF Openings, Fillings
<1> QED BY <1>1, <1>2, <1>3, <1>5, <1>6, <1>7, <1>8 DEF CycleProves

\* A cycle in one of these phases runs.
LEMMA PhasesRun ==
    ASSUME cycle.phase # "idle"
    PROVE  Running
    BY DEF Running, Idle

LEMMA CommandsAreChanges ==
    ASSUME NEW c
    PROVE  LET command == LowestUids(UidsPerCommand, SameChange(c)) IN
           /\ command \subseteq cycle.changes
           /\ \A d \in command : d.flag = c.flag /\ d.wanted = c.wanted
    BY DEF LowestUids, SameChange

LEMMA SendProves ==
    ASSUME Types, SavedProves, CycleProves, ServerTypes', ServerMoves, SendCommand
    PROVE  StoreTypes' /\ CycleTypes' /\ SavedProves' /\ CycleProves'
<1>1. cycle.phase = "sending" /\ Running /\ store' = store
    BY PhasesRun DEF SendCommand
<1>2. CycleRecord(cycle)
    BY <1>1 DEF Types, CycleTypes
<1>3. PICK command :
         /\ command \subseteq cycle.changes
         /\ \A c, d \in command : c.flag = d.flag /\ c.wanted = d.wanted
         /\ \/ cycle' = [cycle EXCEPT !.phase = "reading", !.changes = @ \ command,
                                      !.command = command, !.sent = SentWith(@, command)]
            \/ cycle' = [cycle EXCEPT !.phase = "refused", !.command = command]
            \/ cycle' = Idle
  <2>1. PICK c, command :
           /\ command = LowestUids(UidsPerCommand, SameChange(c))
           /\ \/ cycle' = [cycle EXCEPT !.phase = "reading", !.changes = @ \ command,
                                        !.command = command, !.sent = SentWith(@, command)]
              \/ cycle' \in {[cycle EXCEPT !.phase = "refused", !.command = command], Idle}
      BY Zenon DEF SendCommand
  <2>2. command \subseteq cycle.changes /\ \A d \in command : d.flag = c.flag /\ d.wanted = c.wanted
      BY <2>1, CommandsAreChanges
  <2> QED BY <2>1, <2>2
<1>4. StoreTypes' /\ RowsStay
  <2>1. StoreTypes'
      BY <1>1 DEF Types, StoreTypes
  <2> QED BY <1>1, <2>1, SameRowsStay DEF Types, StoredFlags
<1>5. CASE cycle' = Idle
    BY <1>4, <1>5, SavedRests DEF Types, CycleTypes, CycleProves, Running
<1>6. CASE cycle' # Idle
  <2>1. PICK changes, sent :
           /\ changes = cycle.changes \ command /\ sent = SentWith(cycle.sent, command)
      OBVIOUS
  <2>2. /\ cycle'.phase \in {"reading", "refused"} /\ cycle'.command = command
        /\ cycle'.changes \in {cycle.changes, changes}
        /\ cycle'.sent \in {cycle.sent, sent}
        /\ DOMAIN cycle' = CycleFields
        /\ \A i \in CycleFields \ {"phase", "changes", "sent", "command"} : cycle'[i] = cycle[i]
    <3>1. \/ cycle' = [cycle EXCEPT !.phase = "reading", !.changes = changes,
                                    !.command = command, !.sent = sent]
          \/ cycle' = [cycle EXCEPT !.phase = "refused", !.command = command]
        BY <1>3, <1>6, <2>1
    <3> QED BY <1>2, <3>1 DEF CycleRecord, CycleFields
  <2>3. sent \subseteq PendingChange /\ command \subseteq PendingChange
      BY <1>2, <1>3, <2>1 DEF CycleRecord, SentWith
  <2>4. CycleRecord(cycle') /\ Running'
    <3>1. cycle'.changes \subseteq PendingChange /\ cycle'.sent \subseteq PendingChange
        BY <1>2, <2>1, <2>2, <2>3 DEF CycleRecord
    <3> QED BY <1>2, <1>6, <2>2, <2>3, <3>1 DEF CycleRecord, CycleFields, Phases, Running
  <2>5. FillStays /\ cycle.phase \in Fillings /\ cycle'.phase \in Fillings
      BY <1>1, <2>2 DEF FillStays, CycleFields, Fillings
  <2>6. SeenGoesOn(cycle.folder)
    <3>1. Watch(cycle.folder)
        BY <2>2 DEF SendCommand
    <3> QED BY <1>1, <3>1 DEF Watch, SeenGoesOn
  <2>7. \A f \in FolderRef : ChangesProve(f)'
      BY <1>3, <2>2 DEF ChangesProve
  <2> QED BY <1>1, <1>4, <2>4, <2>5, <2>6, <2>7, FillStep DEF CycleTypes
<1> QED BY <1>5, <1>6

\* The changes the user wants of the folder's messages.
LEMMA PendingTypes ==
    ASSUME NEW s, Sound(s), NEW f \in FolderRef
    PROVE  ReadPendingChanges(s, f) \subseteq PendingChange
<1> SUFFICES ASSUME NEW i \in HeldIn(s, f), NEW flag \in MessageFlag,
                    NEW v \in s.messages[Key(f.account, i)].pending[flag]
             PROVE  [identity |-> i, flag |-> flag, wanted |-> v] \in PendingChange
    BY DEF ReadPendingChanges
<1>1. i \in MessageId /\ s.messages[Key(f.account, i)] \in MessageRow
    BY HeldIsStored
<1>2. s.messages[Key(f.account, i)].pending[flag] \in Wish
    BY <1>1 DEF MessageRow
<1>3. v \in BOOLEAN
    BY <1>2 DEF Wish
<1> QED BY <1>1, <1>3 DEF PendingChange

\* The listed messages: each by its one UID, with the flags it has now.
LEMMA IdentifyMeans ==
    ASSUME NumbersArePlaces, ServerTypes, NEW f \in FolderRef, NEW uids \in SUBSET Uids(f),
           NEW listed, listed = Identify(f, uids)
    PROVE  /\ \A u \in uids : IdentityAt(f, u) \in DOMAIN listed
           /\ DOMAIN listed \subseteq IdentitiesIn(f)
           /\ listed \in PartialFunctions(MessageId, [uid : 1..MaxUid, flags : Flags])
           /\ \A i \in DOMAIN listed : \E v \in uids :
                 IdentityAt(f, v) = i /\ listed[i].flags = FlagsAt(f, v)
<1> DEFINE at(i) == CHOOSE v \in uids : IdentityAt(f, v) = i
           ids == {IdentityAt(f, u) : u \in uids}
<1>1. listed = [i \in ids |-> [uid |-> at(i), flags |-> FlagsAt(f, at(i))]]
    BY DEF Identify
<1>2. DOMAIN listed = ids /\ listed = [i \in ids |-> listed[i]]
    BY <1>1
<1>3. ASSUME NEW i \in DOMAIN listed
      PROVE  \E v \in uids : IdentityAt(f, v) = i /\ listed[i] = [uid |-> v, flags |-> FlagsAt(f, v)]
  <2>1. at(i) \in uids /\ IdentityAt(f, at(i)) = i
      BY <1>2
  <2>2. listed[i] = [uid |-> at(i), flags |-> FlagsAt(f, at(i))]
      BY <1>1, <1>2
  <2> QED BY <2>1, <2>2
<1> HIDE DEF at
<1>4. \A i \in DOMAIN listed : \E v \in uids :
         IdentityAt(f, v) = i /\ listed[i].uid = v /\ listed[i].flags = FlagsAt(f, v)
  <2> SUFFICES ASSUME NEW i \in DOMAIN listed
               PROVE  \E v \in uids : /\ IdentityAt(f, v) = i /\ listed[i].uid = v
                                      /\ listed[i].flags = FlagsAt(f, v)
      OBVIOUS
  <2>1. PICK v \in uids : IdentityAt(f, v) = i /\ listed[i] = [uid |-> v, flags |-> FlagsAt(f, v)]
      BY <1>3
  <2>2. PICK values : values = FlagsAt(f, v)
      OBVIOUS
  <2>3. listed[i].uid = v /\ listed[i].flags = values
      BY <2>1, <2>2
  <2> QED BY <2>1, <2>2, <2>3
<1>5. DOMAIN listed \subseteq IdentitiesIn(f)
    BY <1>2 DEF IdentitiesIn
<1>6. listed \in PartialFunctions(MessageId, [uid : 1..MaxUid, flags : Flags])
  <2>1. \A u \in Uids(f) : /\ u \in 1..MaxUid
                           /\ IdentityAt(f, u) \in MessageId /\ FlagsAt(f, u) \in Flags
      BY BoxParts, IdentityTypes DEF ServerTypes, Uids
  <2>2. ASSUME NEW i \in DOMAIN listed
        PROVE  listed[i] \in [uid : 1..MaxUid, flags : Flags]
    <3>1. PICK v \in uids : listed[i] = [uid |-> v, flags |-> FlagsAt(f, v)]
        BY <1>3
    <3>2. PICK values : values = FlagsAt(f, v)
        OBVIOUS
    <3>3. v \in 1..MaxUid /\ values \in Flags
        BY <2>1, <3>2
    <3> QED BY <3>1, <3>2, <3>3
  <2>3. ids \subseteq MessageId
      BY <2>1
  <2> HIDE DEF ids
  <2>4. listed \in [ids -> [uid : 1..MaxUid, flags : Flags]]
      BY <1>2, <2>2
  <2> QED BY <1>2, <2>3, <2>4, PartialFunctionType
<1>7. \A u \in uids : IdentityAt(f, u) \in DOMAIN listed
    BY <1>2
<1> QED BY <1>4, <1>5, <1>6, <1>7

\* What is listed now the server shows in every folder of the account, and
\* has shown in this one.
LEMMA ListedIsNow ==
    ASSUME NumbersArePlaces, ServerTypes, NEW f \in FolderRef, NEW uids \in SUBSET Uids(f),
           NEW listed, listed = Identify(f, uids), NEW id \in DOMAIN listed,
           NEW g \in FolderRef, NEW v \in Uids(g), g.account = f.account,
           IdentityAt(g, v) = id
    PROVE  FlagsAt(g, v) = listed[id].flags
<1>1. \A i \in DOMAIN listed : \E u \in uids :
         IdentityAt(f, u) = i /\ listed[i].flags = FlagsAt(f, u)
    BY IdentifyMeans
<1>2. PICK u \in uids : IdentityAt(f, u) = id /\ listed[id].flags = FlagsAt(f, u)
    BY <1>1
<1>3. FlagsAt(f, u) = FlagsAt(g, v)
    BY <1>2, SameIdentity
<1> QED BY <1>2, <1>3

LEMMA ListedStillShows ==
    ASSUME NumbersArePlaces, ServerTypes, NEW f \in FolderRef, NEW uids \in SUBSET Uids(f),
           NEW listed, listed = Identify(f, uids), NEW id \in DOMAIN listed
    PROVE  /\ StillShows(f.account, id, listed[id].flags)
           /\ \A flag : StillShowsFlag(f.account, id, flag, listed[id].flags[flag])
    BY ListedIsNow DEF StillShows, StillShowsFlag

LEMMA ListedWereShown ==
    ASSUME NumbersArePlaces, ServerTypes, NEW f \in FolderRef, NEW uids \in SUBSET Uids(f),
           NEW listed, listed = Identify(f, uids), NEW id \in DOMAIN listed, Watches(f)
    PROVE  WereShown(id, listed[id].flags)
<1>1. \A i \in DOMAIN listed : \E u \in uids :
         IdentityAt(f, u) = i /\ listed[i].flags = FlagsAt(f, u)
    BY IdentifyMeans
<1>2. PICK u \in uids : IdentityAt(f, u) = id /\ listed[id].flags = FlagsAt(f, u)
    BY <1>1
<1>3. \A g \in MessageFlag : <<id, g, FlagsAt(f, u)[g]>> \in FlagValues(f)
    BY <1>2 DEF FlagValues
<1> QED BY <1>2, <1>3 DEF Watches, WereShown

\* A change whose value is listed now is answered.
LEMMA ListedAnswers ==
    ASSUME NumbersArePlaces, ServerTypes, NEW f \in FolderRef, NEW uids \in SUBSET Uids(f),
           Watches(f), NEW listed, listed = Identify(f, uids),
           NEW c \in PendingChange, c.identity \in DOMAIN listed,
           listed[c.identity].flags[c.flag] = c.wanted
    PROVE  Answered(f, c)
<1>1. WereShown(c.identity, listed[c.identity].flags)
    BY ListedWereShown
<1>2. c.flag \in MessageFlag
    BY DEF PendingChange
<1>3. StillShowsFlag(f.account, c.identity, c.flag, c.wanted)
    BY ListedStillShows
<1> QED BY <1>1, <1>2, <1>3 DEF Answered, WereShown

LEMMA ReadFlagsProves ==
    ASSUME NumbersArePlaces, Types, SavedProves, CycleProves, ServerTypes', ServerMoves,
           ReadFlags
    PROVE  StoreTypes' /\ CycleTypes' /\ SavedProves' /\ CycleProves'
<1>1. cycle.phase = "reading" /\ Running /\ store' = store /\ UNCHANGED <<serverVars, seen>>
    BY PhasesRun DEF ReadFlags
<1>2. CycleRecord(cycle)
    BY <1>1 DEF Types, CycleTypes
<1>3. PICK f \in FolderRef : f = cycle.folder
    BY <1>2 DEF CycleRecord
<1>4. PICK reported \in SUBSET Uids(f) :
         cycle' = [cycle EXCEPT !.phase = "confirming",
                                !.command = Confirmed(@, Identify(f, reported))]
    BY <1>3 DEF ReadFlags
<1>5. PICK listed, command : /\ listed = Identify(f, reported)
                             /\ command = Confirmed(cycle.command, listed)
    OBVIOUS
<1>6. /\ cycle'.phase = "confirming" /\ cycle'.command = command
      /\ DOMAIN cycle' = CycleFields
      /\ \A i \in CycleFields \ {"phase", "command"} : cycle'[i] = cycle[i]
    BY <1>2, <1>4, <1>5 DEF CycleRecord, CycleFields
<1>7. command \subseteq cycle.command /\ cycle.command \subseteq PendingChange
    BY <1>2, <1>5 DEF Confirmed, CycleRecord
<1>8. CycleRecord(cycle') /\ Running'
    BY <1>2, <1>6, <1>7 DEF CycleRecord, CycleFields, Phases, Running, Idle
<1>9. StoreTypes' /\ RowsStay
  <2>1. StoreTypes'
      BY <1>1 DEF Types, StoreTypes
  <2> QED BY <1>1, <2>1, SameRowsStay DEF Types, StoredFlags
<1>10. FillStays /\ cycle.phase \in Fillings /\ cycle'.phase \in Fillings
       /\ SeenGoesOn(cycle.folder)
    BY <1>1, <1>6 DEF FillStays, CycleFields, Fillings, SeenGoesOn
<1>11. SameNumbers /\ Watches(f)
    BY <1>1, <1>3, <1>6 DEF SameNumbers, CycleProves, CycleFields
<1>12. ASSUME NEW c \in command
       PROVE  Answered(f, c)'
  <2>1. /\ c \in PendingChange /\ c.identity \in DOMAIN listed
        /\ listed[c.identity].flags[c.flag] = c.wanted
      BY <1>5, <1>7 DEF Confirmed
  <2>2. Answered(f, c)
      BY <1>5, <1>11, <2>1, ListedAnswers DEF Types
  <2> QED BY <1>1, <1>11, <2>2, AnsweredRests DEF Types
<1>13. \A g \in FolderRef : g = cycle.folder => ChangesProve(g)'
  <2>1. \A c, d \in command : c.flag = d.flag /\ c.wanted = d.wanted
      BY <1>1, <1>7 DEF CycleProves, ChangesProve, Fillings
  <2> QED BY <1>3, <1>6, <1>12, <2>1 DEF ChangesProve
<1> QED BY <1>1, <1>8, <1>9, <1>10, <1>13, FillStep DEF CycleTypes

LEMMA PlanProves ==
    ASSUME Types, SavedProves, CycleProves, ServerTypes', ServerMoves, PlanChanges
    PROVE  StoreTypes' /\ CycleTypes' /\ SavedProves' /\ CycleProves'
<1>1. cycle.phase = "settling" /\ Running /\ store' = store /\ UNCHANGED <<serverVars, seen>>
    BY PhasesRun DEF PlanChanges
<1>2. CycleRecord(cycle) /\ cycle.folder \in FolderRef
    BY <1>1 DEF Types, CycleTypes, CycleRecord
<1>3. PICK changes :
         changes = {c \in ReadPendingChanges(store, cycle.folder) :
                       c.identity \in DOMAIN cycle.listed /\ c \notin cycle.sent}
    OBVIOUS
<1>4. /\ cycle'.phase = "sending" /\ cycle'.changes = changes
      /\ DOMAIN cycle' = CycleFields
      /\ \A i \in CycleFields \ {"phase", "changes"} : cycle'[i] = cycle[i]
    BY <1>2, <1>3 DEF PlanChanges, CycleRecord, CycleFields
<1>5. changes \subseteq PendingChange
    BY <1>2, <1>3, PendingTypes DEF Types, StoreTypes, Kept
<1>6. CycleRecord(cycle') /\ Running'
    BY <1>2, <1>4, <1>5 DEF CycleRecord, CycleFields, Phases, Running, Idle
<1>7. StoreTypes' /\ RowsStay
  <2>1. StoreTypes'
      BY <1>1 DEF Types, StoreTypes
  <2> QED BY <1>1, <2>1, SameRowsStay DEF Types, StoredFlags
<1>8. FillStays /\ cycle.phase \in Fillings /\ cycle'.phase \in Fillings
      /\ SeenGoesOn(cycle.folder)
    BY <1>1, <1>4 DEF FillStays, CycleFields, Fillings, SeenGoesOn
<1>9. \A g \in FolderRef : g = cycle.folder => ChangesProve(g)'
    BY <1>1, <1>4 DEF CycleProves, ChangesProve, CycleFields, Fillings
<1> QED BY <1>1, <1>6, <1>7, <1>8, <1>9, FillStep DEF CycleTypes

\* A value the server showed is settled: what numbers prove of a flag stays.
LEMMA SettledStay ==
    ASSUME Types, SavedProves, CycleProves, ServerTypes', ServerMoves, UNCHANGED serverVars,
           Running, cycle.phase \notin Openings,
           NEW account, NEW ids, NEW flag \in MessageFlag, NEW value \in BOOLEAN,
           store' = SettleFlags(store, account, ids, flag, value),
           \A id \in ids : StillShowsFlag(account, id, flag, value)
    PROVE  StoreTypes' /\ RowsStay
<1>1. Kept(store)
    BY DEF Types, StoreTypes
<1>2. PICK t : t = store'
    OBVIOUS
<1>3. /\ Kept(t) /\ t.folders = store.folders /\ t.memberships = store.memberships
      /\ DOMAIN t.messages = DOMAIN store.messages
      /\ ServerFlagSet(store, t, KeysOf(account, ids), flag, value)
    BY <1>1, <1>2, SettledRows
<1>4. StoreTypes'
    BY <1>2, <1>3 DEF Types, StoreTypes
<1>5. \A f \in FolderRef : HeldIn(store, f)' = HeldIn(store, f)
    BY <1>2, <1>3, SameMemberships
<1>6. ASSUME NEW f \in FolderRef, NEW p \in Numbers, Vouches(f, p),
             NEW u \in Uids(f)', Unchanged(f, p, u)', IdentityAt(f, u) \in HeldIn(store, f),
             Agrees(f, u)
      PROVE  Agrees(f, u)'
  <2>1. /\ u \in Uids(f) /\ Unchanged(f, p, u)
        /\ IdentityAt(f, u)' = IdentityAt(f, u) /\ FlagsAt(f, u)' = FlagsAt(f, u)
      BY <1>6 DEF serverVars, Uids, Unchanged, IdentityAt, FlagsAt
  <2>2. Vouched(f, u)
      BY <1>6, <2>1 DEF Vouches, Vouched
  <2>3. PICK id \in HeldIn(store, f), values \in {FlagsAt(f, u)} : id = IdentityAt(f, u)
      BY <1>6
  <2>4. values \in Flags /\ Key(f.account, id) \in DOMAIN store.messages
      BY <1>1, <2>1, <2>3, HeldIsStored, BoxParts
         DEF Types, ServerTypes, FlagsAt, Uids, Kept
  <2>5. store.messages[Key(f.account, id)].server = values
      BY <1>6, <2>3 DEF Agrees, StoredFlags
  <2>6. t.messages[Key(f.account, id)].server = values
    <3>1. CASE Key(f.account, id) \in KeysOf(account, ids)
      <4>1. id \in ids /\ f.account = account
          BY <3>1 DEF KeysOf, Key
      <4>2. StillShowsFlag(account, id, flag, value)
          BY <4>1
      <4>3. values[flag] = value
          BY <2>1, <2>2, <2>3, <4>1, <4>2 DEF StillShowsFlag
      <4>4. [values EXCEPT ![flag] = value] = values
          BY <2>4, <4>3 DEF Flags
      <4> QED BY <1>3, <2>4, <2>5, <3>1, <4>4 DEF ServerFlagSet
    <3>2. CASE Key(f.account, id) \notin KeysOf(account, ids)
        BY <1>3, <2>4, <2>5, <3>2 DEF ServerFlagSet
    <3> QED BY <3>1, <3>2
  <2>7. StoredFlags(f, id)' = values
      BY <1>2, <2>6 DEF StoredFlags
  <2> QED BY <2>1, <2>3, <2>7 DEF Agrees
<1> QED BY <1>2, <1>3, <1>4, <1>5, <1>6 DEF RowsStay, KeepsAgreeing

LEMMA EndChangesProves ==
    ASSUME Types, SavedProves, CycleProves, ServerTypes', ServerMoves,
           EndChangesTheListingShows
    PROVE  StoreTypes' /\ CycleTypes' /\ SavedProves' /\ CycleProves'
<1>1. cycle.phase = "settling" /\ Running /\ UNCHANGED <<serverVars, seen>>
    BY PhasesRun DEF EndChangesTheListingShows
<1>2. CycleRecord(cycle)
    BY <1>1 DEF Types, CycleTypes
<1>3. PICK f \in FolderRef : f = cycle.folder
    BY <1>2 DEF CycleRecord
<1>4. PICK c \in cycle.changes :
         /\ store' = SettleFlags(store, f.account, Identities(SameChange(c)), c.flag, c.wanted)
         /\ cycle' = [cycle EXCEPT !.changes = @ \ SameChange(c)]
    BY <1>3 DEF EndChangesTheListingShows
<1>5. PICK flag \in MessageFlag, value \in BOOLEAN : flag = c.flag /\ value = c.wanted
    BY <1>2 DEF CycleRecord, PendingChange
<1>6. \A d \in cycle.changes : Answered(f, d)
    BY <1>1, <1>3 DEF CycleProves, ChangesProve, Fillings
<1>7. \A id \in Identities(SameChange(c)) : StillShowsFlag(f.account, id, flag, value)
    BY <1>5, <1>6 DEF Identities, SameChange, Answered
<1>8. StoreTypes' /\ RowsStay
  <2>1. store' = SettleFlags(store, f.account, Identities(SameChange(c)), flag, value)
      BY <1>4, <1>5
  <2>2. PICK account, ids : account = f.account /\ ids = Identities(SameChange(c))
      OBVIOUS
  <2>3. store' = SettleFlags(store, account, ids, flag, value)
        /\ \A id \in ids : StillShowsFlag(account, id, flag, value)
      BY <1>7, <2>1, <2>2
  <2>4. cycle.phase \notin Openings
      BY <1>1 DEF Openings
  <2> QED BY <1>1, <2>3, <2>4, SettledStay
<1>9. PICK changes : changes = cycle.changes \ SameChange(c)
    OBVIOUS
<1>10. /\ cycle'.changes = changes /\ DOMAIN cycle' = CycleFields
       /\ \A i \in CycleFields \ {"changes"} : cycle'[i] = cycle[i]
    BY <1>2, <1>4, <1>9 DEF CycleRecord, CycleFields
<1>11. CycleRecord(cycle') /\ Running'
    BY <1>1, <1>2, <1>9, <1>10 DEF CycleRecord, CycleFields, Running, Idle
<1>12. FillStays /\ cycle.phase \in Fillings /\ cycle'.phase \in Fillings
       /\ SeenGoesOn(cycle.folder) /\ SameNumbers
    BY <1>1, <1>10 DEF FillStays, CycleFields, Fillings, SeenGoesOn, SameNumbers
<1>13. \A g \in FolderRef : g = cycle.folder => ChangesProve(g)'
  <2>1. \A d \in changes : Answered(f, d)'
      BY <1>1, <1>6, <1>8, <1>9, <1>12, AnsweredRests DEF Types, RowsStay
  <2>2. ChangesProve(f)
      BY <1>1, <1>3 DEF CycleProves, Fillings
  <2> QED BY <1>1, <1>3, <1>10, <2>1, <2>2 DEF ChangesProve, CycleFields
<1> QED BY <1>1, <1>8, <1>11, <1>12, <1>13, FillStep DEF CycleTypes

LEMMA SettleProves ==
    ASSUME Types, SavedProves, CycleProves, ServerTypes', ServerMoves, SettleConfirmed
    PROVE  StoreTypes' /\ CycleTypes' /\ SavedProves' /\ CycleProves'
<1>1. cycle.phase = "confirming" /\ Running /\ UNCHANGED <<serverVars, seen>>
    BY PhasesRun DEF SettleConfirmed
<1>2. CycleRecord(cycle)
    BY <1>1 DEF Types, CycleTypes
<1>3. PICK f \in FolderRef : f = cycle.folder
    BY <1>2 DEF CycleRecord
<1>4. StoreTypes' /\ RowsStay
  <2>1. CASE store' = store
    <3>1. StoreTypes'
        BY <2>1 DEF Types, StoreTypes
    <3> QED BY <2>1, <3>1, SameRowsStay DEF Types, StoredFlags
  <2>2. CASE store' # store
    <3>1. PICK c \in cycle.command :
             store' = SettleFlags(store, f.account, Identities(cycle.command), c.flag, c.wanted)
        BY <1>3, <2>2 DEF SettleConfirmed
    <3>2. PICK flag \in MessageFlag, value \in BOOLEAN : flag = c.flag /\ value = c.wanted
        BY <1>2 DEF CycleRecord, PendingChange
    <3>3. PICK account, ids : account = f.account /\ ids = Identities(cycle.command)
        OBVIOUS
    <3>4. store' = SettleFlags(store, account, ids, flag, value)
        BY <3>1, <3>2, <3>3
    <3>5. ChangesProve(f)
        BY <1>1, <1>3 DEF CycleProves, Fillings
    <3>6. \A id \in ids : StillShowsFlag(account, id, flag, value)
        BY <1>1, <3>2, <3>3, <3>5 DEF ChangesProve, Identities, Answered
    <3>7. cycle.phase \notin Openings
        BY <1>1 DEF Openings
    <3> QED BY <1>1, <3>4, <3>6, <3>7, SettledStay
  <2> QED BY <2>1, <2>2
<1>5. /\ cycle'.phase = "sending" /\ cycle'.command = {} /\ DOMAIN cycle' = CycleFields
      /\ \A i \in CycleFields \ {"phase", "command"} : cycle'[i] = cycle[i]
    BY <1>2 DEF SettleConfirmed, CycleRecord, CycleFields
<1>6. CycleRecord(cycle') /\ Running'
    BY <1>2, <1>5 DEF CycleRecord, CycleFields, Phases, Running, Idle
<1>7. FillStays /\ cycle.phase \in Fillings /\ cycle'.phase \in Fillings
      /\ SeenGoesOn(cycle.folder)
    BY <1>1, <1>5 DEF FillStays, CycleFields, Fillings, SeenGoesOn
<1>8. \A g \in FolderRef : g = cycle.folder => ChangesProve(g)'
    BY <1>5 DEF ChangesProve
<1> QED BY <1>1, <1>4, <1>6, <1>7, <1>8, FillStep DEF CycleTypes

\* The cycle ends: a refused value is dropped, or nothing is written.
LEMMA EndProves ==
    ASSUME Types, SavedProves, CycleProves, ServerTypes', ServerMoves,
           DropRefused \/ Finish \/ EndEarly
    PROVE  StoreTypes' /\ CycleTypes' /\ SavedProves' /\ CycleProves'
<1>1. ~Running'
    BY DEF DropRefused, Finish, EndEarly, Running
<1>2. /\ StoreTypes' /\ store'.folders = store.folders
      /\ \A f \in FolderRef : HeldIn(store, f)' = HeldIn(store, f)
      /\ \A f \in FolderRef : \A i \in HeldIn(store, f) :
            StoredFlags(f, i)' = StoredFlags(f, i)
  <2>1. CASE store' = store
      BY <2>1 DEF Types, StoreTypes, StoredFlags
  <2>2. CASE DropRefused
    <3>1. CycleRecord(cycle)
        BY <2>2, PhasesRun DEF DropRefused, Types, CycleTypes
    <3>2. PICK c \in cycle.command :
             store' = DropPendingFlags(store, cycle.folder.account, Identities(cycle.command),
                                       c.flag, c.wanted)
        BY <2>2 DEF DropRefused
    <3>3. PICK id \in MessageId, flag \in MessageFlag, value \in BOOLEAN :
             id = c.identity /\ flag = c.flag /\ value = c.wanted
        BY <3>1 DEF CycleRecord, PendingChange
    <3>4. PICK account, ids : /\ account = cycle.folder.account
                              /\ ids = Identities(cycle.command)
        OBVIOUS
    <3>5. store' = DropPendingFlags(store, account, ids, flag, value)
        BY <3>2, <3>3, <3>4
    <3> QED BY <3>5, WishTypes DEF Types
  <2> QED BY <2>1, <2>2 DEF Finish, EndEarly
<1>3. RowsStay
    BY <1>2, SameRowsStay DEF Types
<1> QED BY <1>1, <1>2, <1>3, SavedRests DEF Types, CycleTypes, CycleProves

-----------------------------------------------------------------------------
(* The openings.                                                           *)

\* A listing is shortened only by a reference that differs from the opening's
\* numbers in the mod-sequence at most.
LEMMA PassPlanMeans ==
    ASSUME NEW p \in Numbers, NEW r, r = NoPlace \/ r \in Numbers, NEW pending,
           NEW plan, plan = PassPlan(p, r, pending)
    PROVE  /\ plan \in PassPlans
           /\ plan.lists # "Everything" =>
                 /\ r # NoPlace /\ r \in Numbers /\ plan.since = r.highest_modseq
                 /\ [p EXCEPT !.highest_modseq = plan.since] = r
           /\ plan.lists = "Everything" => plan.since = 0
           /\ plan.lists = "Nothing" => plan.since = p.highest_modseq
<1>1. CASE plan = [lists |-> "Everything", since |-> NoModseq]
    BY <1>1 DEF PassPlans, NoModseq
<1>2. CASE plan # [lists |-> "Everything", since |-> NoModseq]
  <2>1. /\ r # NoPlace
        /\ [p EXCEPT !.highest_modseq = NoModseq] = [r EXCEPT !.highest_modseq = NoModseq]
        /\ plan = [lists |-> IF p = r THEN "Nothing" ELSE "ChangedFlags",
                   since |-> r.highest_modseq]
      BY <1>2 DEF PassPlan
  <2>2. r \in Numbers
      BY <2>1
  <2>3. r.highest_modseq \in Nat
      BY <2>2, NumbersParts
  <2>4. plan \in PassPlans /\ plan.since = r.highest_modseq /\ plan.lists # "Everything"
        /\ (plan.lists = "Nothing" => p = r)
      BY <2>1, <2>3 DEF PassPlans
  <2>5. p.uid_validity = r.uid_validity /\ p.message_count = r.message_count
        /\ p.uid_next = r.uid_next
      BY <2>1, <2>2 DEF Numbers
  <2>6. [p EXCEPT !.highest_modseq = plan.since] = r
      BY <2>2, <2>4, <2>5 DEF Numbers
  <2> QED BY <2>1, <2>2, <2>4, <2>6
<1> QED BY <1>1, <1>2

\* What an opening returns proves of the folder as it is.
LEMMA OpeningCounts ==
    ASSUME ServerTypes, NEW f \in FolderRef, NEW p, p = OpeningNumbers(f)
    PROVE  /\ Cardinality(Uids(f)) <= p.message_count
           /\ p.message_count = 0 => Uids(f) = {} /\ IdentitiesIn(f) = {}
<1>1. IsFiniteSet(Uids(f)) /\ Cardinality(Uids(f)) \in 0..MaxUid
    BY UidsFinite
<1>2. p.message_count = Cardinality(Uids(f)) /\ MaxUid \in Nat
    BY ServerAssumption DEF OpeningNumbers
<1>3. Cardinality(Uids(f)) = 0 => Uids(f) = {}
    BY <1>1, FS_EmptySet
<1> QED BY <1>1, <1>2, <1>3 DEF IdentitiesIn

LEMMA OpeningStarts ==
    ASSUME NumbersArePlaces, ServerTypes, UNCHANGED <<serverVars, store>>,
           NEW f \in FolderRef, NEW r, r = NoPlace \/ r \in Numbers,
           r # NoPlace => Earlier(f, r) /\ Proves(f, r, {}), NEW pending,
           cycle'.numbers = OpeningNumbers(f),
           cycle'.plan = PassPlan(cycle'.numbers, r, pending),
           cycle'.stored = ReadFolderSync(store, f),
           seen'.steady \subseteq IdentitiesIn(f)
    PROVE  OpeningProves(f)' /\ Earlier(f, cycle.numbers)' /\ cycle'.plan \in PassPlans
<1>1. PICK p, plan : p = cycle'.numbers /\ plan = cycle'.plan
    OBVIOUS
<1>2. box' = box /\ flags' = flags /\ store' = store
    BY DEF serverVars
<1>3. p \in Numbers /\ Earlier(f, p) /\ p = OpeningNumbers(f) /\ plan = PassPlan(p, r, pending)
    BY <1>1, OpeningTypes DEF Earlier
<1>4. /\ plan \in PassPlans
      /\ plan.lists # "Everything" =>
            r # NoPlace /\ [p EXCEPT !.highest_modseq = plan.since] = r
      /\ plan.lists = "Everything" => plan.since = 0
      /\ plan.lists = "Nothing" => plan.since = p.highest_modseq
    BY <1>3, PassPlanMeans
<1>5. PICK reference : reference = [p EXCEPT !.highest_modseq = plan.since]
    OBVIOUS
<1>6. reference = Reference'
    BY <1>1, <1>5 DEF Reference
<1>7. Earlier(f, reference)
  <2>1. CASE plan.lists # "Everything"
      BY <1>4, <1>5, <2>1
  <2>2. CASE plan.lists = "Everything"
    <3>1. reference = [p EXCEPT !.highest_modseq = 0]
        BY <1>4, <1>5, <2>2
    <3>2. /\ reference \in Numbers /\ reference.uid_validity = p.uid_validity
          /\ reference.uid_next = p.uid_next /\ reference.highest_modseq = 0
        BY <1>3, <3>1 DEF Numbers
    <3>3. 0 <= box[f].modseq
        BY BoxParts DEF ServerTypes
    <3> QED BY <1>3, <3>2, <3>3 DEF Earlier
  <2> QED BY <2>1, <2>2
<1>8. plan.lists # "Everything" => Proves(f, reference, {})
    BY <1>4, <1>5
<1>9. Earlier(f, reference)' /\ Earlier(f, p)'
    BY <1>2, <1>3, <1>7 DEF Earlier
<1>10. plan.lists # "Everything" => Proves(f, reference, {})'
    BY <1>2, <1>8 DEF Proves, ProvesMessages, ProvesFlags, NoneArrived, IdentitiesIn, Uids,
                     IdentityAt, Unchanged, Agrees, StoredFlags, FlagsAt
<1>11. /\ Cardinality(Uids(f)) <= p.message_count
       /\ p.message_count = 0 => Uids(f) = {} /\ IdentitiesIn(f) = {}
    BY <1>3, OpeningCounts
<1>12. Cardinality(Uids(f))' <= p.message_count /\ Uids(f)' = Uids(f)
    BY <1>2, <1>11 DEF Uids
<1>13. p.message_count = 0 =>
          seen'.steady = {} /\ \A u \in Uids(f)' : ~Unchanged(f, p, u)'
    BY <1>11, <1>12
<1>14. cycle'.stored = ReadFolderSync(store, f)'
    BY <1>2
<1> QED BY <1>1, <1>4, <1>6, <1>9, <1>10, <1>12, <1>13, <1>14 DEF OpeningProves

LEMMA OpenProves ==
    ASSUME NumbersArePlaces, Types, SavedProves, CycleProves, ServerTypes', ServerMoves,
           NEW f \in FolderRef, Open(f)
    PROVE  StoreTypes' /\ CycleTypes' /\ SavedProves' /\ CycleProves'
<1>1. UNCHANGED <<serverVars, store>> /\ ~Running
    BY DEF Open
<1>2. PICK p, r, pending, plan, stored :
         /\ p = OpeningNumbers(f) /\ pending = ReadPendingChanges(store, f)
         /\ r = (IF Synchronized(f) THEN SavedPlace(f) ELSE NoPlace)
         /\ plan = PassPlan(p, r, pending # {})
         /\ stored = ReadFolderSync(store, f)
    OBVIOUS
<1>3. /\ cycle' = [phase |-> "opened", folder |-> f, numbers |-> p, plan |-> plan,
                   stored |-> stored, changes |-> pending, listed |-> NoRows,
                   complete |-> TRUE, missing |-> {}, fetched |-> FALSE, withheld |-> FALSE,
                   sent |-> {}, command |-> {}]
      /\ seen' = SeenAtOpening(f)
    BY <1>2 DEF Open, ReadFolderSync, Synchronized, SavedPlace
<1>4. r = NoPlace \/ r \in Numbers
    BY <1>2 DEF SavedProves, Earlier
<1>5. r # NoPlace => Earlier(f, r) /\ Proves(f, r, {})
    BY <1>2 DEF SavedProves
<1>6. OpeningProves(f)' /\ Earlier(f, p)' /\ plan \in PassPlans
  <2>1. /\ cycle'.numbers = OpeningNumbers(f)
        /\ cycle'.plan = PassPlan(cycle'.numbers, r, pending # {})
        /\ cycle'.stored = ReadFolderSync(store, f)
        /\ cycle'.numbers = p /\ cycle'.plan = plan
      BY <1>2, <1>3
  <2>2. seen'.steady \subseteq IdentitiesIn(f)
      BY <1>3 DEF SeenAtOpening
  <2>3. OpeningProves(f)' /\ Earlier(f, cycle.numbers)' /\ cycle'.plan \in PassPlans
      BY <1>1, <1>4, <1>5, <2>1, <2>2, OpeningStarts DEF Types
  <2> QED BY <2>1, <2>3
<1>7. Watches(f)'
    BY <1>1, <1>3 DEF Watches, SeenAtOpening, serverVars, IdentitiesIn, IdentityAt, FlagValues,
                      FlagsAt, Uids
<1>8. CycleRecord(cycle')
  <2>1. p \in Numbers
      BY <1>2, OpeningTypes DEF Types, Earlier
  <2>2. NoRows \in PartialFunctions(MessageId, [uid : 1..MaxUid, flags : Flags])
        /\ DOMAIN NoRows = {}
      BY PartialFunctionType DEF NoRows
  <2>3. pending \subseteq PendingChange
      BY <1>2, PendingTypes DEF Types, StoreTypes, Kept
  <2> QED BY <1>3, <1>6, <2>1, <2>2, <2>3 DEF CycleRecord, CycleFields, Phases
<1>9. StoreTypes' /\ SavedProves'
  <2>1. StoreTypes'
      BY <1>1 DEF Types, StoreTypes
  <2>2. RowsStay
      BY <1>1, SameRowsStay DEF Types, StoredFlags
  <2> QED BY <2>1, <2>2, SavedRests DEF Types
<1>10. Running' /\ cycle'.folder = f /\ cycle'.numbers = p /\ cycle'.phase = "opened"
    BY <1>3 DEF Running, Idle
<1>11. CycleProves'
  <2>1. ~(cycle'.phase \in Fillings)
      BY <1>10 DEF Fillings
  <2> QED BY <1>6, <1>7, <1>10, <2>1 DEF CycleProves
<1> QED BY <1>8, <1>9, <1>11 DEF CycleTypes

LEMMA ReopenProves ==
    ASSUME NumbersArePlaces, Types, SavedProves, CycleProves, ServerTypes', ServerMoves,
           Reopen
    PROVE  StoreTypes' /\ CycleTypes' /\ SavedProves' /\ CycleProves'
<1>1. /\ UNCHANGED <<serverVars, store>> /\ cycle.phase = "sending" /\ Running
      /\ ~cycle.withheld /\ cycle.missing = {}
    BY PhasesRun DEF Reopen, SentAll
<1>2. CycleRecord(cycle)
    BY <1>1 DEF Types, CycleTypes
<1>3. PICK f \in FolderRef : f = cycle.folder
    BY <1>2 DEF CycleRecord
<1>4. PICK p, r, plan, stored :
         /\ p = OpeningNumbers(f)
         /\ r = (IF cycle.complete THEN cycle.numbers ELSE NoPlace)
         /\ plan = PassPlan(p, r, FALSE)
         /\ stored = ReadFolderSync(store, f)
    OBVIOUS
<1>5. /\ cycle' = [cycle EXCEPT !.phase = "reopened", !.numbers = p, !.plan = plan,
                                !.stored = stored]
      /\ seen' = [SeenAtOpening(f) EXCEPT !.steady = seen.steady]
    BY <1>3, <1>4 DEF Reopen
<1>6. /\ cycle'.phase = "reopened" /\ cycle'.numbers = p /\ cycle'.plan = plan
      /\ cycle'.stored = stored /\ DOMAIN cycle' = CycleFields
      /\ \A i \in CycleFields \ {"phase", "numbers", "plan", "stored"} : cycle'[i] = cycle[i]
    BY <1>2, <1>5 DEF CycleRecord, CycleFields
<1>7. r = NoPlace \/ r \in Numbers
    BY <1>2, <1>4 DEF CycleRecord
<1>8. r # NoPlace => Earlier(f, r) /\ Proves(f, r, {})
  <2>1. FillKeeps(f) /\ Earlier(f, cycle.numbers)
      BY <1>1, <1>3 DEF CycleProves, Fillings
  <2> QED BY <1>1, <1>4, <2>1 DEF FillKeeps
<1>9. Watches(f)
    BY <1>1, <1>3 DEF CycleProves
<1>10. /\ seen'.steady = seen.steady /\ seen'.ever = IdentitiesIn(f)
       /\ seen'.shown = FlagValues(f)
    BY <1>5 DEF SeenAtOpening
<1>11. OpeningProves(f)' /\ Earlier(f, p)' /\ plan \in PassPlans
  <2>1. /\ cycle'.numbers = OpeningNumbers(f)
        /\ cycle'.plan = PassPlan(cycle'.numbers, r, FALSE)
        /\ cycle'.stored = ReadFolderSync(store, f)
      BY <1>4, <1>6
  <2>2. seen'.steady \subseteq IdentitiesIn(f)
      BY <1>9, <1>10 DEF Watches
  <2>3. OpeningProves(f)' /\ Earlier(f, cycle.numbers)' /\ cycle'.plan \in PassPlans
      BY <1>1, <1>7, <1>8, <2>1, <2>2, OpeningStarts DEF Types
  <2> QED BY <1>6, <2>3
<1>12. Watches(f)'
    BY <1>1, <1>9, <1>10 DEF Watches, serverVars, IdentitiesIn, IdentityAt, FlagValues,
                             FlagsAt, Uids
<1>13. CycleRecord(cycle')
  <2>1. p \in Numbers
      BY <1>4, OpeningTypes DEF Types, Earlier
  <2> QED BY <1>2, <1>6, <1>11, <2>1 DEF CycleRecord, CycleFields, Phases
<1>14. StoreTypes' /\ SavedProves'
  <2>1. StoreTypes'
      BY <1>1 DEF Types, StoreTypes
  <2>2. RowsStay
      BY <1>1, SameRowsStay DEF Types, StoredFlags
  <2> QED BY <2>1, <2>2, SavedRests DEF Types
<1>15. Running' /\ cycle'.folder = f
    BY <1>3, <1>6 DEF Running, Idle, CycleFields
<1>16. CycleProves'
  <2>1. ~(cycle'.phase \in Fillings)
      BY <1>6 DEF Fillings
  <2> QED BY <1>6, <1>11, <1>12, <1>15, <2>1 DEF CycleProves
<1> QED BY <1>13, <1>14, <1>16 DEF CycleTypes

-----------------------------------------------------------------------------
(* Batches.                                                                *)

\* What StoreBatchFlags asks of a batch, and the transaction.
Stores(f, batch) ==
    /\ batch \in FolderBatch
    /\ KeysOf(f.account, DOMAIN batch.known_arrived) \subseteq DOMAIN store.messages
    /\ batch.removed = {} \/ batch.known_arrived = NoRows
    /\ batch.removed \intersect DOMAIN batch.arrived = {}
    /\ store' = StoreBatch(store, f, batch)

\* Every flag the batch writes is one the server still shows.
WritesWhatShows(f, batch) ==
    /\ \A i \in DOMAIN batch.flag_states :
          StillShows(f.account, i, batch.flag_states[i])
    /\ \A i \in DOMAIN batch.arrived :
          StillShows(f.account, i, batch.arrived[i].flags)
    /\ \A i \in DOMAIN batch.known_arrived :
          StillShows(f.account, i, batch.known_arrived[i])

LEMMA BatchStores ==
    ASSUME StoreTypes, NEW f \in FolderRef, NEW batch, Stores(f, batch)
    PROVE  /\ StoreTypes'
           /\ \A g \in FolderRef :
                 g # f \/ batch.state = {} => store'.folders[g] = store.folders[g]
           /\ \A st \in batch.state : store'.folders[f] = st
           /\ HeldIn(store, f)' = (HeldIn(store, f) \ batch.removed)
                 \union DOMAIN batch.arrived \union DOMAIN batch.known_arrived
           /\ \A g \in FolderRef \ {f} : HeldIn(store, g)' = HeldIn(store, g)
           /\ \A g \in FolderRef : \A id \in HeldIn(store, g)' :
                 StoredFlags(g, id)' = FlagsAfter(store, f.account, batch, Key(g.account, id))
<1>1. PICK s, t, state : s = store /\ t = store' /\ state = batch.state
    OBVIOUS
<1>2. /\ Kept(s) /\ f \in DOMAIN s.folders /\ batch \in FolderBatch
      /\ KeysOf(f.account, DOMAIN batch.known_arrived) \subseteq DOMAIN s.messages
      /\ batch.removed = {} \/ batch.known_arrived = NoRows
      /\ batch.removed \intersect DOMAIN batch.arrived = {}
      /\ t = StoreBatch(s, f, batch)
    BY <1>1 DEF StoreTypes, Stores
<1>3. /\ Kept(t)
      /\ DOMAIN t.folders = DOMAIN s.folders
      /\ \A g \in DOMAIN s.folders : g # f \/ batch.state = {} => t.folders[g] = s.folders[g]
      /\ \A st \in batch.state : t.folders[f] = st
      /\ HeldIn(t, f) = (HeldIn(s, f) \ batch.removed)
            \union DOMAIN batch.arrived \union DOMAIN batch.known_arrived
      /\ OthersHoldTheSame(s, t, f)
      /\ \A k \in DOMAIN t.messages :
            /\ t.messages[k].server = FlagsAfter(s, f.account, batch, k)
            /\ k \notin DOMAIN s.messages => k \in KeysOf(f.account, DOMAIN batch.arrived)
    BY <1>2, StoreBatchFlags
<1>5. \A g \in FolderRef : \A id \in HeldIn(t, g) : Key(g.account, id) \in DOMAIN t.messages
    BY <1>3, HeldIsStored DEF Kept
<1>6. StoreTypes'
    BY <1>1, <1>3 DEF StoreTypes
<1>7. \A g \in FolderRef : \A id \in HeldIn(store, g)' :
         StoredFlags(g, id)' = FlagsAfter(store, f.account, batch, Key(g.account, id))
    BY <1>1, <1>3, <1>5 DEF StoredFlags
<1>8. \A g \in FolderRef : g # f \/ batch.state = {} => store'.folders[g] = store.folders[g]
    BY <1>1, <1>3 DEF StoreTypes
<1>9. \A st \in batch.state : store'.folders[f] = st
    BY <1>1, <1>3
<1>10. /\ HeldIn(store, f)' = (HeldIn(store, f) \ batch.removed)
             \union DOMAIN batch.arrived \union DOMAIN batch.known_arrived
       /\ \A g \in FolderRef \ {f} : HeldIn(store, g)' = HeldIn(store, g)
    BY <1>1, <1>3 DEF OthersHoldTheSame
<1> QED BY <1>6, <1>7, <1>8, <1>9, <1>10

\* A stored message some numbers vouch for agrees after the batch if it did
\* before, or if the batch writes its flags.
LEMMA BatchAgrees ==
    ASSUME StoreTypes, UNCHANGED serverVars, NEW f \in FolderRef, NEW batch,
           Stores(f, batch), WritesWhatShows(f, batch),
           NEW g \in FolderRef, NEW u \in Uids(g), Vouched(g, u),
           IdentityAt(g, u) \in HeldIn(store, g)',
           IdentityAt(g, u) \in HeldIn(store, g)
              => Agrees(g, u) \/ (g = f /\ IdentityAt(g, u) \in DOMAIN batch.flag_states)
    PROVE  Agrees(g, u)'
<1>1. PICK id, values, k :
         id = IdentityAt(g, u) /\ values = FlagsAt(g, u) /\ k = Key(g.account, id)
    OBVIOUS
<1>2. IdentityAt(g, u)' = id /\ FlagsAt(g, u)' = values
    BY <1>1 DEF serverVars, IdentityAt, FlagsAt
<1>3. /\ HeldIn(store, f)' = (HeldIn(store, f) \ batch.removed)
            \union DOMAIN batch.arrived \union DOMAIN batch.known_arrived
      /\ g # f => HeldIn(store, g)' = HeldIn(store, g)
      /\ StoredFlags(g, id)' = FlagsAfter(store, f.account, batch, k)
    BY <1>1, BatchStores
<1>4. k.identity = id /\ \A ids : k \in KeysOf(f.account, ids)
                                     <=> id \in ids /\ g.account = f.account
    BY <1>1 DEF KeysOf, Key
<1>5. \A shown : StillShows(f.account, id, shown) /\ g.account = f.account => shown = values
    BY <1>1 DEF StillShows
<1>6. FlagsAfter(store, f.account, batch, k) = values
  <2>1. CASE k \in KeysOf(f.account, DOMAIN batch.known_arrived)
      BY <1>4, <1>5, <2>1 DEF FlagsAfter, WritesWhatShows
  <2>2. CASE /\ k \notin KeysOf(f.account, DOMAIN batch.known_arrived)
             /\ k \in KeysOf(f.account, DOMAIN batch.arrived)
      BY <1>4, <1>5, <2>2 DEF FlagsAfter, WritesWhatShows
  <2>3. CASE /\ k \notin KeysOf(f.account, DOMAIN batch.known_arrived)
             /\ k \notin KeysOf(f.account, DOMAIN batch.arrived)
             /\ k \in KeysOf(f.account, DOMAIN batch.flag_states)
      BY <1>4, <1>5, <2>3 DEF FlagsAfter, WritesWhatShows
  <2>4. CASE /\ k \notin KeysOf(f.account, DOMAIN batch.known_arrived)
             /\ k \notin KeysOf(f.account, DOMAIN batch.arrived)
             /\ k \notin KeysOf(f.account, DOMAIN batch.flag_states)
    <3>1. id \in HeldIn(store, g)
        BY <1>1, <1>3, <1>4, <2>4
    <3>2. ~(g = f /\ id \in DOMAIN batch.flag_states)
        BY <1>4, <2>4
    <3>3. Agrees(g, u)
        BY <1>1, <3>1, <3>2
    <3>4. store.messages[k].server = values
        BY <1>1, <3>3 DEF Agrees, StoredFlags
    <3> QED BY <2>4, <3>4 DEF FlagsAfter
  <2> QED BY <2>1, <2>2, <2>3, <2>4
<1> QED BY <1>1, <1>2, <1>3, <1>6 DEF Agrees

\* What a batch leaves of the other folders' saved numbers.
LEMMA BatchOthers ==
    ASSUME StoreTypes, SavedProves, UNCHANGED serverVars, NEW f \in FolderRef, NEW batch,
           Stores(f, batch), WritesWhatShows(f, batch),
           NEW g \in FolderRef, g # f, Synchronized(g)'
    PROVE  (Earlier(g, SavedPlace(g)) /\ Proves(g, SavedPlace(g), {}))'
<1>1. PICK p : p = SavedPlace(g)
    OBVIOUS
<1>2. store'.folders[g] = store.folders[g] /\ HeldIn(store, g)' = HeldIn(store, g)
    BY BatchStores
<1>3. p = SavedPlace(g)' /\ Synchronized(g)
    BY <1>1, <1>2 DEF SavedPlace, Synchronized
<1>4. Earlier(g, p) /\ Proves(g, p, {})
    BY <1>1, <1>3 DEF SavedProves
<1>5. Earlier(g, p)' /\ ProvesMessages(g, p, {})'
    BY <1>2, <1>4 DEF serverVars, Earlier, Proves, ProvesMessages, NoneArrived, IdentitiesIn,
                      IdentityAt, Uids
<1>6. ProvesFlags(g, p)'
  <2> SUFFICES ASSUME NEW u \in Uids(g)', Unchanged(g, p, u)',
                      IdentityAt(g, u)' \in HeldIn(store, g)'
               PROVE  Agrees(g, u)'
      BY DEF ProvesFlags
  <2>1. u \in Uids(g) /\ Unchanged(g, p, u) /\ IdentityAt(g, u)' = IdentityAt(g, u)
      BY DEF serverVars, Uids, Unchanged, IdentityAt
  <2>2. Agrees(g, u) /\ Vouched(g, u)
      BY <1>1, <1>2, <1>3, <1>4, <2>1 DEF Proves, ProvesFlags, Vouched
  <2>3. IdentityAt(g, u) \in HeldIn(store, g)'
      BY <2>1
  <2> QED BY <2>1, <2>2, <2>3, BatchAgrees
<1> QED BY <1>3, <1>5, <1>6 DEF Proves

-----------------------------------------------------------------------------
(* The passes.                                                             *)

\* A listing ended, and its batch is stored.
Pass(f, reported, complete, listed) ==
    /\ Running /\ cycle.phase \in Openings /\ f = cycle.folder
    /\ reported \in SUBSET AskedUids(f, cycle.plan) /\ complete \in BOOLEAN
    /\ ListingEnds(reported, complete)
    /\ listed = Identify(f, reported)
    /\ store' = StoreBatch(store, f, StatePassBatch(listed, complete))
    /\ UNCHANGED <<serverVars, seen>>

\* What a listing leaves out.
LEMMA PassListed ==
    ASSUME Types, NEW f \in FolderRef, NEW reported, NEW complete, NEW listed,
           Pass(f, reported, complete, listed)
    PROVE  /\ reported \in SUBSET Uids(f)
           /\ cycle.plan.lists = "Nothing" \/ cycle.numbers.message_count = 0
                 => reported = {} /\ complete
           /\ complete /\ cycle.plan.lists = "ChangedFlags" /\ cycle.numbers.message_count # 0
                 => \A u \in Uids(f) :
                       box[f].held[u].modseq > cycle.plan.since => u \in reported
           /\ complete /\ cycle.plan.lists = "Everything" /\ cycle.numbers.message_count # 0
                 => reported = Uids(f)
<1>1. AskedUids(f, cycle.plan) \subseteq Uids(f)
  <2>1. cycle.plan.lists \in {"Nothing", "ChangedFlags", "Everything"}
      BY DEF Pass, Types, CycleTypes, CycleRecord, PassPlans
  <2> QED BY <2>1 DEF AskedUids
<1>2. ~(cycle.plan.lists = "Nothing" \/ cycle.numbers.message_count = 0) /\ complete
         => reported = AskedUids(f, cycle.plan)
    BY DEF Pass, ListingEnds
<1>3. cycle.plan.lists = "Nothing" \/ cycle.numbers.message_count = 0
         => reported = {} /\ complete
    BY DEF Pass, ListingEnds
<1>4. /\ cycle.plan.lists = "ChangedFlags" =>
            AskedUids(f, cycle.plan) = {u \in Uids(f) : box[f].held[u].modseq > cycle.plan.since}
      /\ cycle.plan.lists = "Everything" => AskedUids(f, cycle.plan) = Uids(f)
    BY DEF AskedUids
<1>5. reported \in SUBSET Uids(f)
    BY <1>1 DEF Pass
<1> QED BY <1>2, <1>3, <1>4, <1>5

\* The batch of a listing.
ListingBatch(f, listed, complete, batch) ==
    /\ batch.arrived = NoRows /\ batch.known_arrived = NoRows
    /\ complete /\ cycle.plan.lists = "Everything"
          => batch.removed = HeldIn(store, f) \ DOMAIN listed
    /\ ~(complete /\ cycle.plan.lists = "Everything") => batch.removed = {}
    /\ DOMAIN batch.flag_states \subseteq DOMAIN listed \intersect HeldIn(store, f)
    /\ \A i \in DOMAIN batch.flag_states : batch.flag_states[i] = listed[i].flags
    /\ \A i \in DOMAIN listed \intersect HeldIn(store, f) :
          i \notin DOMAIN batch.flag_states => StoredFlags(f, i) = listed[i].flags
    /\ DOMAIN listed \ HeldIn(store, f) # {} => batch.state = {NeverSynchronized}
    /\ DOMAIN listed \ HeldIn(store, f) = {} /\ batch.state # {} =>
          complete /\ batch.state = {[synchronized |-> TRUE, place |-> cycle.numbers]}
    /\ DOMAIN listed \ HeldIn(store, f) = {} /\ batch.state = {} =>
          ~complete \/ SavedPlace(f) = cycle.numbers

LEMMA PassBatchMeans ==
    ASSUME NumbersArePlaces, Types, CycleProves, NEW f \in FolderRef, NEW reported,
           NEW complete, NEW listed, Pass(f, reported, complete, listed),
           NEW batch, batch = StatePassBatch(listed, complete)
    PROVE  Stores(f, batch) /\ ListingBatch(f, listed, complete, batch)
<1>1. PICK held, stored, state, everything, p :
         /\ held = HeldIn(store, f) /\ state = store.folders[f] /\ p = cycle.numbers
         /\ stored = [i \in held |-> store.messages[Key(f.account, i)].server]
         /\ everything = (cycle.plan.lists = "Everything")
    OBVIOUS
<1>2. cycle.stored.stored = stored /\ cycle.stored.state = state
    BY <1>1 DEF Pass, CycleProves, OpeningProves, ReadFolderSync
<1>3. PICK told, flag_states, gone, written :
         /\ told = {j \in DOMAIN listed \intersect held : listed[j].flags # stored[j]}
         /\ flag_states = [i \in told |-> listed[i].flags]
         /\ gone = (IF complete /\ everything THEN held \ DOMAIN listed ELSE {})
         /\ written = PassState(state, p, complete, DOMAIN listed \ held # {})
    OBVIOUS
<1>4. batch = [removed |-> gone, flag_states |-> flag_states, arrived |-> NoRows,
               known_arrived |-> NoRows, state |-> written]
  <2>1. DOMAIN stored = held
      BY <1>1
  <2>2. ListingChanges(listed, stored, complete /\ everything)
           = [removed |-> gone, flag_states |-> flag_states, arrived |-> NoRows,
              known_arrived |-> NoRows, state |-> {}]
    <3>1. ListingChanges(listed, stored, complete /\ everything)
             = [EmptyBatch EXCEPT !.removed = gone, !.flag_states = flag_states]
        BY <1>3, <2>1 DEF ListingChanges
    <3> QED BY <3>1 DEF EmptyBatch
  <2>3. Missing(listed) = DOMAIN listed \ held
      BY <1>2, <2>1 DEF Missing
  <2>4. batch = [ListingChanges(listed, stored, complete /\ everything) EXCEPT !.state = written]
      BY <1>1, <1>2, <1>3, <2>3 DEF StatePassBatch
  <2> QED BY <2>2, <2>4
<1>5. /\ listed \in PartialFunctions(MessageId, [uid : 1..MaxUid, flags : Flags])
      /\ DOMAIN listed \subseteq MessageId
      /\ \A i \in DOMAIN listed : listed[i].flags \in Flags
  <2>1. reported \in SUBSET Uids(f)
      BY PassListed
  <2>2. listed = Identify(f, reported)
      BY DEF Pass
  <2>3. listed \in PartialFunctions(MessageId, [uid : 1..MaxUid, flags : Flags])
      BY <2>1, <2>2, IdentifyMeans DEF Types
  <2>4. DOMAIN listed \subseteq MessageId
        /\ listed \in [DOMAIN listed -> [uid : 1..MaxUid, flags : Flags]]
    <3>1. PICK T : T = [uid : 1..MaxUid, flags : Flags]
        OBVIOUS
    <3>2. listed \in PartialFunctions(MessageId, T)
        BY <2>3, <3>1
    <3>3. DOMAIN listed \subseteq MessageId /\ listed \in [DOMAIN listed -> T]
        BY <3>2, PartialFunctionType
    <3> QED BY <3>1, <3>3
  <2>5. ASSUME NEW i \in DOMAIN listed
        PROVE  listed[i].flags \in Flags
    <3>1. listed[i] \in [uid : 1..MaxUid, flags : Flags]
        BY <2>4
    <3> QED BY <3>1
  <2> QED BY <2>3, <2>4, <2>5
<1>6. batch \in FolderBatch
  <2>1. gone \subseteq MessageId
    <3>1. held \subseteq MessageId
        BY <1>1, TablesType DEF Types, StoreTypes, Kept, Sound, HeldIn, Membership, MessageKey
    <3> QED BY <1>3, <3>1
  <2>2. flag_states \in PartialFunctions(MessageId, Flags)
      BY <1>3, <1>5, PartialFunctionType
  <2>3. NoRows \in PartialFunctions(MessageId, Arrival)
        /\ NoRows \in PartialFunctions(MessageId, Flags)
      BY PartialFunctionType DEF NoRows
  <2>4. written \in {{}} \union {{st} : st \in FolderState}
    <3>1. p \in Place /\ NoPlace \in Place
        BY <1>1, NoPlaceAssumption DEF Pass, Types, CycleTypes, CycleRecord, NumbersArePlaces
    <3> QED BY <1>3, <3>1 DEF PassState, FolderState, NeverSynchronized
  <2> QED BY <1>4, <2>1, <2>2, <2>3, <2>4 DEF FolderBatch
<1>7. Stores(f, batch)
  <2>1. DOMAIN NoRows = {}
      BY DEF NoRows
  <2>2. KeysOf(f.account, {}) = {}
      BY DEF KeysOf
  <2>3. store' = StoreBatch(store, f, batch)
      BY DEF Pass
  <2> QED BY <1>4, <1>6, <2>1, <2>2, <2>3 DEF Stores
<1>8. \A i \in DOMAIN listed \intersect held :
         i \notin told => StoredFlags(f, i) = listed[i].flags
    BY <1>1, <1>3 DEF StoredFlags
<1>9. /\ batch.arrived = NoRows /\ batch.known_arrived = NoRows /\ batch.removed = gone
      /\ batch.flag_states = flag_states /\ batch.state = written
    BY <1>4
<1>10. /\ DOMAIN flag_states = told /\ told \subseteq DOMAIN listed \intersect held
       /\ \A i \in told : flag_states[i] = listed[i].flags
    BY <1>3
<1>11. /\ DOMAIN batch.flag_states \subseteq DOMAIN listed \intersect HeldIn(store, f)
       /\ \A i \in DOMAIN batch.flag_states : batch.flag_states[i] = listed[i].flags
       /\ \A i \in DOMAIN listed \intersect HeldIn(store, f) :
             i \notin DOMAIN batch.flag_states => StoredFlags(f, i) = listed[i].flags
    BY <1>1, <1>8, <1>9, <1>10
<1>12. /\ complete /\ cycle.plan.lists = "Everything"
             => batch.removed = HeldIn(store, f) \ DOMAIN listed
       /\ ~(complete /\ cycle.plan.lists = "Everything") => batch.removed = {}
    BY <1>1, <1>3, <1>9
<1>13. CASE DOMAIN listed \ held # {}
  <2>1. batch.state = {NeverSynchronized}
      BY <1>3, <1>9, <1>13 DEF PassState
  <2> QED BY <1>1, <1>7, <1>9, <1>11, <1>12, <1>13, <2>1 DEF ListingBatch
<1>14. CASE DOMAIN listed \ held = {}
  <2>1. batch.state = IF complete /\ ~(state.synchronized /\ state.place = p)
                      THEN {[synchronized |-> TRUE, place |-> p]} ELSE {}
      BY <1>3, <1>9, <1>14 DEF PassState
  <2>2. /\ batch.state # {} =>
              complete /\ batch.state = {[synchronized |-> TRUE, place |-> cycle.numbers]}
        /\ batch.state = {} => ~complete \/ SavedPlace(f) = cycle.numbers
      BY <1>1, <2>1 DEF SavedPlace
  <2> QED BY <1>1, <1>7, <1>9, <1>11, <1>12, <1>14, <2>2 DEF ListingBatch
<1> QED BY <1>13, <1>14

\* The folder holds what the listing leaves of it, and the batch writes what
\* the server shows.
LEMMA PassHolds ==
    ASSUME NumbersArePlaces, Types, CycleProves, NEW f \in FolderRef, NEW reported,
           NEW complete, NEW listed, Pass(f, reported, complete, listed),
           NEW batch, batch = StatePassBatch(listed, complete)
    PROVE  /\ HeldIn(store, f)' = HeldIn(store, f) \ batch.removed
           /\ StoreTypes' /\ Stores(f, batch) /\ WritesWhatShows(f, batch)
<1>1. /\ Stores(f, batch) /\ batch.arrived = NoRows /\ batch.known_arrived = NoRows
      /\ DOMAIN batch.flag_states \subseteq DOMAIN listed
      /\ \A i \in DOMAIN batch.flag_states : batch.flag_states[i] = listed[i].flags
    BY PassBatchMeans DEF ListingBatch
<1>2. DOMAIN NoRows = {}
    BY DEF NoRows
<1>3. HeldIn(store, f)' = HeldIn(store, f) \ batch.removed /\ StoreTypes'
    BY <1>1, <1>2, BatchStores DEF Types
<1>4. reported \in SUBSET Uids(f) /\ listed = Identify(f, reported)
    BY PassListed DEF Pass
<1>5. \A i \in DOMAIN listed : StillShows(f.account, i, listed[i].flags)
    BY <1>4, ListedStillShows DEF Types
<1>6. WritesWhatShows(f, batch)
    BY <1>1, <1>2, <1>5 DEF WritesWhatShows
<1> QED BY <1>1, <1>3, <1>6

\* A completed listing, stored, proves the messages but for the missing.
LEMMA PassProvesMessages ==
    ASSUME NumbersArePlaces, Types, CycleProves, NEW f \in FolderRef, NEW reported,
           NEW complete, NEW listed, Pass(f, reported, complete, listed),
           NEW p, p = cycle.numbers, NEW missing, missing = DOMAIN listed \ HeldIn(store, f)
    PROVE  complete => ProvesMessages(f, p, missing)'
<1>1. PICK batch : batch = StatePassBatch(listed, complete)
    OBVIOUS
<1>2. /\ HeldIn(store, f)' = HeldIn(store, f) \ batch.removed
      /\ complete /\ cycle.plan.lists = "Everything"
            => batch.removed = HeldIn(store, f) \ DOMAIN listed
      /\ cycle.plan.lists # "Everything" => batch.removed = {}
    BY <1>1, PassHolds, PassBatchMeans DEF ListingBatch
<1>3. box' = box
    BY DEF Pass, serverVars
<1>4. /\ reported \in SUBSET Uids(f) /\ listed = Identify(f, reported)
      /\ complete /\ cycle.plan.lists = "Everything" /\ p.message_count # 0
            => reported = Uids(f)
      /\ p.message_count = 0 => reported = {}
    BY PassListed DEF Pass
<1>5. /\ DOMAIN listed \subseteq IdentitiesIn(f)
      /\ \A u \in reported : IdentityAt(f, u) \in DOMAIN listed
      /\ reported = {} => DOMAIN listed = {}
    BY <1>4, IdentifyMeans DEF Types
<1>6. OpeningProves(f) /\ p \in Numbers
    BY DEF Pass, CycleProves, Types, CycleTypes, CycleRecord
<1>7. ASSUME complete, NoneArrived(f, p)
      PROVE  /\ IdentitiesIn(f) \subseteq HeldIn(store, f)' \union missing
             /\ IsFiniteSet(HeldIn(store, f)' \union missing)
             /\ Cardinality(HeldIn(store, f)' \union missing) <= p.message_count
  <2>1. Cardinality(Uids(f)) <= p.message_count
      BY <1>6, <1>7 DEF OpeningProves
  <2>2. /\ IsFiniteSet(Uids(f)) /\ Cardinality(Uids(f)) \in Nat
        /\ IsFiniteSet(IdentitiesIn(f)) /\ Cardinality(IdentitiesIn(f)) = Cardinality(Uids(f))
      BY UidsFinite, ServerAssumption DEF Types
  <2>3. CASE cycle.plan.lists = "Everything"
    <3>1. HeldIn(store, f)' \union missing = DOMAIN listed
        BY <1>2, <1>7, <2>3
    <3>2. DOMAIN listed = IdentitiesIn(f)
      <4>1. CASE p.message_count = 0
        <5>1. Cardinality(Uids(f)) = 0
            BY <2>1, <2>2, <4>1
        <5>2. Uids(f) = {}
            BY <2>2, <5>1, FS_EmptySet
        <5> QED BY <1>5, <5>2 DEF IdentitiesIn
      <4>2. CASE p.message_count # 0
          BY <1>4, <1>5, <1>7, <2>3, <4>2 DEF IdentitiesIn
      <4> QED BY <4>1, <4>2
    <3> QED BY <2>1, <2>2, <3>1, <3>2
  <2>4. CASE cycle.plan.lists # "Everything"
    <3>1. PICK r : r = Reference
        OBVIOUS
    <3>2. /\ r.uid_validity = p.uid_validity /\ r.uid_next = p.uid_next
          /\ r.message_count = p.message_count
        BY <1>6, <3>1 DEF Reference, Numbers
    <3>3. Proves(f, r, {})
        BY <1>6, <2>4, <3>1 DEF OpeningProves
    <3>4. NoneArrived(f, r)
        BY <1>7, <3>2 DEF NoneArrived
    <3>5. /\ IdentitiesIn(f) \subseteq HeldIn(store, f) /\ IsFiniteSet(HeldIn(store, f))
          /\ Cardinality(HeldIn(store, f)) <= p.message_count
      <4>1. HeldIn(store, f) \union {} = HeldIn(store, f)
          OBVIOUS
      <4> QED BY <3>2, <3>3, <3>4, <4>1 DEF Proves, ProvesMessages
    <3>6. missing = {} /\ HeldIn(store, f)' \union missing = HeldIn(store, f)
        BY <1>2, <1>5, <2>4, <3>5
    <3> QED BY <3>5, <3>6
  <2> QED BY <2>3, <2>4
<1>8. IdentitiesIn(f)' = IdentitiesIn(f) /\ (NoneArrived(f, p)' <=> NoneArrived(f, p))
    BY <1>3 DEF IdentitiesIn, IdentityAt, Uids, NoneArrived
<1> QED BY <1>7, <1>8 DEF ProvesMessages

\* And it proves the flags.
LEMMA PassProvesFlags ==
    ASSUME NumbersArePlaces, Types, CycleProves, NEW f \in FolderRef, NEW reported,
           NEW complete, NEW listed, Pass(f, reported, complete, listed),
           NEW p, p = cycle.numbers
    PROVE  complete => ProvesFlags(f, p)'
<1>1. PICK batch : batch = StatePassBatch(listed, complete)
    OBVIOUS
<1>2. Stores(f, batch) /\ WritesWhatShows(f, batch) /\ UNCHANGED serverVars
    BY <1>1, PassHolds DEF Pass
<1>3. \A i \in DOMAIN listed \intersect HeldIn(store, f) :
         i \notin DOMAIN batch.flag_states => StoredFlags(f, i) = listed[i].flags
    BY <1>1, PassBatchMeans DEF ListingBatch
<1>4. /\ reported \in SUBSET Uids(f) /\ listed = Identify(f, reported)
      /\ complete /\ cycle.plan.lists = "ChangedFlags" /\ p.message_count # 0
            => \A u \in Uids(f) : box[f].held[u].modseq > cycle.plan.since => u \in reported
      /\ complete /\ cycle.plan.lists = "Everything" /\ p.message_count # 0
            => reported = Uids(f)
    BY PassListed DEF Pass
<1>5. \A u \in reported : IdentityAt(f, u) \in DOMAIN listed
    BY <1>4, IdentifyMeans DEF Types
<1>6. /\ OpeningProves(f) /\ p \in Numbers /\ f = cycle.folder
      /\ cycle.plan.lists \in {"Nothing", "ChangedFlags", "Everything"}
      /\ cycle.plan.since \in Nat
    BY DEF Pass, CycleProves, Types, CycleTypes, CycleRecord, PassPlans
<1>7. ASSUME complete, NEW u \in Uids(f), Unchanged(f, p, u), IdentityAt(f, u) \in HeldIn(store, f),
             IdentityAt(f, u) \notin DOMAIN batch.flag_states
      PROVE  Agrees(f, u)
  <2>1. CASE IdentityAt(f, u) \in DOMAIN listed
    <3>1. StoredFlags(f, IdentityAt(f, u)) = listed[IdentityAt(f, u)].flags
        BY <1>3, <1>7, <2>1
    <3>2. FlagsAt(f, u) = listed[IdentityAt(f, u)].flags
        BY <1>4, <2>1, ListedIsNow DEF Types
    <3> QED BY <3>1, <3>2 DEF Agrees
  <2>2. CASE IdentityAt(f, u) \notin DOMAIN listed
    <3>1. u \notin reported /\ p.message_count # 0
        BY <1>5, <1>6, <1>7, <2>2 DEF OpeningProves
    <3>2. cycle.plan.lists # "Everything"
        BY <1>4, <1>7, <3>1
    <3>3. PICK r : r = Reference
        OBVIOUS
    <3>4. r.uid_validity = p.uid_validity /\ r.highest_modseq = cycle.plan.since
        BY <1>6, <3>3 DEF Reference, Numbers
    <3>5. box[f].held[u].modseq \in Nat
        BY BoxParts DEF Types, ServerTypes, Uids
    <3>6. box[f].held[u].modseq <= cycle.plan.since
      <4>1. CASE cycle.plan.lists = "Nothing"
          BY <1>6, <1>7, <4>1 DEF OpeningProves, Unchanged
      <4>2. CASE cycle.plan.lists = "ChangedFlags"
          BY <1>4, <1>6, <1>7, <3>1, <3>5, <4>2
      <4> QED BY <1>6, <3>2, <4>1, <4>2
    <3>7. Unchanged(f, r, u)
        BY <1>7, <3>4, <3>6 DEF Unchanged
    <3>8. Proves(f, r, {})
        BY <1>6, <3>2, <3>3 DEF OpeningProves
    <3> QED BY <1>7, <3>7, <3>8 DEF Proves, ProvesFlags
  <2> QED BY <2>1, <2>2
<1> SUFFICES ASSUME complete, NEW u \in Uids(f)', Unchanged(f, p, u)',
                    IdentityAt(f, u)' \in HeldIn(store, f)'
             PROVE  Agrees(f, u)'
    BY DEF ProvesFlags
<1>8. u \in Uids(f) /\ Unchanged(f, p, u) /\ IdentityAt(f, u)' = IdentityAt(f, u)
    BY <1>2 DEF serverVars, Uids, Unchanged, IdentityAt
<1>9. IdentityAt(f, u) \in HeldIn(store, f)' /\ Vouched(f, u)
    BY <1>6, <1>8 DEF Vouched
<1>10. IdentityAt(f, u) \in HeldIn(store, f)
          => Agrees(f, u) \/ (f = f /\ IdentityAt(f, u) \in DOMAIN batch.flag_states)
    BY <1>7, <1>8
<1> QED BY <1>2, <1>8, <1>9, <1>10, BatchAgrees DEF Types

\* A stored listing: every saved number still proves what it did, the new
\* ones prove the folder, and a folder with missing messages is not
\* synchronized.
LEMMA PassProves ==
    ASSUME NumbersArePlaces, Types, SavedProves, CycleProves, NEW f \in FolderRef,
           NEW reported, NEW complete, NEW listed, Pass(f, reported, complete, listed),
           NEW p, p = cycle.numbers, NEW missing, missing = DOMAIN listed \ HeldIn(store, f)
    PROVE  /\ StoreTypes' /\ SavedProves'
           /\ missing # {} => ~Synchronized(f)'
           /\ complete => Proves(f, p, missing)'
<1>1. PICK batch : batch = StatePassBatch(listed, complete)
    OBVIOUS
<1>2. Stores(f, batch) /\ WritesWhatShows(f, batch) /\ UNCHANGED serverVars /\ StoreTypes'
      /\ HeldIn(store, f)' = HeldIn(store, f) \ batch.removed
    BY <1>1, PassHolds DEF Pass
<1>3. /\ missing # {} => batch.state = {NeverSynchronized}
      /\ missing = {} /\ batch.state # {} =>
            complete /\ batch.state = {[synchronized |-> TRUE, place |-> p]}
      /\ missing = {} /\ batch.state = {} => ~complete \/ SavedPlace(f) = p
      /\ ~complete => batch.removed = {}
      /\ DOMAIN batch.flag_states \subseteq DOMAIN listed
      /\ \A i \in DOMAIN batch.flag_states : batch.flag_states[i] = listed[i].flags
    BY <1>1, PassBatchMeans DEF ListingBatch
<1>4. /\ batch.state = {} => store'.folders[f] = store.folders[f]
      /\ \A st \in batch.state : store'.folders[f] = st
    BY <1>2, BatchStores DEF Types
<1>5. complete => Proves(f, p, missing)'
    BY PassProvesMessages, PassProvesFlags DEF Proves
<1>6. missing # {} => ~Synchronized(f)'
  <2>1. ASSUME missing # {}
        PROVE  store'.folders[f] = NeverSynchronized
      BY <1>3, <1>4, <2>1
  <2> QED BY <2>1 DEF Synchronized, NeverSynchronized
<1>7. ASSUME Synchronized(f)'
      PROVE  (Earlier(f, SavedPlace(f)) /\ Proves(f, SavedPlace(f), {}))'
  <2>1. missing = {}
      BY <1>6, <1>7
  <2>2. Earlier(f, p)'
      BY <1>2 DEF Pass, CycleProves, Earlier, serverVars
  <2>3. CASE complete
    <3>1. SavedPlace(f)' = p
      <4>1. CASE batch.state = {}
          BY <1>3, <1>4, <2>1, <2>3, <4>1 DEF SavedPlace
      <4>2. CASE batch.state # {}
        <5>1. store'.folders[f] = [synchronized |-> TRUE, place |-> p]
            BY <1>3, <1>4, <2>1, <4>2
        <5> QED BY <5>1 DEF SavedPlace
      <4> QED BY <4>1, <4>2
    <3> QED BY <1>5, <2>1, <2>2, <2>3, <3>1
  <2>4. CASE ~complete
    <3>1. store'.folders[f] = store.folders[f] /\ HeldIn(store, f)' = HeldIn(store, f)
        BY <1>2, <1>3, <1>4, <2>1, <2>4
    <3>2. PICK q : q = SavedPlace(f)
        OBVIOUS
    <3>3. q = SavedPlace(f)' /\ Synchronized(f)
        BY <1>7, <3>1, <3>2 DEF SavedPlace, Synchronized
    <3>4. Earlier(f, q) /\ Proves(f, q, {})
        BY <3>2, <3>3 DEF SavedProves
    <3>5. Earlier(f, q)' /\ ProvesMessages(f, q, {})'
        BY <1>2, <3>1, <3>4 DEF serverVars, Earlier, Proves, ProvesMessages, NoneArrived,
                                IdentitiesIn, IdentityAt, Uids
    <3>6. ProvesFlags(f, q)'
      <4> SUFFICES ASSUME NEW u \in Uids(f)', Unchanged(f, q, u)',
                          IdentityAt(f, u)' \in HeldIn(store, f)'
                   PROVE  Agrees(f, u)'
          BY DEF ProvesFlags
      <4>1. u \in Uids(f) /\ Unchanged(f, q, u) /\ IdentityAt(f, u)' = IdentityAt(f, u)
          BY <1>2 DEF serverVars, Uids, Unchanged, IdentityAt
      <4>2. Agrees(f, u) /\ Vouched(f, u)
          BY <3>1, <3>2, <3>3, <3>4, <4>1 DEF Proves, ProvesFlags, Vouched
      <4>3. IdentityAt(f, u) \in HeldIn(store, f)'
          BY <4>1
      <4> QED BY <1>2, <4>1, <4>2, <4>3, BatchAgrees DEF Types
    <3> QED BY <3>3, <3>5, <3>6 DEF Proves
  <2>5. complete \in BOOLEAN
      BY DEF Pass
  <2> QED BY <2>3, <2>4, <2>5
<1>8. SavedProves'
  <2> SUFFICES ASSUME NEW g \in FolderRef, Synchronized(g)'
               PROVE  (Earlier(g, SavedPlace(g)) /\ Proves(g, SavedPlace(g), {}))'
      BY DEF SavedProves
  <2>1. CASE g = f
      BY <1>7, <2>1
  <2>2. CASE g # f
      BY <1>2, <2>2, BatchOthers DEF Types
  <2> QED BY <2>1, <2>2
<1> QED BY <1>2, <1>5, <1>6, <1>8

\* The passes stored: what was listed, and what is left to do.
FirstListed(f, reported, complete, listed) ==
    /\ Pass(f, reported, complete, listed)
    /\ cycle'.phase = "settling" /\ cycle'.listed = listed /\ cycle'.complete = complete
    /\ cycle'.missing = DOMAIN listed \ HeldIn(store, f)
    /\ cycle'.fetched = (DOMAIN listed \ HeldIn(store, f) # {})
    /\ cycle'.changes = ShownAlready(listed)
    /\ DOMAIN cycle' = CycleFields
    /\ \A i \in CycleFields \ {"phase", "listed", "complete", "missing", "fetched", "changes"} :
          cycle'[i] = cycle[i]

SecondListed(f, reported, complete, listed) ==
    /\ Pass(f, reported, complete, listed)
    /\ cycle'.phase = "closing" /\ cycle'.complete = (cycle.complete /\ complete)
    /\ DOMAIN cycle' = CycleFields
    /\ \A i \in CycleFields \ {"phase", "complete"} : cycle'[i] = cycle[i]

LEMMA FirstPassLists ==
    ASSUME Types, CycleProves, FirstPass
    PROVE  \E reported, complete, listed :
              FirstListed(cycle.folder, reported, complete, listed)
<1>1. cycle.phase = "opened" /\ Running /\ UNCHANGED <<serverVars, seen>>
    BY PhasesRun DEF FirstPass
<1>2. CycleRecord(cycle)
    BY <1>1 DEF Types, CycleTypes
<1>3. PICK f \in FolderRef : f = cycle.folder
    BY <1>2 DEF CycleRecord
<1>4. PICK reported \in SUBSET AskedUids(cycle.folder, cycle.plan), complete \in BOOLEAN :
         /\ ListingEnds(reported, complete)
         /\ store' = StoreBatch(store, cycle.folder,
                                StatePassBatch(Identify(cycle.folder, reported), complete))
         /\ cycle' = [cycle EXCEPT
               !.phase = "settling",
               !.listed = Identify(cycle.folder, reported),
               !.complete = complete,
               !.missing = Missing(Identify(cycle.folder, reported)),
               !.fetched = Missing(Identify(cycle.folder, reported)) # {},
               !.changes = ShownAlready(Identify(cycle.folder, reported))]
    BY Zenon DEF FirstPass
<1>5. PICK listed : listed = Identify(f, reported)
    OBVIOUS
<1>6. Pass(f, reported, complete, listed)
    BY <1>1, <1>3, <1>4, <1>5 DEF Pass, Openings
<1>7. PICK missing, fetched, changes, p :
         /\ missing = DOMAIN listed \ HeldIn(store, f) /\ fetched = (missing # {})
         /\ changes = ShownAlready(listed) /\ p = cycle.numbers
    OBVIOUS
<1>8. Missing(listed) = missing
    BY <1>1, <1>3, <1>7 DEF Missing, CycleProves, OpeningProves, Openings, ReadFolderSync
<1>9. /\ cycle'.phase = "settling" /\ cycle'.listed = listed /\ cycle'.complete = complete
      /\ cycle'.missing = missing /\ cycle'.fetched = fetched /\ cycle'.changes = changes
      /\ DOMAIN cycle' = CycleFields
      /\ \A i \in CycleFields \ {"phase", "listed", "complete", "missing", "fetched", "changes"} :
            cycle'[i] = cycle[i]
  <2>1. cycle' = [cycle EXCEPT !.phase = "settling", !.listed = listed,
                               !.complete = complete, !.missing = missing,
                               !.fetched = fetched, !.changes = changes]
      BY <1>3, <1>4, <1>7, <1>8, <1>5
  <2> QED BY <1>2, <2>1 DEF CycleRecord, CycleFields
<1>10. FirstListed(f, reported, complete, listed)
    BY <1>6, <1>7, <1>9 DEF FirstListed
<1> QED BY <1>3, <1>10

LEMMA SecondPassLists ==
    ASSUME Types, CycleProves, SecondPass
    PROVE  \E reported, complete, listed :
              SecondListed(cycle.folder, reported, complete, listed)
<1>1. cycle.phase = "reopened" /\ Running /\ UNCHANGED <<serverVars, seen>>
    BY PhasesRun DEF SecondPass
<1>2. CycleRecord(cycle)
    BY <1>1 DEF Types, CycleTypes
<1>3. PICK f \in FolderRef : f = cycle.folder
    BY <1>2 DEF CycleRecord
<1>4. PICK reported \in SUBSET AskedUids(cycle.folder, cycle.plan), complete \in BOOLEAN :
         /\ ListingEnds(reported, complete)
         /\ store' = StoreBatch(store, cycle.folder,
                                StatePassBatch(Identify(cycle.folder, reported), complete))
         /\ cycle' = [cycle EXCEPT !.phase = "closing", !.complete = @ /\ complete]
    BY Zenon DEF SecondPass
<1>5. PICK listed : listed = Identify(f, reported)
    OBVIOUS
<1>6. Pass(f, reported, complete, listed)
    BY <1>1, <1>3, <1>4, <1>5 DEF Pass, Openings
<1>7. PICK both :
         both = (cycle.complete /\ complete)
    OBVIOUS
<1>8. /\ cycle'.phase = "closing" /\ cycle'.complete = both /\ DOMAIN cycle' = CycleFields
      /\ \A i \in CycleFields \ {"phase", "complete"} : cycle'[i] = cycle[i]
  <2>1. cycle' = [cycle EXCEPT !.phase = "closing", !.complete = both]
      BY <1>4, <1>7
  <2> QED BY <1>2, <2>1 DEF CycleRecord, CycleFields
<1>9. SecondListed(f, reported, complete, listed)
    BY <1>6, <1>7, <1>8 DEF SecondListed
<1> QED BY <1>3, <1>9

LEMMA FirstPassProves ==
    ASSUME NumbersArePlaces, Types, SavedProves, CycleProves, ServerTypes', FirstPass
    PROVE  StoreTypes' /\ CycleTypes' /\ SavedProves' /\ CycleProves'
<1>1. cycle.phase = "opened" /\ Running /\ UNCHANGED <<serverVars, seen>>
    BY PhasesRun DEF FirstPass
<1>2. CycleRecord(cycle)
    BY <1>1 DEF Types, CycleTypes
<1>3. PICK f \in FolderRef : f = cycle.folder
    BY <1>2 DEF CycleRecord
<1>4. PICK reported, complete, listed : FirstListed(f, reported, complete, listed)
    BY <1>3, FirstPassLists
<1>5. /\ Pass(f, reported, complete, listed)
      /\ complete \in BOOLEAN /\ listed = Identify(f, reported)
    BY <1>4 DEF FirstListed, Pass
<1>6. PICK missing, fetched, changes, p :
         /\ missing = DOMAIN listed \ HeldIn(store, f) /\ fetched = (missing # {})
         /\ changes = ShownAlready(listed) /\ p = cycle.numbers
    OBVIOUS
<1>7. /\ cycle'.phase = "settling" /\ cycle'.listed = listed /\ cycle'.complete = complete
      /\ cycle'.missing = missing /\ cycle'.fetched = fetched /\ cycle'.changes = changes
      /\ DOMAIN cycle' = CycleFields
      /\ \A i \in CycleFields \ {"phase", "listed", "complete", "missing", "fetched", "changes"} :
            cycle'[i] = cycle[i]
    BY <1>4, <1>6 DEF FirstListed
<1>8. /\ StoreTypes' /\ SavedProves'
      /\ missing # {} => ~Synchronized(f)'
      /\ complete => Proves(f, p, missing)'
    BY <1>5, <1>6, PassProves
<1>9. /\ reported \in SUBSET Uids(f)
      /\ listed \in PartialFunctions(MessageId, [uid : 1..MaxUid, flags : Flags])
  <2>1. reported \in SUBSET Uids(f)
      BY <1>5, PassListed
  <2> QED BY <1>5, <2>1, IdentifyMeans DEF Types
<1>10. changes \subseteq cycle.changes /\ cycle.changes \subseteq PendingChange
    BY <1>2, <1>6 DEF ShownAlready, CycleRecord
<1>11. CycleRecord(cycle') /\ Running'
    BY <1>2, <1>5, <1>6, <1>7, <1>9, <1>10 DEF CycleRecord, CycleFields, Phases, Running, Idle
<1>12. Watches(f) /\ Watches(f)' /\ Earlier(f, p)'
  <2>1. Watches(f) /\ Earlier(f, p)
      BY <1>1, <1>3, <1>6 DEF CycleProves
  <2> QED BY <1>1, <2>1 DEF Watches, serverVars, IdentitiesIn, IdentityAt, FlagValues, FlagsAt,
                            Uids, Earlier
<1>13. ASSUME NEW id \in DOMAIN listed
       PROVE  StillShows(f.account, id, listed[id].flags)' /\ WereShown(id, listed[id].flags)'
              /\ \A flag : StillShowsFlag(f.account, id, flag, listed[id].flags[flag])'
  <2>1. \A g \in FolderRef : \A v \in Uids(g) :
           g.account = f.account /\ IdentityAt(g, v) = id => FlagsAt(g, v) = listed[id].flags
      BY <1>5, <1>9, ListedIsNow DEF Types
  <2>2. \A g \in FolderRef : \A v \in Uids(g)' :
           g.account = f.account /\ IdentityAt(g, v)' = id => FlagsAt(g, v)' = listed[id].flags
      BY <1>1, <2>1 DEF serverVars, Uids, IdentityAt, FlagsAt
  <2>3. WereShown(id, listed[id].flags)
      BY <1>5, <1>9, <1>12, ListedWereShown DEF Types
  <2>4. WereShown(id, listed[id].flags)'
      BY <1>1, <2>3 DEF WereShown
  <2> QED BY <2>2, <2>4 DEF StillShows, StillShowsFlag
<1>14. FillKeeps(f)'
    BY <1>6, <1>7, <1>8, <1>13 DEF FillKeeps, CycleFields
<1>15. ASSUME NEW c \in changes
       PROVE  Answered(f, c)'
  <2>1. /\ c \in PendingChange /\ c.identity \in DOMAIN listed
        /\ listed[c.identity].flags[c.flag] = c.wanted
      BY <1>6, <1>10 DEF ShownAlready
  <2>2. StillShowsFlag(f.account, c.identity, c.flag, c.wanted)'
      BY <1>13, <2>1
  <2>3. <<c.identity, c.flag, c.wanted>> \in seen.shown
      BY <1>5, <1>9, <1>12, <2>1, ListedAnswers DEF Types, Answered
  <2> QED BY <1>1, <2>2, <2>3 DEF Answered
<1>16. ChangesProve(f)'
    BY <1>7, <1>15 DEF ChangesProve
<1>17. cycle'.folder = f /\ cycle'.numbers = p
    BY <1>3, <1>6, <1>7 DEF CycleFields
<1>18. CycleProves'
  <2>1. cycle'.phase \notin Openings
      BY <1>7 DEF Openings
  <2> QED BY <1>12, <1>14, <1>16, <1>17, <2>1 DEF CycleProves
<1> QED BY <1>8, <1>11, <1>18 DEF CycleTypes

LEMMA SecondPassProves ==
    ASSUME NumbersArePlaces, Types, SavedProves, CycleProves, ServerTypes', SecondPass
    PROVE  StoreTypes' /\ CycleTypes' /\ SavedProves' /\ CycleProves'
<1>1. cycle.phase = "reopened" /\ Running /\ UNCHANGED <<serverVars, seen>>
    BY PhasesRun DEF SecondPass
<1>2. CycleRecord(cycle)
    BY <1>1 DEF Types, CycleTypes
<1>3. PICK f \in FolderRef : f = cycle.folder
    BY <1>2 DEF CycleRecord
<1>4. PICK reported, complete, listed : SecondListed(f, reported, complete, listed)
    BY <1>3, SecondPassLists
<1>5. Pass(f, reported, complete, listed)
    BY <1>4 DEF SecondListed
<1>6. PICK missing, both, p :
         /\ missing = DOMAIN listed \ HeldIn(store, f) /\ p = cycle.numbers
         /\ both = (cycle.complete /\ complete)
    OBVIOUS
<1>7. /\ cycle'.phase = "closing" /\ cycle'.complete = both /\ DOMAIN cycle' = CycleFields
      /\ \A i \in CycleFields \ {"phase", "complete"} : cycle'[i] = cycle[i]
    BY <1>4, <1>6 DEF SecondListed
<1>8. StoreTypes' /\ SavedProves'
    BY <1>5, <1>6, PassProves
<1>9. CycleRecord(cycle') /\ Running'
    BY <1>2, <1>6, <1>7 DEF CycleRecord, CycleFields, Phases, Running, Idle
<1>10. Watches(f)' /\ Earlier(f, p)'
  <2>1. Watches(f) /\ Earlier(f, p)
      BY <1>1, <1>3, <1>6 DEF CycleProves
  <2> QED BY <1>1, <2>1 DEF Watches, serverVars, IdentitiesIn, IdentityAt, FlagValues, FlagsAt,
                            Uids, Earlier
<1>11. cycle'.folder = f /\ cycle'.numbers = p
    BY <1>3, <1>6, <1>7 DEF CycleFields
<1>12. CycleProves'
  <2>1. cycle'.phase \notin Openings /\ cycle'.phase \notin Fillings
      BY <1>7 DEF Openings, Fillings
  <2> QED BY <1>10, <1>11, <2>1 DEF CycleProves
<1> QED BY <1>8, <1>9, <1>12 DEF CycleTypes

-----------------------------------------------------------------------------
(* The fill.                                                               *)

\* The flags of the fetched rows are the server's.
LEMMA FetchedRows ==
    ASSUME NumbersArePlaces, ServerTypes, NEW f \in FolderRef, NEW answered \in SUBSET Uids(f),
           Watches(f), NEW arrived,
           arrived = [i \in {IdentityAt(f, u) : u \in answered} |->
                         [flags |-> Identify(f, answered)[i].flags, content |-> "text"]]
    PROVE  /\ arrived \in PartialFunctions(MessageId, Arrival)
           /\ \A u \in answered : IdentityAt(f, u) \in DOMAIN arrived
           /\ \A i \in DOMAIN arrived : \E u \in answered : i = IdentityAt(f, u)
           /\ \A i \in DOMAIN arrived : /\ StillShows(f.account, i, arrived[i].flags)
                                        /\ WereShown(i, arrived[i].flags)
<1>1. PICK listed, ids : listed = Identify(f, answered)
                         /\ ids = {IdentityAt(f, u) : u \in answered}
    OBVIOUS
<1>2. \A u \in answered : IdentityAt(f, u) \in DOMAIN listed
    BY <1>1, IdentifyMeans
<1>3. \A i \in ids : i \in DOMAIN listed
    BY <1>1, <1>2
<1>4. listed \in PartialFunctions(MessageId, [uid : 1..MaxUid, flags : Flags])
    BY <1>1, IdentifyMeans
<1>5. \A i \in ids : i \in MessageId /\ listed[i].flags \in Flags
  <2>1. PICK T : T = [uid : 1..MaxUid, flags : Flags]
      OBVIOUS
  <2>2. listed \in PartialFunctions(MessageId, T)
      BY <1>4, <2>1
  <2>3. DOMAIN listed \subseteq MessageId /\ listed \in [DOMAIN listed -> T]
      BY <2>2, PartialFunctionType
  <2>4. \A i \in ids : i \in MessageId /\ listed[i] \in T
      BY <1>3, <2>3
  <2> QED BY <2>1, <2>4
<1>6. arrived = [i \in ids |-> [flags |-> listed[i].flags, content |-> "text"]]
    BY <1>1
<1>7. DOMAIN arrived = ids /\ \A i \in ids : /\ arrived[i] \in Arrival
                                              /\ arrived[i].flags = listed[i].flags
    BY <1>5, <1>6 DEF Arrival, ContentKind
<1>8. arrived \in PartialFunctions(MessageId, Arrival)
  <2>1. DOMAIN arrived \subseteq MessageId /\ arrived \in [DOMAIN arrived -> Arrival]
      BY <1>5, <1>6, <1>7
  <2> QED BY <2>1, PartialFunctionType
<1>9. \A i \in ids : StillShows(f.account, i, listed[i].flags)
    BY <1>1, <1>3, ListedStillShows
<1>10. \A i \in ids : WereShown(i, listed[i].flags)
    BY <1>1, <1>3, ListedWereShown
<1> QED BY <1>1, <1>7, <1>8, <1>9, <1>10

\* One batch of the fill: the messages it takes, what it stores of them, and
\* what it leaves missing.
Fills(f, fetching, withheld, batch) ==
    /\ Stores(f, batch) /\ WritesWhatShows(f, batch)
    /\ batch.removed = {} /\ batch.flag_states = NoRows /\ batch.state = {}
    /\ fetching \subseteq cycle.missing /\ withheld \in BOOLEAN
    /\ DOMAIN batch.arrived \union DOMAIN batch.known_arrived \subseteq fetching
    /\ ~withheld => \A u \in Uids(f) : IdentityAt(f, u) \in fetching =>
          IdentityAt(f, u) \in DOMAIN batch.arrived \union DOMAIN batch.known_arrived
    /\ \A i \in DOMAIN batch.arrived : WereShown(i, batch.arrived[i].flags)
    /\ \A i \in DOMAIN batch.known_arrived : WereShown(i, batch.known_arrived[i])
    /\ cycle'.phase = "settling" /\ cycle'.missing = cycle.missing \ fetching
    /\ cycle'.withheld = withheld /\ DOMAIN cycle' = CycleFields
    /\ \A i \in CycleFields \ {"phase", "missing", "withheld"} : cycle'[i] = cycle[i]

LEMMA FetchFills ==
    ASSUME NumbersArePlaces, Types, CycleProves, FetchArrivals
    PROVE  \E fetching, withheld, batch : Fills(cycle.folder, fetching, withheld, batch)
<1>1. /\ cycle.phase = "sending" /\ Running /\ UNCHANGED <<serverVars, seen>>
      /\ cycle.changes = {} /\ ~cycle.withheld /\ cycle.missing # {}
    BY PhasesRun DEF FetchArrivals, SentAll
<1>2. CycleRecord(cycle)
    BY <1>1 DEF Types, CycleTypes
<1>3. PICK f \in FolderRef : f = cycle.folder
    BY <1>2 DEF CycleRecord
<1> DEFINE next     == NextBatch(cycle.missing)
           stored   == StoredIdentities(store, cycle.folder.account, next)
           wanted   == {u \in Uids(cycle.folder) : IdentityAt(cycle.folder, u) \in next \ stored}
           related  == [i \in stored |-> cycle.listed[i].flags]
           full(us) == [i \in {IdentityAt(cycle.folder, u) : u \in us} |->
                           [flags |-> Identify(cycle.folder, us)[i].flags,
                            content |-> "text"]]
<1>4. PICK answered, withheld :
         /\ answered \in SUBSET wanted /\ withheld \in BOOLEAN
         /\ ~withheld => answered = wanted
         /\ store' = StoreBatch(store, cycle.folder,
                        [EmptyBatch EXCEPT !.known_arrived = related, !.arrived = full(answered)])
         /\ cycle' = [cycle EXCEPT !.phase = "settling",
                                   !.missing = LeftAfter(@, next),
                                   !.withheld = withheld]
    BY Zenon DEF FetchArrivals
<1>5. PICK fetching, known, rows, p, missing, arrived, known_arrived :
         /\ fetching = next /\ known = stored /\ rows = wanted
         /\ p = cycle.numbers /\ missing = cycle.missing \ fetching
         /\ arrived = full(answered) /\ known_arrived = related
    OBVIOUS
<1>6. /\ answered \subseteq rows
      /\ ~withheld => answered = rows
      /\ known = StoredIdentities(store, f.account, fetching)
      /\ \A u : u \in rows <=> u \in Uids(f) /\ IdentityAt(f, u) \in fetching \ known
  <2> HIDE DEF full, related
  <2> QED BY <1>3, <1>4, <1>5
<1>7. known_arrived = [i \in known |-> cycle.listed[i].flags]
  <2> HIDE DEF stored
  <2> QED BY <1>5
<1> HIDE DEF next, stored, wanted, related
<1>8. PICK batch :
         batch = [removed |-> {}, flag_states |-> NoRows, arrived |-> arrived,
                  known_arrived |-> known_arrived, state |-> {}]
    OBVIOUS
<1>9. /\ arrived \in PartialFunctions(MessageId, Arrival)
      /\ \A u \in answered : IdentityAt(f, u) \in DOMAIN arrived
      /\ \A i \in DOMAIN arrived : \E u \in answered : i = IdentityAt(f, u)
      /\ \A i \in DOMAIN arrived :
            StillShows(f.account, i, arrived[i].flags) /\ WereShown(i, arrived[i].flags)
  <2>1. /\ cycle.folder \in FolderRef /\ answered \in SUBSET Uids(cycle.folder)
        /\ Watches(cycle.folder)
      BY <1>1, <1>3, <1>6 DEF CycleProves
  <2>2. /\ arrived \in PartialFunctions(MessageId, Arrival)
        /\ \A u \in answered : IdentityAt(cycle.folder, u) \in DOMAIN arrived
        /\ \A i \in DOMAIN arrived : \E u \in answered : i = IdentityAt(cycle.folder, u)
        /\ \A i \in DOMAIN arrived :
              /\ StillShows(cycle.folder.account, i, arrived[i].flags)
              /\ WereShown(i, arrived[i].flags)
      BY <1>5, <2>1, FetchedRows DEF Types
  <2> QED BY <1>3, <2>2
<1> HIDE DEF full
<1>10. store' = StoreBatch(store, f, batch)
  <2>1. PICK e : e = [EmptyBatch EXCEPT !.known_arrived = known_arrived, !.arrived = arrived]
      OBVIOUS
  <2>2. e = [removed |-> {}, flag_states |-> NoRows, arrived |-> arrived,
             known_arrived |-> known_arrived, state |-> {}]
      BY <2>1 DEF EmptyBatch
  <2>3. store' = StoreBatch(store, f, e)
      BY <1>3, <1>4, <1>5, <2>1
  <2> QED BY <1>8, <2>2, <2>3
<1>11. /\ cycle'.phase = "settling" /\ cycle'.missing = missing /\ cycle'.withheld = withheld
       /\ DOMAIN cycle' = CycleFields
       /\ \A i \in CycleFields \ {"phase", "missing", "withheld"} : cycle'[i] = cycle[i]
  <2>1. cycle' = [cycle EXCEPT !.phase = "settling", !.missing = missing,
                               !.withheld = withheld]
      BY <1>4, <1>5 DEF LeftAfter
  <2> QED BY <1>2, <2>1 DEF CycleRecord, CycleFields
<1>12. /\ fetching \subseteq cycle.missing /\ known \subseteq fetching
       /\ cycle.missing \subseteq DOMAIN cycle.listed
       /\ KeysOf(f.account, known) \subseteq DOMAIN store.messages
    BY <1>2, <1>5, <1>6 DEF CycleRecord, NextBatch, StoredIdentities, KeysOf, next
<1>13. FillKeeps(f) /\ Watches(f) /\ Earlier(f, p)
    BY <1>1, <1>3, <1>5 DEF CycleProves, Fillings
<1>14. /\ known_arrived \in PartialFunctions(MessageId, Flags) /\ DOMAIN known_arrived = known
       /\ \A i \in known : /\ StillShows(f.account, i, known_arrived[i])
                           /\ WereShown(i, known_arrived[i])
  <2>1. PICK T : T = [uid : 1..MaxUid, flags : Flags]
      OBVIOUS
  <2>2. cycle.listed \in PartialFunctions(MessageId, T)
      BY <1>2, <2>1 DEF CycleRecord
  <2>3. DOMAIN cycle.listed \subseteq MessageId /\ cycle.listed \in [DOMAIN cycle.listed -> T]
      BY <2>2, PartialFunctionType
  <2>4. known \subseteq DOMAIN cycle.listed
      BY <1>12
  <2>5. \A i \in known : i \in MessageId /\ cycle.listed[i].flags \in Flags
      BY <2>1, <2>3, <2>4
  <2>6. DOMAIN known_arrived \subseteq MessageId
        /\ known_arrived \in [DOMAIN known_arrived -> Flags]
      BY <1>7, <2>5
  <2>7. known_arrived \in PartialFunctions(MessageId, Flags)
      BY <2>6, PartialFunctionType
  <2> QED BY <1>13, <1>7, <2>4, <2>7 DEF FillKeeps
<1>15. DOMAIN NoRows = {} /\ NoRows \in PartialFunctions(MessageId, Flags)
    BY PartialFunctionType DEF NoRows
<1>16. Stores(f, batch) /\ WritesWhatShows(f, batch)
  <2>1. batch \in FolderBatch
      BY <1>8, <1>9, <1>14, <1>15 DEF FolderBatch
  <2> QED BY <1>8, <1>10, <1>12, <1>9, <1>14, <1>15, <2>1 DEF Stores, WritesWhatShows
<1>17. /\ fetching \subseteq cycle.missing
       /\ DOMAIN batch.arrived \union DOMAIN batch.known_arrived \subseteq fetching
  <2>1. \A u \in answered : IdentityAt(f, u) \in fetching
      BY <1>6
  <2>2. DOMAIN arrived \subseteq fetching
      BY <1>9, <2>1
  <2> QED BY <1>8, <1>12, <1>14, <2>2
<1>18. ASSUME ~withheld, NEW u \in Uids(f), IdentityAt(f, u) \in fetching
       PROVE  IdentityAt(f, u) \in DOMAIN arrived \union known
  <2>1. CASE IdentityAt(f, u) \in known
      BY <2>1
  <2>2. CASE IdentityAt(f, u) \notin known
    <3>1. u \in answered
        BY <1>6, <1>18, <2>2
    <3> QED BY <1>9, <3>1
  <2> QED BY <2>1, <2>2
<1>19. Fills(f, fetching, withheld, batch)
  <2>1. batch.removed = {} /\ batch.flag_states = NoRows /\ batch.state = {}
        /\ batch.arrived = arrived /\ DOMAIN batch.known_arrived = known
        /\ batch.known_arrived = known_arrived
      BY <1>8, <1>14
  <2>2. withheld \in BOOLEAN
      BY <1>4
  <2>3. ~withheld => \A u \in Uids(f) : IdentityAt(f, u) \in fetching =>
           IdentityAt(f, u) \in DOMAIN batch.arrived \union DOMAIN batch.known_arrived
      BY <1>18, <2>1
  <2>4. cycle'.missing = cycle.missing \ fetching
      BY <1>5, <1>11
  <2>5. \A i \in DOMAIN batch.arrived : WereShown(i, batch.arrived[i].flags)
      BY <1>9, <2>1
  <2>6. \A i \in DOMAIN batch.known_arrived : WereShown(i, batch.known_arrived[i])
      BY <1>14, <2>1
  <2> QED BY <1>11, <1>16, <1>17, <2>1, <2>2, <2>3, <2>4, <2>5, <2>6, Zenon DEF Fills
<1> QED BY <1>3, <1>19

LEMMA FetchProves ==
    ASSUME NumbersArePlaces, Types, SavedProves, CycleProves, ServerTypes', ServerMoves,
           FetchArrivals
    PROVE  StoreTypes' /\ CycleTypes' /\ SavedProves' /\ CycleProves'
<1>1. /\ cycle.phase = "sending" /\ Running /\ UNCHANGED <<serverVars, seen>>
      /\ cycle.missing # {} /\ cycle.changes = {} /\ ~cycle.withheld
    BY PhasesRun DEF FetchArrivals, SentAll
<1>2. CycleRecord(cycle)
    BY <1>1 DEF Types, CycleTypes
<1>3. PICK f \in FolderRef : f = cycle.folder
    BY <1>2 DEF CycleRecord
<1>4. PICK fetching, withheld, batch : Fills(f, fetching, withheld, batch)
    BY <1>3, FetchFills
<1>5. PICK p, missing, arrived, known :
         /\ p = cycle.numbers /\ missing = cycle.missing \ fetching
         /\ arrived = batch.arrived /\ known = DOMAIN batch.known_arrived
    OBVIOUS
<1>6. /\ cycle'.phase = "settling" /\ cycle'.missing = missing /\ cycle'.withheld = withheld
      /\ DOMAIN cycle' = CycleFields
      /\ \A i \in CycleFields \ {"phase", "missing", "withheld"} : cycle'[i] = cycle[i]
    BY <1>4, <1>5 DEF Fills
<1>7. /\ fetching \subseteq cycle.missing /\ DOMAIN arrived \union known \subseteq fetching
      /\ withheld \in BOOLEAN
      /\ ~withheld => \A u \in Uids(f) : IdentityAt(f, u) \in fetching =>
            IdentityAt(f, u) \in DOMAIN arrived \union known
    BY <1>4, <1>5 DEF Fills
<1>8. FillKeeps(f) /\ Watches(f) /\ Earlier(f, p)
    BY <1>1, <1>3, <1>5 DEF CycleProves, Fillings
<1>9. Stores(f, batch) /\ WritesWhatShows(f, batch)
    BY <1>4 DEF Fills
<1>10. /\ StoreTypes' /\ \A g \in FolderRef : store'.folders[g] = store.folders[g]
       /\ HeldIn(store, f)' = HeldIn(store, f) \union DOMAIN arrived \union known
  <2>1. batch.state = {} /\ batch.removed = {} /\ batch.arrived = arrived
        /\ DOMAIN batch.known_arrived = known
      BY <1>4, <1>5 DEF Fills
  <2>2. HeldIn(store, f)' = (HeldIn(store, f) \ batch.removed)
           \union DOMAIN batch.arrived \union DOMAIN batch.known_arrived
      BY <1>9, BatchStores DEF Types
  <2>3. StoreTypes' /\ \A g \in FolderRef : store'.folders[g] = store.folders[g]
      BY <1>9, <2>1, BatchStores DEF Types
  <2> QED BY <2>1, <2>2, <2>3
<1>11. ~Synchronized(f) /\ ~Synchronized(f)' /\ cycle.fetched
    BY <1>1, <1>8, <1>10 DEF FillKeeps, Synchronized
<1>12. SavedProves'
  <2> SUFFICES ASSUME NEW g \in FolderRef, Synchronized(g)'
               PROVE  (Earlier(g, SavedPlace(g)) /\ Proves(g, SavedPlace(g), {}))'
      BY DEF SavedProves
  <2>1. g # f
      BY <1>11
  <2> QED BY <1>1, <1>9, <2>1, BatchOthers DEF Types
<1>13. CycleRecord(cycle') /\ Running'
    BY <1>2, <1>5, <1>6, <1>7 DEF CycleRecord, CycleFields, Phases, Running, Idle
<1>14. Watches(f)' /\ Earlier(f, p)'
    BY <1>1, <1>8 DEF Watches, serverVars, IdentitiesIn, IdentityAt, FlagValues, FlagsAt,
                       Uids, Earlier
<1>15. ASSUME cycle.complete, ~withheld
       PROVE  ProvesMessages(f, p, missing)' /\ ProvesFlags(f, p)'
  <2>1. Proves(f, p, cycle.missing)
      BY <1>1, <1>5, <1>8, <1>15 DEF FillKeeps
  <2>2. ASSUME NoneArrived(f, p)
        PROVE  /\ IdentitiesIn(f) \subseteq HeldIn(store, f)' \union missing
               /\ IsFiniteSet(HeldIn(store, f)' \union missing)
               /\ Cardinality(HeldIn(store, f)' \union missing) <= p.message_count
    <3>1. PICK all : all = HeldIn(store, f) \union cycle.missing
        OBVIOUS
    <3>2. IdentitiesIn(f) \subseteq all /\ IsFiniteSet(all) /\ Cardinality(all) <= p.message_count
        BY <2>1, <2>2, <3>1 DEF Proves, ProvesMessages
    <3>3. ASSUME NEW u \in Uids(f)
          PROVE  IdentityAt(f, u) \in HeldIn(store, f)' \union missing
      <4>1. IdentityAt(f, u) \in all
          BY <3>2 DEF IdentitiesIn
      <4> QED BY <1>5, <1>7, <1>10, <1>15, <3>1, <4>1
    <3>4. HeldIn(store, f)' \union missing \subseteq all
        BY <1>5, <1>7, <1>10, <3>1
    <3>5. IsFiniteSet(HeldIn(store, f)' \union missing)
          /\ Cardinality(HeldIn(store, f)' \union missing) <= Cardinality(all)
        BY <3>2, <3>4, FS_Subset
    <3>6. /\ Cardinality(all) \in Nat /\ Cardinality(HeldIn(store, f)' \union missing) \in Nat
          /\ p.message_count \in Nat
        BY <1>8, <3>2, <3>5, FS_CardinalityType, NumbersParts DEF Earlier
    <3>7. IdentitiesIn(f) \subseteq HeldIn(store, f)' \union missing
        BY <3>3 DEF IdentitiesIn
    <3> QED BY <3>2, <3>5, <3>6, <3>7
  <2>3. ProvesMessages(f, p, missing)'
    <3>1. IdentitiesIn(f)' = IdentitiesIn(f) /\ (NoneArrived(f, p)' <=> NoneArrived(f, p))
        BY <1>1 DEF IdentitiesIn, IdentityAt, Uids, NoneArrived, serverVars
    <3> QED BY <2>2, <3>1 DEF ProvesMessages
  <2>4. ProvesFlags(f, p)'
    <3> SUFFICES ASSUME NEW u \in Uids(f)', Unchanged(f, p, u)',
                        IdentityAt(f, u)' \in HeldIn(store, f)'
                 PROVE  Agrees(f, u)'
        BY DEF ProvesFlags
    <3>1. u \in Uids(f) /\ Unchanged(f, p, u) /\ IdentityAt(f, u)' = IdentityAt(f, u)
        BY <1>1 DEF serverVars, Uids, Unchanged, IdentityAt
    <3>2. IdentityAt(f, u) \in HeldIn(store, f)' /\ Vouched(f, u)
        BY <1>3, <1>5, <3>1 DEF Vouched
    <3>3. IdentityAt(f, u) \in HeldIn(store, f)
             => Agrees(f, u) \/ (f = f /\ IdentityAt(f, u) \in DOMAIN batch.flag_states)
        BY <2>1, <3>1 DEF Proves, ProvesFlags
    <3> QED BY <1>1, <1>9, <3>1, <3>2, <3>3, BatchAgrees DEF Types
  <2> QED BY <2>3, <2>4
<1>16. SameNumbers /\ store'.folders = store.folders /\ cycle'.folder = f /\ cycle'.numbers = p
  <2>1. DOMAIN store'.folders = DOMAIN store.folders
      BY <1>10 DEF Types, StoreTypes
  <2>2. store'.folders = store.folders
    <3>1. PICK old, new : old = store.folders /\ new = store'.folders
        OBVIOUS
    <3>2. /\ old \in [FolderRef -> FolderState] /\ new \in [FolderRef -> FolderState]
          /\ \A g \in FolderRef : new[g] = old[g]
        BY <1>10, <3>1, TablesType DEF Types, StoreTypes, Kept, Sound
    <3> QED BY <3>1, <3>2
  <2> QED BY <1>1, <1>3, <1>5, <1>6, <2>2 DEF SameNumbers, CycleFields
<1>17. FillKeeps(f)'
  <2>1. ASSUME NEW id \in DOMAIN cycle.listed
        PROVE  /\ StillShows(f.account, id, cycle.listed[id].flags)'
               /\ WereShown(id, cycle.listed[id].flags)'
    <3>1. PICK values : values = cycle.listed[id].flags
        OBVIOUS
    <3>2. values = cycle'.listed[id].flags
        BY <1>6, <3>1 DEF CycleFields
    <3>3. StillShows(f.account, id, values) /\ WereShown(id, values)
        BY <1>8, <3>1 DEF FillKeeps
    <3>4. StillShows(f.account, id, values)'
        BY <1>16, <3>3, ShowsRest DEF Types
    <3>5. WereShown(id, values)'
        BY <1>1, <3>3 DEF WereShown
    <3> QED BY <3>2, <3>4, <3>5
  <2>2. cycle'.listed = cycle.listed /\ cycle'.complete = cycle.complete /\ cycle'.fetched
      BY <1>6, <1>11 DEF CycleFields
  <2>3. cycle'.complete /\ ~withheld => Proves(f, p, missing)'
      BY <1>15, <2>2 DEF Proves
  <2> QED BY <1>6, <1>11, <1>16, <2>1, <2>2, <2>3 DEF FillKeeps
<1>18. ChangesProve(f)'
    BY <1>1, <1>6 DEF ChangesProve, CycleFields
<1>19. CycleProves'
  <2>1. cycle'.phase \notin Openings
      BY <1>6 DEF Openings
  <2> QED BY <1>14, <1>16, <1>17, <1>18, <2>1 DEF CycleProves
<1> QED BY <1>10, <1>12, <1>13, <1>19 DEF CycleTypes

-----------------------------------------------------------------------------
(* The inductive invariant.                                                *)

LEMMA InvariantAtFirst ==
    ASSUME NumbersArePlaces, Init
    PROVE  Invariant
<1>1. ~Running
    BY DEF Init, Running
<1>2. ServerTypes
  <2>1. box \in [FolderRef -> EmptyBoxes]
      BY DEF Init, ServerInit
  <2>2. ASSUME NEW f \in FolderRef
        PROVE  BoxSound(box[f])
    <3>1. PICK b : b = box[f]
        OBVIOUS
    <3>2. /\ b = [modseqs |-> b.modseqs, validity |-> 1, next |-> 1, modseq |-> 1,
                  held |-> NoRows]
          /\ b.modseqs \in BOOLEAN
        BY <2>1, <3>1, ServerAssumption DEF EmptyBoxes
    <3>3. DOMAIN NoRows = {} /\ NoRows \in [{} -> [mail : Mail, modseq : Nat \ {0}]]
        BY DEF NoRows
    <3>4. /\ b = [modseqs |-> b.modseqs, validity |-> b.validity, next |-> b.next,
                  modseq |-> b.modseq, held |-> b.held]
          /\ b.validity = 1 /\ b.next = 1 /\ b.modseq = 1 /\ b.held = NoRows
        BY <3>2
    <3>5. 1 \in 1..MaxValidity /\ 1 \in 1..(MaxUid + 1) /\ 1 \in Nat \ {0}
        BY ServerAssumption
    <3>6. b \in Box
        BY <3>2, <3>3, <3>4, <3>5, BoxType
    <3> QED BY <3>1, <3>3, <3>4, <3>6 DEF BoxSound
  <2> QED BY <2>1, <2>2 DEF Init, ServerInit, ServerTypes, Flags
<1>3. store = [folders |-> [f \in FolderRef |-> NeverSynchronized],
               messages |-> NoRows, memberships |-> {}]
    BY DEF Init, EmptyStore
<1>4. StoreTypes
  <2>1. NeverSynchronized \in FolderState
      BY NoPlaceAssumption DEF NeverSynchronized, FolderState
  <2>2. DOMAIN NoRows = {} /\ NoRows \in [{} -> MessageRow]
      BY DEF NoRows
  <2>3. Sound(store)
      BY <1>3, <2>1, <2>2, TablesType DEF Sound, ReferencesHold
  <2>4. NoOrphans(store)
      BY <1>3, <2>2 DEF NoOrphans
  <2> QED BY <1>3, <2>3, <2>4 DEF StoreTypes, Kept
<1>5. \A f \in FolderRef : ~Synchronized(f)
    BY <1>3 DEF Synchronized, NeverSynchronized
<1>6. CounterTypes
    BY CycleAssumption DEF Init, CounterTypes
<1> QED BY <1>1, <1>2, <1>4, <1>5, <1>6 DEF Invariant, Types, CycleTypes, SavedProves, CycleProves

\* The counters keep to their bounds.
LEMMA CountersStay ==
    ASSUME CounterTypes, [Next]_vars
    PROVE  CounterTypes'
<1> DEFINE Counted == /\ faults' = faults \/ (faults < MaxFaults /\ faults' = faults + 1)
                      /\ wishes' = wishes \/ (wishes < MaxWishes /\ wishes' = wishes + 1)
<1>1. ASSUME FirstPass PROVE Counted
    BY <1>1, Zenon DEF FirstPass, ListingEnds, Fault
<1>2. ASSUME SecondPass PROVE Counted
    BY <1>2, Zenon DEF SecondPass, ListingEnds, Fault
<1>3. ASSUME SendCommand PROVE Counted
    BY <1>3, Zenon DEF SendCommand, Fault
<1>4. ASSUME ReadFlags PROVE Counted
    BY <1>4, Zenon DEF ReadFlags, Fault
<1>5. ASSUME FetchArrivals PROVE Counted
    BY <1>5, Zenon DEF FetchArrivals, Fault
<1>6. ASSUME ~FirstPass, ~SecondPass, ~SendCommand, ~ReadFlags, ~FetchArrivals
      PROVE  Counted
    BY <1>6 DEF Next, CycleStep, vars, Open, EndChangesTheListingShows, PlanChanges,
                DropRefused, SettleConfirmed, Reopen, Finish, EndEarly, UserWishes,
                MailChanges, Fault
<1>7. Counted
    BY <1>1, <1>2, <1>3, <1>4, <1>5, <1>6
<1> QED BY <1>7, CycleAssumption DEF CounterTypes

\* The server's folders keep their shape, and move on.
LEMMA EveryStepMoves ==
    ASSUME ServerTypes, CycleTypes, [Next]_vars
    PROVE  ServerTypes' /\ ServerMoves
<1>1. CASE UNCHANGED serverVars
    BY <1>1, ServerRests
<1>2. CASE MailChanges
    BY <1>2, MailMoves
<1>3. CASE SendCommand
    BY <1>3, CommandMoves
<1>4. CASE ~MailChanges /\ ~SendCommand
  <2>1. UNCHANGED serverVars
      BY <1>4 DEF Next, CycleStep, vars, Open, FirstPass, EndChangesTheListingShows,
                  PlanChanges, DropRefused, ReadFlags, SettleConfirmed, FetchArrivals, Reopen,
                  SecondPass, Finish, EndEarly, UserWishes
  <2> QED BY <2>1, ServerRests
<1> QED BY <1>2, <1>3, <1>4

\* No step breaks what the saved numbers and a running cycle prove.
LEMMA InvariantStays ==
    ASSUME NumbersArePlaces, Invariant, [Next]_vars
    PROVE  Invariant'
<1>1. Types /\ SavedProves /\ CycleProves
    BY DEF Invariant
<1>2. ServerTypes' /\ ServerMoves /\ CounterTypes'
    BY <1>1, EveryStepMoves, CountersStay DEF Types
<1>3. SUFFICES StoreTypes' /\ CycleTypes' /\ SavedProves' /\ CycleProves'
    BY <1>2 DEF Invariant, Types
<1>4. ASSUME NEW f \in FolderRef, Open(f)
      PROVE  StoreTypes' /\ CycleTypes' /\ SavedProves' /\ CycleProves'
    BY <1>1, <1>2, <1>4, OpenProves
<1>5. CASE FirstPass
    BY <1>1, <1>2, <1>5, FirstPassProves
<1>6. CASE EndChangesTheListingShows
    BY <1>1, <1>2, <1>6, EndChangesProves
<1>7. CASE PlanChanges
    BY <1>1, <1>2, <1>7, PlanProves
<1>8. CASE SendCommand
    BY <1>1, <1>2, <1>8, SendProves
<1>9. CASE ReadFlags
    BY <1>1, <1>2, <1>9, ReadFlagsProves
<1>10. CASE SettleConfirmed
    BY <1>1, <1>2, <1>10, SettleProves
<1>11. CASE FetchArrivals
    BY <1>1, <1>2, <1>11, FetchProves
<1>12. CASE Reopen
    BY <1>1, <1>2, <1>12, ReopenProves
<1>13. CASE SecondPass
    BY <1>1, <1>2, <1>13, SecondPassProves
<1>14. CASE DropRefused \/ Finish \/ EndEarly
    BY <1>1, <1>2, <1>14, EndProves
<1>15. CASE \/ MailChanges
            \/ \E key \in DOMAIN store.messages, flag \in MessageFlag, wanted \in BOOLEAN :
                  UserWishes(key, flag, wanted)
            \/ UNCHANGED vars
    BY <1>1, <1>2, <1>15, BesidesProves
<1> QED BY <1>4, <1>5, <1>6, <1>7, <1>8, <1>9, <1>10, <1>11, <1>12, <1>13, <1>14, <1>15
        DEF Next, CycleStep

-----------------------------------------------------------------------------
(* What the invariant gives.                                               *)

LEMMA TypesHold ==
    ASSUME NumbersArePlaces, Invariant
    PROVE  TypeInvariant
<1>1. /\ DOMAIN store.folders = FolderRef
      /\ store.folders \in [DOMAIN store.folders -> FolderState]
      /\ \A k \in DOMAIN store.messages : k \in MessageKey /\ store.messages[k] \in MessageRow
      /\ store.memberships \subseteq Membership
    BY TablesType DEF Invariant, Types, StoreTypes, Kept, Sound
<1>2. Running => /\ cycle.phase \in Phases \ {"idle"}
                 /\ cycle.folder \in FolderRef
                 /\ cycle.numbers \in Place
                 /\ cycle.changes \union cycle.sent \union cycle.command \subseteq PendingChange
                 /\ cycle.missing \subseteq DOMAIN cycle.listed
    BY DEF Invariant, Types, CycleTypes, CycleRecord, NumbersArePlaces
<1>3. ASSUME Running
      PROVE  DOMAIN cycle.listed \subseteq MessageId
  <2>1. PICK T : T = [uid : 1..MaxUid, flags : Flags]
      OBVIOUS
  <2>2. cycle.listed \in PartialFunctions(MessageId, T)
      BY <1>3, <2>1 DEF Invariant, Types, CycleTypes, CycleRecord
  <2> QED BY <2>2, PartialFunctionType
<1>4. faults <= MaxFaults /\ wishes <= MaxWishes
    BY DEF Invariant, Types, CounterTypes
<1> QED BY <1>1, <1>2, <1>3, <1>4 DEF TypeInvariant

\* Saved numbers that an opening returns again prove the store: nothing
\* arrived since and the count is the same, so what is held is what is there;
\* and no message is newer than the folder, so every flag is proved.
LEMMA NumbersProve ==
    ASSUME NumbersArePlaces, Invariant
    PROVE  NumbersProveTheStore
<1> SUFFICES ASSUME NEW f \in FolderRef, box[f].modseqs,
                    store.folders[f] = [synchronized |-> TRUE, place |-> OpeningNumbers(f)]
             PROVE  Mirrored(f)
    BY DEF NumbersProveTheStore
<1>1. PICK p : p = OpeningNumbers(f)
    OBVIOUS
<1>2. Synchronized(f) /\ SavedPlace(f) = p
    BY <1>1 DEF Synchronized, SavedPlace
<1>3. Proves(f, p, {}) /\ ServerTypes
    BY <1>2 DEF Invariant, SavedProves, Types
<1>4. /\ p.uid_validity = box[f].validity /\ p.uid_next = box[f].next
      /\ p.message_count = Cardinality(Uids(f)) /\ p.highest_modseq = box[f].modseq
    BY <1>1 DEF OpeningNumbers
<1>5. HeldIn(store, f) = IdentitiesIn(f)
  <2>1. HeldIn(store, f) \union {} = HeldIn(store, f)
      OBVIOUS
  <2>2. /\ IdentitiesIn(f) \subseteq HeldIn(store, f) /\ IsFiniteSet(HeldIn(store, f))
        /\ Cardinality(HeldIn(store, f)) <= Cardinality(Uids(f))
      BY <1>3, <1>4, <2>1 DEF Proves, ProvesMessages, NoneArrived
  <2>3. Cardinality(IdentitiesIn(f)) = Cardinality(Uids(f))
        /\ Cardinality(Uids(f)) \in Nat
      BY <1>3, UidsFinite, ServerAssumption
  <2>4. /\ Cardinality(IdentitiesIn(f)) <= Cardinality(HeldIn(store, f))
        /\ Cardinality(HeldIn(store, f)) = Cardinality(IdentitiesIn(f))
              => HeldIn(store, f) = IdentitiesIn(f)
        /\ Cardinality(HeldIn(store, f)) \in Nat
      BY <2>2, FS_Subset, FS_CardinalityType
  <2> QED BY <2>2, <2>3, <2>4
<1>6. ASSUME NEW id \in IdentitiesIn(f)
      PROVE  StoredFlags(f, id) = ServerFlags(f, id)
  <2>1. \E v \in Uids(f) : IdentityAt(f, v) = id
      BY DEF IdentitiesIn
  <2>2. PICK u : u = CHOOSE v \in Uids(f) : IdentityAt(f, v) = id
      OBVIOUS
  <2>3. u \in Uids(f) /\ IdentityAt(f, u) = id
      BY <2>1, <2>2
  <2>4. box[f].held[u].modseq <= box[f].modseq
      BY <1>3, <2>3, BoxParts DEF ServerTypes, Uids
  <2>5. Agrees(f, u)
      BY <1>3, <1>4, <1>5, <2>3, <2>4 DEF Proves, ProvesFlags, Unchanged
  <2> QED BY <2>2, <2>3, <2>5 DEF Agrees, ServerFlags
<1> QED BY <1>5, <1>6 DEF Mirrored

\* The inductive invariant, for any number of accounts, folders and messages,
\* any batch size and any bounds, with and without mod-sequences.
THEOREM ImapInvariant ==
    ASSUME NumbersArePlaces
    PROVE  Spec => []Invariant
<1>1. Init => Invariant
    BY InvariantAtFirst
<1>2. Invariant /\ [Next]_vars => Invariant'
    BY InvariantStays
<1> QED BY <1>1, <1>2, PTL DEF Spec

\* The types of the stored rows and of a running cycle.
THEOREM ImapTypes ==
    ASSUME NumbersArePlaces
    PROVE  Spec => []TypeInvariant
    BY ImapInvariant, TypesHold, PTL

\* Saved numbers that an opening would return again prove the store, whatever
\* other clients, refusals and cycles cut short led to them: a pass that lists
\* nothing misses nothing.
THEOREM ImapNumbersProveTheStore ==
    ASSUME NumbersArePlaces
    PROVE  Spec => []NumbersProveTheStore
    BY ImapInvariant, NumbersProve, PTL

-----------------------------------------------------------------------------
(* How a wish ends.                                                        *)

\* A batch stored ends no wish.
LEMMA BatchEndsNoWish ==
    ASSUME StoreTypes, NEW f \in FolderRef, NEW batch, Stores(f, batch)
    PROVE  RowsGoOn(store, store')
<1>1. Kept(store) /\ f \in DOMAIN store.folders
    BY DEF StoreTypes
<1> QED BY <1>1, StoreBatchRows DEF Stores

\* The end of one value ends that value's wishes of those messages only.
LEMMA AnswerEnds ==
    ASSUME StoreTypes, NEW account, NEW ids, NEW flag \in MessageFlag, NEW value,
           NEW key \in DOMAIN store.messages, NEW g \in MessageFlag, NEW v \in BOOLEAN,
           LosesWish(store, store', key, g, v),
           \/ store' = SettleFlags(store, account, ids, flag, value)
           \/ store' = DropPendingFlags(store, account, ids, flag, value)
    PROVE  key.identity \in ids /\ g = flag /\ v = value
<1>1. PICK t : t = store'
    OBVIOUS
<1>2. Sound(store) /\ t \in {SettleFlags(store, account, ids, flag, value),
                             DropPendingFlags(store, account, ids, flag, value)}
    BY <1>1 DEF StoreTypes, Kept
<1>3. LosesOnly(store, t, KeysOf(account, ids), flag, value)
    BY <1>2, AnswerRows
<1>4. key \in KeysOf(account, ids) /\ g = flag /\ v = value
    BY <1>1, <1>3, Zenon DEF LosesOnly
<1> QED BY <1>4 DEF KeysOf, Key

\* A listing, a batch of the fill and a command end no wish: only the user,
\* a refusal of that value, and a value the server showed do.
LEMMA WishEnds ==
    ASSUME NumbersArePlaces, Invariant, [Next]_vars,
           NEW key \in DOMAIN store.messages, NEW g \in MessageFlag, NEW v \in BOOLEAN,
           LosesWish(store, store', key, g, v), key \in DOMAIN store'.messages
    PROVE  \/ UserWishes(key, g, ~v)
           \/ DropRefused /\ [identity |-> key.identity, flag |-> g, wanted |-> v]
                                \in cycle.command
           \/ Running /\ <<key.identity, g, v>> \in seen.shown
<1>1. /\ Types /\ SavedProves /\ CycleProves /\ StoreTypes
      /\ Kept(store) /\ Sound(store)
      /\ DOMAIN store.messages \subseteq MessageKey
    BY TablesType DEF Invariant, Types, StoreTypes, Kept, Sound
<1>2. key \in MessageKey /\ key.identity \in MessageId
    BY <1>1 DEF MessageKey
<1>3. ASSUME NEW account, NEW ids, NEW flag \in MessageFlag, NEW value,
             \/ store' = SettleFlags(store, account, ids, flag, value)
             \/ store' = DropPendingFlags(store, account, ids, flag, value)
      PROVE  key.identity \in ids /\ g = flag /\ v = value
    BY <1>1, <1>3, AnswerEnds
<1>4. ASSUME NEW k \in DOMAIN store.messages, NEW flag \in MessageFlag, NEW wanted \in BOOLEAN,
             UserWishes(k, flag, wanted)
      PROVE  UserWishes(key, g, ~v)
  <2>1. PICK account, id : account = k.account /\ id = k.identity
      OBVIOUS
  <2>2. key = Key(account, id) /\ g = flag /\ v # wanted
    <3>1. store' = WritePendingFlag(store, account, id, flag, wanted)
        BY <1>4, <2>1 DEF UserWishes
    <3>2. LosesTheOther(store, store', Key(account, id), flag, wanted)
        BY <1>1, <3>1, WishRows
    <3> QED BY <3>2, Zenon DEF LosesTheOther
  <2>3. k \in MessageKey
      BY <1>1
  <2>4. key = k
      BY <2>1, <2>2, <2>3 DEF Key, MessageKey
  <2>5. wanted = ~v
      BY <2>2
  <2> QED BY <1>4, <2>2, <2>4, <2>5
<1>5. Running => CycleRecord(cycle) /\ cycle.folder \in FolderRef
    BY <1>1 DEF Types, CycleTypes, CycleRecord
<1>6. ASSUME FirstPass \/ SecondPass \/ FetchArrivals
      PROVE  FALSE
  <2>1. Running
      BY <1>6, PhasesRun DEF FirstPass, SecondPass, FetchArrivals, SentAll
  <2>2. PICK f \in FolderRef : f = cycle.folder
      BY <1>5, <2>1
  <2>3. \E batch : Stores(f, batch)
    <3>1. ASSUME NEW reported, NEW complete, NEW listed, Pass(f, reported, complete, listed)
          PROVE  \E batch : Stores(f, batch)
      <4>1. PICK batch : batch = StatePassBatch(listed, complete)
          OBVIOUS
      <4> QED BY <1>1, <3>1, <4>1, PassHolds
    <3>2. CASE FirstPass
      <4>1. PICK reported, complete, listed : FirstListed(f, reported, complete, listed)
          BY <1>1, <2>2, <3>2, FirstPassLists
      <4> QED BY <3>1, <4>1 DEF FirstListed
    <3>3. CASE SecondPass
      <4>1. PICK reported, complete, listed : SecondListed(f, reported, complete, listed)
          BY <1>1, <2>2, <3>3, SecondPassLists
      <4> QED BY <3>1, <4>1 DEF SecondListed
    <3>4. CASE FetchArrivals
        BY <1>1, <2>2, <3>4, FetchFills DEF Fills
    <3> QED BY <1>6, <3>2, <3>3, <3>4
  <2>4. RowsGoOn(store, store')
      BY <1>1, <2>3, BatchEndsNoWish
  <2> QED BY <2>4 DEF RowsGoOn, LosesWish
<1>7. ASSUME EndChangesTheListingShows
      PROVE  Running /\ <<key.identity, g, v>> \in seen.shown
  <2>1. cycle.phase = "settling" /\ Running
      BY <1>7, PhasesRun DEF EndChangesTheListingShows
  <2>2. PICK f \in FolderRef : f = cycle.folder
      BY <1>5, <2>1
  <2>3. PICK c \in cycle.changes :
           store' = SettleFlags(store, f.account, Identities(SameChange(c)), c.flag, c.wanted)
      BY <1>7, <2>2 DEF EndChangesTheListingShows
  <2>4. PICK account, ids : account = f.account /\ ids = Identities(SameChange(c))
      OBVIOUS
  <2>5. key.identity \in ids /\ g = c.flag /\ v = c.wanted
    <3>1. PICK flag \in MessageFlag : flag = c.flag
        BY <1>5, <2>1, <2>3 DEF CycleRecord, PendingChange
    <3>2. PICK value : value = c.wanted
        OBVIOUS
    <3>3. \/ store' = SettleFlags(store, account, ids, flag, value)
          \/ store' = DropPendingFlags(store, account, ids, flag, value)
        BY <2>3, <2>4, <3>1, <3>2
    <3>4. key.identity \in ids /\ g = flag /\ v = value
        BY <3>3, <1>3
    <3> QED BY <3>1, <3>2, <3>4
  <2>6. PICK d \in cycle.changes : d.identity = key.identity /\ d.flag = g /\ d.wanted = v
      BY <2>4, <2>5 DEF Identities, SameChange
  <2>7. Answered(f, d)
      BY <1>1, <2>1, <2>2 DEF CycleProves, ChangesProve, Fillings
  <2> QED BY <2>1, <2>6, <2>7 DEF Answered
<1>8. ASSUME SettleConfirmed
      PROVE  Running /\ <<key.identity, g, v>> \in seen.shown
  <2>1. cycle.phase = "confirming" /\ Running
      BY <1>8, PhasesRun DEF SettleConfirmed
  <2>2. PICK f \in FolderRef : f = cycle.folder
      BY <1>5, <2>1
  <2>3. PICK c \in cycle.command :
           store' = SettleFlags(store, f.account, Identities(cycle.command), c.flag, c.wanted)
      BY <1>8, <2>2 DEF SettleConfirmed, LosesWish
  <2>4. PICK account, ids : account = f.account /\ ids = Identities(cycle.command)
      OBVIOUS
  <2>5. key.identity \in ids /\ g = c.flag /\ v = c.wanted
    <3>1. PICK flag \in MessageFlag : flag = c.flag
        BY <1>5, <2>1, <2>3 DEF CycleRecord, PendingChange
    <3>2. PICK value : value = c.wanted
        OBVIOUS
    <3>3. \/ store' = SettleFlags(store, account, ids, flag, value)
          \/ store' = DropPendingFlags(store, account, ids, flag, value)
        BY <2>3, <2>4, <3>1, <3>2
    <3>4. key.identity \in ids /\ g = flag /\ v = value
        BY <3>3, <1>3
    <3> QED BY <3>1, <3>2, <3>4
  <2>6. ChangesProve(f)
      BY <1>1, <2>1, <2>2 DEF CycleProves, Fillings
  <2>7. PICK d \in cycle.command : d.identity = key.identity /\ d.flag = g /\ d.wanted = v
      BY <2>1, <2>4, <2>5, <2>6 DEF Identities, ChangesProve
  <2>8. Answered(f, d)
      BY <2>1, <2>6 DEF ChangesProve
  <2> QED BY <2>1, <2>7, <2>8 DEF Answered
<1>9. ASSUME DropRefused
      PROVE  [identity |-> key.identity, flag |-> g, wanted |-> v] \in cycle.command
  <2>1. cycle.phase = "refused" /\ Running
      BY <1>9, PhasesRun DEF DropRefused
  <2>2. PICK f \in FolderRef : f = cycle.folder
      BY <1>5, <2>1
  <2>3. PICK c \in cycle.command :
           store' = DropPendingFlags(store, f.account, Identities(cycle.command), c.flag,
                                     c.wanted)
      BY <1>9, <2>2 DEF DropRefused
  <2>4. PICK account, ids : account = f.account /\ ids = Identities(cycle.command)
      OBVIOUS
  <2>5. key.identity \in ids /\ g = c.flag /\ v = c.wanted
    <3>1. PICK flag \in MessageFlag : flag = c.flag
        BY <1>5, <2>1, <2>3 DEF CycleRecord, PendingChange
    <3>2. PICK value : value = c.wanted
        OBVIOUS
    <3>3. \/ store' = SettleFlags(store, account, ids, flag, value)
          \/ store' = DropPendingFlags(store, account, ids, flag, value)
        BY <2>3, <2>4, <3>1, <3>2
    <3>4. key.identity \in ids /\ g = flag /\ v = value
        BY <3>3, <1>3
    <3> QED BY <3>1, <3>2, <3>4
  <2>6. ChangesProve(f)
      BY <1>1, <2>1, <2>2 DEF CycleProves, Fillings
  <2>7. PICK d \in cycle.command : d.identity = key.identity /\ d.flag = g /\ d.wanted = v
      BY <2>1, <2>4, <2>5, <2>6 DEF Identities, ChangesProve
  <2>8. d \in PendingChange
      BY <1>5, <2>1 DEF CycleRecord
  <2> QED BY <2>7, <2>8 DEF PendingChange
<1>10. store' # store
    BY DEF LosesWish
<1>11. \/ \E k \in DOMAIN store.messages, flag \in MessageFlag, wanted \in BOOLEAN :
             UserWishes(k, flag, wanted)
       \/ FirstPass \/ SecondPass \/ FetchArrivals \/ EndChangesTheListingShows
       \/ SettleConfirmed \/ DropRefused
    BY <1>10 DEF Next, CycleStep, vars, Open, PlanChanges, SendCommand, ReadFlags, Reopen,
                Finish, EndEarly, MailChanges
<1> QED BY <1>4, <1>6, <1>7, <1>8, <1>9, <1>11

\* A wish of a message that stays ends only by the user's other wish, the
\* server's refusal of that very value, or the server having shown it: no
\* listing, command sent, lost answer or cycle cut short ends it.
THEOREM ImapWishEndsOnlyWithProof ==
    ASSUME NumbersArePlaces
    PROVE  Spec => WishEndsOnlyWithProof
<1>1. Invariant /\ [Next]_vars => [WishEndsWithProof]_vars
  <2> SUFFICES ASSUME Invariant, [Next]_vars
               PROVE  WishEndsWithProof
      OBVIOUS
  <2> SUFFICES ASSUME NEW key \in DOMAIN store.messages, NEW g \in MessageFlag,
                      NEW v \in BOOLEAN, key \in DOMAIN store'.messages,
                      v \in store.messages[key].pending[g],
                      v \notin store'.messages[key].pending[g]
               PROVE  \/ UserWishes(key, g, ~v)
                      \/ DropRefused /\ [identity |-> key.identity, flag |-> g, wanted |-> v]
                                           \in cycle.command
                      \/ Running /\ <<key.identity, g, v>> \in seen.shown
      BY Zenon DEF WishEndsWithProof
  <2>1. LosesWish(store, store', key, g, v)
      BY DEF LosesWish
  <2> QED BY <2>1, WishEnds
<1> QED BY <1>1, ImapInvariant, PTL DEF WishEndsOnlyWithProof, Spec

-----------------------------------------------------------------------------
(* The cycle implements FolderMirror.                                      *)

\* The wishes to end or to send are of messages the folder holds.
ChangesAreHeld(f) ==
    /\ cycle.phase \in {"opened"} \union Fillings =>
          /\ Identities(cycle.changes) \subseteq HeldIn(store, f)
          /\ Identities(cycle.command) \subseteq HeldIn(store, f)
    /\ cycle.phase = "opened" => cycle.command = {}

\* A pass that lists less than everything starts from a folder that holds
\* what stayed, with flags that were shown or are to be listed.
OpeningPromise(f) ==
    /\ seen.steady \subseteq HeldIn(store, f)
    /\ HeldIn(store, f) \subseteq seen.ever
    /\ \A id \in seen.steady :
          \/ WereShown(id, StoredFlags(f, id))
          \/ /\ cycle.plan.lists = "ChangedFlags"
             /\ \E u \in Uids(f) : /\ IdentityAt(f, u) = id
                                   /\ box[f].held[u].modseq > cycle.plan.since

\* What is held and what is missing are together what stayed, and the flags
\* held were shown.
FillPromise(f, missing) ==
    /\ seen.steady \subseteq HeldIn(store, f) \union missing
    /\ HeldIn(store, f) \union missing \subseteq seen.ever
    /\ \A id \in seen.steady \intersect HeldIn(store, f) : WereShown(id, StoredFlags(f, id))

\* What a complete cycle will have kept.
Promise ==
    Running =>
        /\ ChangesAreHeld(cycle.folder)
        /\ cycle.phase \in Openings /\ cycle.plan.lists # "Everything"
              => OpeningPromise(cycle.folder)
        /\ cycle.phase \in Fillings /\ cycle.complete /\ ~cycle.withheld
              => FillPromise(cycle.folder, cycle.missing)
        /\ cycle.phase = "reopened" /\ cycle.complete
              => seen.steady \subseteq HeldIn(store, cycle.folder)
        /\ cycle.phase = "closing" /\ cycle.complete => FillPromise(cycle.folder, {})

\* What was and what has been only grows, what stayed only shrinks.
LEMMA SeenGrows ==
    ASSUME NEW f, SeenGoesOn(f)
    PROVE  /\ seen'.steady \subseteq seen.steady
           /\ seen.ever \subseteq seen'.ever /\ seen.shown \subseteq seen'.shown
    BY DEF SeenGoesOn

\* The flags of what the folder holds are no less shown than they were.
StillShown(f) ==
    \A id \in HeldIn(store, f) :
        WereShown(id, StoredFlags(f, id)) => WereShown(id, StoredFlags(f, id)')

LEMMA FillPromiseRests ==
    ASSUME NEW f, NEW missing, FillPromise(f, missing), SeenGoesOn(f),
           HeldIn(store, f)' = HeldIn(store, f), StillShown(f)
    PROVE  FillPromise(f, missing)'
<1>1. /\ seen'.steady \subseteq seen.steady
      /\ seen.ever \subseteq seen'.ever /\ seen.shown \subseteq seen'.shown
    BY SeenGrows
<1>2. ASSUME NEW id \in seen'.steady \intersect HeldIn(store, f)'
      PROVE  WereShown(id, StoredFlags(f, id))'
  <2>1. WereShown(id, StoredFlags(f, id)')
      BY <1>1, <1>2 DEF FillPromise, StillShown
  <2> QED BY <1>1, <2>1 DEF WereShown
<1> QED BY <1>1, <1>2 DEF FillPromise

\* A step between the first pass and the second opening.
LEMMA FillPromiseStep ==
    ASSUME Promise, Running, NEW f \in FolderRef, f = cycle.folder,
           cycle.phase \in Fillings, cycle'.phase \in Fillings, FillStays, SeenGoesOn(f),
           HeldIn(store, f)' = HeldIn(store, f), StillShown(f),
           Identities(cycle'.changes) \subseteq HeldIn(store, f),
           Identities(cycle'.command) \subseteq HeldIn(store, f)
    PROVE  Promise'
<1>1. /\ cycle'.folder = f /\ cycle'.complete = cycle.complete
      /\ cycle'.withheld = cycle.withheld /\ cycle'.missing = cycle.missing
    BY DEF FillStays
<1>2. ChangesAreHeld(f)'
    BY DEF ChangesAreHeld, Identities, Fillings
<1>3. ASSUME cycle.complete, ~cycle.withheld
      PROVE  FillPromise(f, cycle.missing)'
  <2>1. PICK missing : missing = cycle.missing
      OBVIOUS
  <2>2. FillPromise(f, missing)
      BY <1>3, <2>1 DEF Promise
  <2>3. FillPromise(f, missing)'
      BY <2>2, FillPromiseRests
  <2> QED BY <1>1, <2>1, <2>3
<1>4. cycle'.phase \notin Openings /\ cycle'.phase \notin {"reopened", "closing"}
    BY DEF Openings, Fillings
<1> QED BY <1>1, <1>2, <1>3, <1>4 DEF Promise

\* The changes read from the store are of messages the folder holds.
LEMMA PendingHeld ==
    ASSUME NEW f, NEW s
    PROVE  Identities(ReadPendingChanges(s, f)) \subseteq HeldIn(s, f)
    BY DEF Identities, ReadPendingChanges

\* A shortened listing starts from numbers that prove the store, so from a
\* folder that holds what is there now, with flags that are of now unless
\* their messages changed since those numbers.
LEMMA OpeningKeeps ==
    ASSUME ServerTypes, UNCHANGED <<serverVars, store>>, NEW f \in FolderRef,
           NEW r, r = NoPlace \/ r \in Numbers, r # NoPlace => Proves(f, r, {}),
           NEW pending, NEW p, p = OpeningNumbers(f),
           NEW plan, plan = PassPlan(p, r, pending), plan.lists # "Everything",
           cycle'.plan = plan, seen'.steady \subseteq IdentitiesIn(f),
           seen'.ever = IdentitiesIn(f), seen'.shown = FlagValues(f)
    PROVE  OpeningPromise(f)'
<1>1. p \in Numbers /\ Earlier(f, p)
    BY OpeningTypes DEF Earlier
<1>2. /\ plan \in PassPlans /\ r # NoPlace /\ r \in Numbers /\ plan.since = r.highest_modseq
      /\ [p EXCEPT !.highest_modseq = plan.since] = r
      /\ plan.lists = "Nothing" => plan.since = p.highest_modseq
    BY <1>1, PassPlanMeans
<1>3. /\ r.uid_validity = box[f].validity /\ r.uid_next = box[f].next
      /\ r.message_count = Cardinality(Uids(f))
    BY <1>1, <1>2 DEF Numbers, OpeningNumbers
<1>4. p.highest_modseq = box[f].modseq
    BY <1>2 DEF PassPlan, OpeningNumbers
<1>5. HeldIn(store, f) = IdentitiesIn(f)
  <2>1. PICK held : held = HeldIn(store, f)
      OBVIOUS
  <2>2. held \union {} = held
      OBVIOUS
  <2>3. /\ IdentitiesIn(f) \subseteq held /\ IsFiniteSet(held)
        /\ Cardinality(held) <= r.message_count
      BY <1>2, <1>3, <2>1, <2>2 DEF Proves, ProvesMessages, NoneArrived
  <2>4. Cardinality(IdentitiesIn(f)) = Cardinality(Uids(f))
      BY UidsFinite
  <2>5. /\ Cardinality(held) \in Nat /\ Cardinality(IdentitiesIn(f)) \in Nat
        /\ Cardinality(IdentitiesIn(f)) <= Cardinality(held)
        /\ Cardinality(IdentitiesIn(f)) = Cardinality(held) => IdentitiesIn(f) = held
      BY <2>3, FS_Subset, FS_CardinalityType
  <2> QED BY <1>3, <2>1, <2>3, <2>4, <2>5
<1>6. ASSUME NEW id \in seen'.steady
      PROVE  \/ WereShown(id, StoredFlags(f, id))'
             \/ /\ plan.lists = "ChangedFlags"
                /\ \E u \in Uids(f) : IdentityAt(f, u) = id /\ box[f].held[u].modseq > plan.since
  <2>1. PICK u \in Uids(f) : IdentityAt(f, u) = id
      BY DEF IdentitiesIn
  <2>2. /\ box[f].held[u].modseq \in Nat /\ box[f].held[u].modseq <= box[f].modseq
        /\ plan.since \in Nat
      BY <1>2, BoxParts DEF ServerTypes, Uids, PassPlans
  <2>3. CASE box[f].held[u].modseq <= plan.since
    <3>1. Unchanged(f, r, u)
        BY <1>2, <1>3, <2>3 DEF Unchanged
    <3>2. IdentityAt(f, u) \in HeldIn(store, f)
        BY <1>5, <2>1
    <3>3. Agrees(f, u)
        BY <1>2, <3>1, <3>2 DEF Proves, ProvesFlags
    <3>4. StoredFlags(f, id)' = FlagsAt(f, u)
        BY <2>1, <3>3 DEF Agrees, StoredFlags
    <3>5. \A g \in MessageFlag : <<id, g, FlagsAt(f, u)[g]>> \in FlagValues(f)
        BY <2>1 DEF FlagValues
    <3> QED BY <3>4, <3>5 DEF WereShown
  <2>4. CASE box[f].held[u].modseq > plan.since
      BY <1>2, <1>4, <2>1, <2>2, <2>4 DEF PassPlans
  <2> QED BY <2>2, <2>3, <2>4
<1>7. /\ Uids(f)' = Uids(f) /\ box' = box /\ HeldIn(store, f)' = HeldIn(store, f)
      /\ \A u : IdentityAt(f, u)' = IdentityAt(f, u)
    BY DEF serverVars, Uids, IdentityAt
<1>8. \A id \in seen'.steady :
         \/ WereShown(id, StoredFlags(f, id))'
         \/ /\ cycle'.plan.lists = "ChangedFlags"
            /\ \E u \in Uids(f)' : IdentityAt(f, u)' = id /\ box'[f].held[u].modseq > cycle'.plan.since
    BY <1>6, <1>7
<1>9. seen'.steady \subseteq HeldIn(store, f)' /\ HeldIn(store, f)' \subseteq seen'.ever
    BY <1>5, <1>7
<1> QED BY <1>8, <1>9 DEF OpeningPromise

LEMMA OpenPromises ==
    ASSUME Types, SavedProves, NEW f \in FolderRef, Open(f)
    PROVE  Promise'
<1>1. UNCHANGED <<serverVars, store>>
    BY DEF Open
<1>2. PICK p, r, pending, plan, stored :
         /\ p = OpeningNumbers(f) /\ pending = ReadPendingChanges(store, f)
         /\ r = (IF Synchronized(f) THEN SavedPlace(f) ELSE NoPlace)
         /\ plan = PassPlan(p, r, pending # {})
         /\ stored = ReadFolderSync(store, f)
    OBVIOUS
<1>3. /\ cycle' = [phase |-> "opened", folder |-> f, numbers |-> p, plan |-> plan,
                   stored |-> stored, changes |-> pending, listed |-> NoRows,
                   complete |-> TRUE, missing |-> {}, fetched |-> FALSE, withheld |-> FALSE,
                   sent |-> {}, command |-> {}]
      /\ seen' = SeenAtOpening(f)
    BY <1>2 DEF Open, ReadFolderSync, Synchronized, SavedPlace
<1>4. r = NoPlace \/ (r \in Numbers /\ Proves(f, r, {}))
    BY <1>2 DEF SavedProves, Earlier
<1>5. /\ cycle'.phase = "opened" /\ cycle'.folder = f /\ cycle'.plan = plan
      /\ cycle'.changes = pending /\ cycle'.command = {}
      /\ seen'.steady = IdentitiesIn(f) /\ seen'.ever = IdentitiesIn(f)
      /\ seen'.shown = FlagValues(f)
    BY <1>3 DEF SeenAtOpening
<1>6. plan.lists # "Everything" => OpeningPromise(f)'
    BY <1>1, <1>2, <1>4, <1>5, OpeningKeeps DEF Types
<1>7. ChangesAreHeld(f)'
  <2>1. Identities(pending) \subseteq HeldIn(store, f)'
      BY <1>1, <1>2, PendingHeld
  <2>2. Identities({}) = {}
      BY DEF Identities
  <2> QED BY <1>5, <2>1, <2>2 DEF ChangesAreHeld
<1>8. cycle'.phase \notin Fillings
    BY <1>5 DEF Fillings
<1> QED BY <1>5, <1>6, <1>7, <1>8 DEF Promise

LEMMA ReopenPromises ==
    ASSUME Types, CycleProves, Promise, Reopen
    PROVE  Promise'
<1>1. /\ UNCHANGED <<serverVars, store>> /\ cycle.phase = "sending" /\ Running
      /\ ~cycle.withheld /\ cycle.missing = {}
    BY PhasesRun DEF Reopen, SentAll
<1>2. CycleRecord(cycle)
    BY <1>1 DEF Types, CycleTypes
<1>3. PICK f \in FolderRef : f = cycle.folder
    BY <1>2 DEF CycleRecord
<1>4. PICK p, r, plan, stored :
         /\ p = OpeningNumbers(f)
         /\ r = (IF cycle.complete THEN cycle.numbers ELSE NoPlace)
         /\ plan = PassPlan(p, r, FALSE)
         /\ stored = ReadFolderSync(store, f)
    OBVIOUS
<1>5. /\ cycle' = [cycle EXCEPT !.phase = "reopened", !.numbers = p, !.plan = plan,
                                !.stored = stored]
      /\ seen' = [SeenAtOpening(f) EXCEPT !.steady = seen.steady]
    BY <1>3, <1>4 DEF Reopen
<1>6. /\ cycle'.phase = "reopened" /\ cycle'.plan = plan /\ cycle'.folder = f
      /\ cycle'.complete = cycle.complete
      /\ seen'.steady = seen.steady /\ seen'.ever = IdentitiesIn(f)
      /\ seen'.shown = FlagValues(f)
    BY <1>2, <1>3, <1>5 DEF CycleRecord, CycleFields, SeenAtOpening
<1>7. FillKeeps(f) /\ Watches(f) /\ cycle.numbers \in Numbers
    BY <1>1, <1>2, <1>3 DEF CycleProves, Fillings, CycleRecord
<1>8. r = NoPlace \/ (r \in Numbers /\ Proves(f, r, {}))
    BY <1>1, <1>4, <1>7 DEF FillKeeps
<1>9. seen'.steady \subseteq IdentitiesIn(f)
    BY <1>6, <1>7 DEF Watches
<1>10. plan.lists # "Everything" => OpeningPromise(f)'
  <2>1. PICK pending : pending = FALSE
      OBVIOUS
  <2>2. p = OpeningNumbers(f) /\ plan = PassPlan(p, r, pending)
      BY <1>4, <2>1
  <2>3. cycle'.plan = plan /\ seen'.ever = IdentitiesIn(f) /\ seen'.shown = FlagValues(f)
      BY <1>6
  <2> QED BY <1>1, <1>8, <1>9, <2>2, <2>3, OpeningKeeps DEF Types
<1>11. cycle.complete => seen'.steady \subseteq HeldIn(store, f)'
  <2>1. cycle.complete => seen.steady \subseteq HeldIn(store, f) \union cycle.missing
      BY <1>1, <1>3 DEF Promise, FillPromise, Fillings
  <2> QED BY <1>1, <1>6, <2>1
<1>12. ChangesAreHeld(f)' /\ cycle'.phase \notin Fillings
    BY <1>6 DEF ChangesAreHeld, Fillings
<1> QED BY <1>6, <1>10, <1>11, <1>12 DEF Promise

\* No other folder gains or loses a message, and one whose flags change there
\* is in this folder too.
StoresTogether(f) ==
    \A g \in FolderRef \ {f} :
        /\ HeldIn(store, g)' = HeldIn(store, g)
        /\ \A m \in HeldIn(store, g) :
              StoredFlags(g, m)' # StoredFlags(g, m) =>
                  g.account = f.account /\ m \in HeldIn(store, f)'

LEMMA BatchTogether ==
    ASSUME StoreTypes, NEW f \in FolderRef, NEW batch, Stores(f, batch),
           DOMAIN batch.flag_states \subseteq HeldIn(store, f)'
    PROVE  StoresTogether(f)
<1>1. /\ HeldIn(store, f)' = (HeldIn(store, f) \ batch.removed)
            \union DOMAIN batch.arrived \union DOMAIN batch.known_arrived
      /\ \A g \in FolderRef \ {f} : HeldIn(store, g)' = HeldIn(store, g)
      /\ \A g \in FolderRef : \A id \in HeldIn(store, g)' :
            StoredFlags(g, id)' = FlagsAfter(store, f.account, batch, Key(g.account, id))
    BY BatchStores
<1>2. ASSUME NEW g \in FolderRef \ {f}, NEW m \in HeldIn(store, g),
             StoredFlags(g, m)' # StoredFlags(g, m)
      PROVE  g.account = f.account /\ m \in HeldIn(store, f)'
  <2>1. PICK k : k = Key(g.account, m)
      OBVIOUS
  <2>2. FlagsAfter(store, f.account, batch, k) # store.messages[k].server
      BY <1>1, <1>2, <2>1 DEF StoredFlags
  <2>3. \/ k \in KeysOf(f.account, DOMAIN batch.known_arrived)
        \/ k \in KeysOf(f.account, DOMAIN batch.arrived)
        \/ k \in KeysOf(f.account, DOMAIN batch.flag_states)
      BY <2>2 DEF FlagsAfter
  <2>4. \A ids : k \in KeysOf(f.account, ids) => g.account = f.account /\ m \in ids
      BY <2>1 DEF KeysOf, Key
  <2> QED BY <1>1, <2>3, <2>4
<1> QED BY <1>1, <1>2 DEF StoresTogether

\* A listing takes out none that stayed, and none that it names.
LEMMA PassKeeps ==
    ASSUME NumbersArePlaces, Types, CycleProves, NEW f \in FolderRef, NEW reported,
           NEW complete, NEW listed, Pass(f, reported, complete, listed)
    PROVE  /\ HeldIn(store, f)' \subseteq HeldIn(store, f)
           /\ seen.steady \intersect HeldIn(store, f) \subseteq HeldIn(store, f)'
           /\ DOMAIN listed \intersect HeldIn(store, f) \subseteq HeldIn(store, f)'
           /\ StoresTogether(f)
<1>1. PICK batch : batch = StatePassBatch(listed, complete)
    OBVIOUS
<1>2. /\ Stores(f, batch) /\ HeldIn(store, f)' = HeldIn(store, f) \ batch.removed
      /\ complete /\ cycle.plan.lists = "Everything"
            => batch.removed = HeldIn(store, f) \ DOMAIN listed
      /\ ~(complete /\ cycle.plan.lists = "Everything") => batch.removed = {}
      /\ DOMAIN batch.flag_states \subseteq DOMAIN listed \intersect HeldIn(store, f)
    BY <1>1, PassHolds, PassBatchMeans DEF ListingBatch
<1>3. DOMAIN listed \intersect HeldIn(store, f) \subseteq HeldIn(store, f)'
    BY <1>2
<1>4. StoresTogether(f)
    BY <1>2, <1>3, BatchTogether DEF Types
<1>5. ASSUME complete, cycle.plan.lists = "Everything"
      PROVE  seen.steady \subseteq DOMAIN listed
  <2>1. CASE cycle.numbers.message_count = 0
      BY <2>1 DEF Pass, CycleProves, OpeningProves
  <2>2. CASE cycle.numbers.message_count # 0
    <3>1. reported = Uids(f) /\ listed = Identify(f, reported)
        BY <1>5, <2>2, PassListed DEF Pass
    <3>2. \A u \in Uids(f) : IdentityAt(f, u) \in DOMAIN listed
        BY <3>1, IdentifyMeans DEF Types
    <3>3. seen.steady \subseteq IdentitiesIn(f)
        BY DEF Pass, CycleProves, Watches
    <3> QED BY <3>2, <3>3 DEF IdentitiesIn
  <2> QED BY <2>1, <2>2
<1>6. seen.steady \intersect HeldIn(store, f) \subseteq HeldIn(store, f)'
    BY <1>2, <1>5
<1> QED BY <1>2, <1>3, <1>4, <1>6

\* A completed listing: with what is missing the folder holds what stayed, and
\* the flags it holds were shown.
LEMMA PassPromises ==
    ASSUME NumbersArePlaces, Types, CycleProves, NEW f \in FolderRef, NEW reported,
           NEW complete, NEW listed, Pass(f, reported, complete, listed),
           cycle.plan.lists # "Everything" => OpeningPromise(f),
           NEW missing, missing = DOMAIN listed \ HeldIn(store, f)
    PROVE  complete => FillPromise(f, missing)'
<1> SUFFICES ASSUME complete
             PROVE  FillPromise(f, missing)'
    OBVIOUS
<1>1. PICK batch, held, p :
         batch = StatePassBatch(listed, complete) /\ held = HeldIn(store, f)' /\ p = cycle.numbers
    OBVIOUS
<1>2. /\ Stores(f, batch) /\ held = HeldIn(store, f) \ batch.removed
      /\ cycle.plan.lists = "Everything" => batch.removed = HeldIn(store, f) \ DOMAIN listed
      /\ cycle.plan.lists # "Everything" => batch.removed = {}
      /\ batch.arrived = NoRows /\ batch.known_arrived = NoRows
      /\ \A i \in DOMAIN batch.flag_states : batch.flag_states[i] = listed[i].flags
      /\ DOMAIN batch.flag_states \subseteq DOMAIN listed
      /\ \A i \in DOMAIN listed \intersect HeldIn(store, f) :
            i \notin DOMAIN batch.flag_states => StoredFlags(f, i) = listed[i].flags
  <2>1. Stores(f, batch) /\ held = HeldIn(store, f) \ batch.removed
      BY <1>1, PassHolds
  <2>2. ListingBatch(f, listed, complete, batch)
      BY <1>1, PassBatchMeans
  <2> QED BY <2>1, <2>2 DEF ListingBatch
<1>3. /\ reported \in SUBSET Uids(f) /\ listed = Identify(f, reported)
      /\ cycle.plan.lists = "Nothing" \/ p.message_count = 0 => reported = {}
      /\ cycle.plan.lists = "ChangedFlags" /\ p.message_count # 0
            => \A u \in Uids(f) : box[f].held[u].modseq > cycle.plan.since => u \in reported
      /\ cycle.plan.lists = "Everything" /\ p.message_count # 0 => reported = Uids(f)
    BY <1>1, PassListed DEF Pass
<1>4. /\ Watches(f) /\ OpeningProves(f)
      /\ cycle.plan.lists \in {"Nothing", "ChangedFlags", "Everything"}
    BY DEF Pass, CycleProves, Types, CycleTypes, CycleRecord, PassPlans
<1>5. /\ DOMAIN listed \subseteq IdentitiesIn(f)
      /\ \A u \in reported : IdentityAt(f, u) \in DOMAIN listed
    BY <1>3, IdentifyMeans DEF Types
<1>6. DOMAIN listed \subseteq seen.ever
    BY <1>4, <1>5 DEF Watches
<1>7. seen.steady \subseteq held \union missing /\ held \union missing \subseteq seen.ever
  <2>1. CASE cycle.plan.lists = "Everything"
    <3>1. held \union missing = DOMAIN listed
        BY <1>2, <2>1
    <3>2. seen.steady \subseteq DOMAIN listed
      <4>1. CASE p.message_count = 0
          BY <1>1, <1>4, <4>1 DEF OpeningProves
      <4>2. CASE p.message_count # 0
          BY <1>3, <1>4, <1>5, <2>1, <4>2 DEF Watches, IdentitiesIn
      <4> QED BY <4>1, <4>2
    <3> QED BY <1>6, <3>1, <3>2
  <2>2. CASE cycle.plan.lists # "Everything"
      BY <1>2, <1>6, <2>2 DEF OpeningPromise
  <2> QED BY <2>1, <2>2
<1>8. \A id \in held : StoredFlags(f, id)' = IF id \in DOMAIN batch.flag_states
                                             THEN listed[id].flags ELSE StoredFlags(f, id)
  <2> SUFFICES ASSUME NEW id \in held
               PROVE  StoredFlags(f, id)' = IF id \in DOMAIN batch.flag_states
                                            THEN listed[id].flags ELSE StoredFlags(f, id)
      OBVIOUS
  <2>1. PICK k : k = Key(f.account, id)
      OBVIOUS
  <2>2. StoredFlags(f, id)' = FlagsAfter(store, f.account, batch, k)
    <3>1. \A g \in FolderRef : \A i \in HeldIn(store, g)' :
             StoredFlags(g, i)' = FlagsAfter(store, f.account, batch, Key(g.account, i))
        BY <1>2, BatchStores DEF Types
    <3> QED BY <1>1, <2>1, <3>1
  <2>3. k.identity = id /\ \A ids : k \in KeysOf(f.account, ids) <=> id \in ids
      BY <2>1 DEF KeysOf, Key
  <2>4. DOMAIN NoRows = {}
      BY DEF NoRows
  <2> QED BY <1>2, <2>1, <2>2, <2>3, <2>4 DEF FlagsAfter, StoredFlags
<1>9. ASSUME NEW id \in seen.steady \intersect held
      PROVE  WereShown(id, StoredFlags(f, id)')
  <2>1. CASE id \in DOMAIN listed
    <3>1. StoredFlags(f, id)' = listed[id].flags
        BY <1>2, <1>8, <1>9, <2>1
    <3>2. WereShown(id, listed[id].flags)
        BY <1>3, <1>4, <2>1, ListedWereShown DEF Types
    <3> QED BY <3>1, <3>2
  <2>2. CASE id \notin DOMAIN listed
    <3>1. StoredFlags(f, id)' = StoredFlags(f, id)
        BY <1>2, <1>8, <1>9, <2>2
    <3>2. cycle.plan.lists # "Everything" /\ p.message_count # 0
        BY <1>1, <1>2, <1>4, <1>9, <2>2 DEF OpeningProves
    <3>3. ASSUME NEW u \in Uids(f), IdentityAt(f, u) = id,
                 cycle.plan.lists = "ChangedFlags", box[f].held[u].modseq > cycle.plan.since
          PROVE  FALSE
        BY <1>3, <1>5, <2>2, <3>2, <3>3
    <3>4. WereShown(id, StoredFlags(f, id))
        BY <1>9, <3>2, <3>3 DEF OpeningPromise
    <3> QED BY <3>1, <3>4
  <2> QED BY <2>1, <2>2
<1>10. seen' = seen
    BY DEF Pass
<1>11. \A id \in seen'.steady \intersect held : WereShown(id, StoredFlags(f, id))'
    BY <1>9, <1>10 DEF WereShown
<1> QED BY <1>1, <1>7, <1>10, <1>11 DEF FillPromise

LEMMA FirstPassPromises ==
    ASSUME NumbersArePlaces, Types, CycleProves, Promise, FirstPass
    PROVE  Promise'
<1>1. cycle.phase = "opened" /\ Running
    BY PhasesRun DEF FirstPass
<1>2. PICK f \in FolderRef : f = cycle.folder
    BY <1>1 DEF Types, CycleTypes, CycleRecord
<1>3. PICK reported, complete, listed : FirstListed(f, reported, complete, listed)
    BY <1>2, FirstPassLists
<1>4. PICK missing : missing = DOMAIN listed \ HeldIn(store, f)
    OBVIOUS
<1>5. /\ Pass(f, reported, complete, listed)
      /\ cycle'.phase = "settling" /\ cycle'.folder = f /\ cycle'.complete = complete
      /\ cycle'.missing = missing /\ cycle'.changes = ShownAlready(listed)
      /\ cycle'.command = cycle.command
    BY <1>2, <1>3, <1>4 DEF FirstListed, CycleFields
<1>6. ChangesAreHeld(f) /\ (cycle.plan.lists # "Everything" => OpeningPromise(f))
    BY <1>1, <1>2 DEF Promise, Openings
<1>7. complete => FillPromise(f, missing)'
    BY <1>4, <1>5, <1>6, PassPromises
<1>8. DOMAIN listed \intersect HeldIn(store, f) \subseteq HeldIn(store, f)'
    BY <1>5, PassKeeps
<1>9. ChangesAreHeld(f)'
  <2>1. \A c \in ShownAlready(listed) :
           c.identity \in DOMAIN listed /\ c.identity \in HeldIn(store, f)
      BY <1>1, <1>6 DEF ShownAlready, ChangesAreHeld, Identities
  <2>2. Identities(ShownAlready(listed)) \subseteq HeldIn(store, f)'
      BY <1>8, <2>1 DEF Identities
  <2>3. Identities(cycle'.command) = {}
      BY <1>1, <1>5, <1>6 DEF ChangesAreHeld, Identities
  <2> QED BY <1>5, <2>2, <2>3 DEF ChangesAreHeld
<1>10. cycle'.phase \notin Openings
    BY <1>5 DEF Openings
<1> QED BY <1>5, <1>7, <1>9, <1>10 DEF Promise

LEMMA SecondPassPromises ==
    ASSUME NumbersArePlaces, Types, CycleProves, Promise, SecondPass
    PROVE  Promise'
<1>1. cycle.phase = "reopened" /\ Running
    BY PhasesRun DEF SecondPass
<1>2. PICK f \in FolderRef : f = cycle.folder
    BY <1>1 DEF Types, CycleTypes, CycleRecord
<1>3. PICK reported, complete, listed : SecondListed(f, reported, complete, listed)
    BY <1>2, SecondPassLists
<1>4. PICK missing : missing = DOMAIN listed \ HeldIn(store, f)
    OBVIOUS
<1>5. /\ Pass(f, reported, complete, listed) /\ cycle'.phase = "closing" /\ cycle'.folder = f
      /\ cycle'.complete = (cycle.complete /\ complete)
    BY <1>2, <1>3 DEF SecondListed, CycleFields
<1>6. cycle.plan.lists # "Everything" => OpeningPromise(f)
    BY <1>1, <1>2 DEF Promise, Openings
<1>7. complete => FillPromise(f, missing)'
    BY <1>4, <1>5, <1>6, PassPromises
<1>8. ASSUME cycle.complete, complete
      PROVE  FillPromise(f, {})'
  <2>1. seen.steady \subseteq HeldIn(store, f)' /\ seen' = seen
      BY <1>1, <1>2, <1>5, <1>8, PassKeeps DEF Promise, Pass
  <2> QED BY <1>7, <1>8, <2>1 DEF FillPromise
<1>9. ChangesAreHeld(f)' /\ cycle'.phase \notin Openings /\ cycle'.phase \notin Fillings
    BY <1>5 DEF ChangesAreHeld, Openings, Fillings
<1> QED BY <1>5, <1>8, <1>9 DEF Promise

\* A value that was shown is settled.
LEMMA SettledShown ==
    ASSUME StoreTypes, NEW account, NEW ids, NEW flag \in MessageFlag, NEW value \in BOOLEAN,
           store' = SettleFlags(store, account, ids, flag, value),
           \A id \in ids : <<id, flag, value>> \in seen.shown
    PROVE  /\ \A g : HeldIn(store, g)' = HeldIn(store, g)
           /\ \A g \in FolderRef : StillShown(g)
           /\ \A g \in FolderRef : \A m \in HeldIn(store, g) :
                 StoredFlags(g, m)' # StoredFlags(g, m) => g.account = account /\ m \in ids
<1>1. Kept(store)
    BY DEF StoreTypes
<1>2. PICK t : t = store'
    OBVIOUS
<1>3. t.memberships = store.memberships
      /\ ServerFlagSet(store, t, KeysOf(account, ids), flag, value)
    BY <1>1, <1>2, SettledRows
<1>4. \A g : HeldIn(store, g)' = HeldIn(store, g)
    BY <1>2, <1>3, SameMemberships
<1>5. ASSUME NEW g \in FolderRef, NEW m \in HeldIn(store, g)
      PROVE  /\ StoredFlags(g, m)' # StoredFlags(g, m) => g.account = account /\ m \in ids
             /\ WereShown(m, StoredFlags(g, m)) => WereShown(m, StoredFlags(g, m)')
  <2>1. PICK k, values : k = Key(g.account, m) /\ values = StoredFlags(g, m)
      OBVIOUS
  <2>2. k \in DOMAIN store.messages /\ store.messages[k] \in MessageRow
      BY <1>1, <2>1, HeldIsStored DEF Kept
  <2>3. values \in Flags /\ values = store.messages[k].server
      BY <2>1, <2>2 DEF MessageRow, StoredFlags
  <2>4. StoredFlags(g, m)' = IF k \in KeysOf(account, ids) THEN [values EXCEPT ![flag] = value]
                             ELSE values
      BY <1>2, <1>3, <2>1, <2>2, <2>3 DEF ServerFlagSet, StoredFlags
  <2>5. k \in KeysOf(account, ids) => g.account = account /\ m \in ids
      BY <2>1 DEF KeysOf, Key
  <2>6. ASSUME k \in KeysOf(account, ids), WereShown(m, values)
        PROVE  WereShown(m, [values EXCEPT ![flag] = value])
    <3>1. <<m, flag, value>> \in seen.shown
        BY <2>5, <2>6
    <3>2. \A h \in MessageFlag : [values EXCEPT ![flag] = value][h]
                                    = IF h = flag THEN value ELSE values[h]
        BY <2>3 DEF Flags
    <3> QED BY <2>6, <3>1, <3>2 DEF WereShown
  <2> QED BY <2>1, <2>4, <2>5, <2>6
<1> QED BY <1>4, <1>5 DEF StillShown

\* Both settlements end changes of messages the folder holds, with values the
\* server showed.
LEMMA SettlementKeeps ==
    ASSUME Types, CycleProves, Promise, EndChangesTheListingShows \/ SettleConfirmed,
           NEW f \in FolderRef, f = cycle.folder
    PROVE  /\ HeldIn(store, f)' = HeldIn(store, f) /\ StillShown(f) /\ StoresTogether(f)
           /\ Running /\ cycle.phase \in {"settling", "confirming"}
<1>1. Running /\ cycle.phase \in {"settling", "confirming"}
    BY PhasesRun DEF EndChangesTheListingShows, SettleConfirmed
<1>2. ChangesProve(f) /\ ChangesAreHeld(f) /\ CycleRecord(cycle)
    BY <1>1 DEF CycleProves, Promise, Fillings, Types, CycleTypes
<1>3. CASE store' = store
    BY <1>1, <1>3 DEF StillShown, StoresTogether, StoredFlags
<1>4. CASE store' # store
  <2>1. PICK c \in PendingChange, ids \in SUBSET HeldIn(store, f) :
           /\ store' = SettleFlags(store, f.account, ids, c.flag, c.wanted)
           /\ \A id \in ids : <<id, c.flag, c.wanted>> \in seen.shown
    <3>1. CASE EndChangesTheListingShows
      <4>1. PICK c \in cycle.changes :
               store' = SettleFlags(store, f.account, Identities(SameChange(c)), c.flag,
                                    c.wanted)
          BY <3>1 DEF EndChangesTheListingShows
      <4>2. cycle.phase = "settling"
          BY <3>1 DEF EndChangesTheListingShows
      <4>3. ASSUME NEW id \in Identities(SameChange(c))
            PROVE  id \in HeldIn(store, f) /\ <<id, c.flag, c.wanted>> \in seen.shown
        <5>1. PICK d \in cycle.changes : d.identity = id /\ d.flag = c.flag /\ d.wanted = c.wanted
            BY DEF Identities, SameChange
        <5>2. Answered(f, d) /\ d.identity \in Identities(cycle.changes)
            BY <1>2, <4>2, <5>1 DEF ChangesProve, Identities
        <5> QED BY <1>2, <4>2, <5>1, <5>2 DEF Answered, ChangesAreHeld, Fillings
      <4>4. PICK ids : ids = Identities(SameChange(c))
          OBVIOUS
      <4>5. c \in PendingChange
          BY <1>2 DEF CycleRecord
      <4> QED BY <4>1, <4>3, <4>4, <4>5
    <3>2. CASE SettleConfirmed
      <4>1. PICK c \in cycle.command :
               store' = SettleFlags(store, f.account, Identities(cycle.command), c.flag,
                                    c.wanted)
          BY <1>4, <3>2 DEF SettleConfirmed
      <4>2. cycle.phase = "confirming"
          BY <3>2 DEF SettleConfirmed
      <4>3. ASSUME NEW id \in Identities(cycle.command)
            PROVE  id \in HeldIn(store, f) /\ <<id, c.flag, c.wanted>> \in seen.shown
        <5>1. PICK d \in cycle.command : d.identity = id
            BY DEF Identities
        <5>2. Answered(f, d) /\ d.flag = c.flag /\ d.wanted = c.wanted
            BY <1>2, <4>2, <5>1 DEF ChangesProve
        <5> QED BY <1>2, <4>2, <5>1, <5>2 DEF Answered, ChangesAreHeld, Fillings
      <4>4. PICK ids : ids = Identities(cycle.command)
          OBVIOUS
      <4>5. c \in PendingChange
          BY <1>2 DEF CycleRecord
      <4> QED BY <4>1, <4>3, <4>4, <4>5
    <3> QED BY <3>1, <3>2
  <2>2. PICK account : account = f.account
      OBVIOUS
  <2>3. PICK flag \in MessageFlag, value \in BOOLEAN : flag = c.flag /\ value = c.wanted
      BY DEF PendingChange
  <2>4. store' = SettleFlags(store, account, ids, flag, value)
        /\ \A id \in ids : <<id, flag, value>> \in seen.shown
      BY <2>1, <2>2, <2>3
  <2>5. /\ \A g : HeldIn(store, g)' = HeldIn(store, g)
        /\ \A g \in FolderRef : StillShown(g)
        /\ \A g \in FolderRef : \A m \in HeldIn(store, g) :
              StoredFlags(g, m)' # StoredFlags(g, m) => g.account = account /\ m \in ids
      BY <2>4, SettledShown DEF Types
  <2>6. StoresTogether(f)
      BY <2>1, <2>2, <2>5 DEF StoresTogether
  <2> QED BY <1>1, <2>5, <2>6
<1> QED BY <1>3, <1>4

LEMMA SettlementPromises ==
    ASSUME Types, CycleProves, Promise, EndChangesTheListingShows \/ SettleConfirmed
    PROVE  Promise'
<1>1. Running /\ CycleRecord(cycle)
    BY PhasesRun DEF EndChangesTheListingShows, SettleConfirmed, Types, CycleTypes
<1>2. PICK f \in FolderRef : f = cycle.folder
    BY <1>1 DEF CycleRecord
<1>3. /\ HeldIn(store, f)' = HeldIn(store, f) /\ StillShown(f)
      /\ cycle.phase \in {"settling", "confirming"}
    BY <1>2, SettlementKeeps
<1>4. ChangesAreHeld(f)
    BY <1>1, <1>2 DEF Promise
<1>5. UNCHANGED <<serverVars, seen>>
    BY DEF EndChangesTheListingShows, SettleConfirmed
<1>6. /\ cycle'.phase \in Fillings /\ FillStays
      /\ cycle'.changes \subseteq cycle.changes /\ cycle'.command \subseteq cycle.command
  <2>1. CASE EndChangesTheListingShows
    <3>1. PICK c \in cycle.changes : cycle' = [cycle EXCEPT !.changes = @ \ SameChange(c)]
        BY <2>1 DEF EndChangesTheListingShows
    <3>2. PICK changes : changes = cycle.changes \ SameChange(c)
        OBVIOUS
    <3>3. cycle'.changes = changes /\ \A i \in CycleFields \ {"changes"} : cycle'[i] = cycle[i]
        BY <1>1, <3>1, <3>2 DEF CycleRecord, CycleFields
    <3> QED BY <1>3, <3>2, <3>3 DEF FillStays, CycleFields, Fillings
  <2>2. CASE SettleConfirmed
    <3>1. /\ cycle'.phase = "sending" /\ cycle'.command = {}
          /\ \A i \in CycleFields \ {"phase", "command"} : cycle'[i] = cycle[i]
        BY <1>1, <2>2 DEF SettleConfirmed, CycleRecord, CycleFields
    <3> QED BY <3>1 DEF FillStays, CycleFields, Fillings
  <2> QED BY <2>1, <2>2
<1>7. /\ Identities(cycle'.changes) \subseteq HeldIn(store, f)
      /\ Identities(cycle'.command) \subseteq HeldIn(store, f)
    BY <1>3, <1>4, <1>6 DEF ChangesAreHeld, Identities, Fillings
<1>8. cycle.phase \in Fillings /\ SeenGoesOn(f)
    BY <1>3, <1>5 DEF Fillings, SeenGoesOn
<1> QED BY <1>1, <1>2, <1>3, <1>6, <1>7, <1>8, FillPromiseStep

-----------------------------------------------------------------------------
(* The other steps.                                                        *)

\* Reading the wishes, a command that does not end the cycle, and its answer
\* leave what is stored; what is to be settled or sent is of the same messages.
LEMMA QuietPromises ==
    ASSUME NumbersArePlaces, Types, CycleProves, Promise,
           PlanChanges \/ SendCommand \/ ReadFlags, Running'
    PROVE  Promise'
<1>1. /\ cycle.phase \in {"settling", "sending", "reading"} /\ Running /\ store' = store
    BY PhasesRun DEF PlanChanges, SendCommand, ReadFlags
<1>2. CycleRecord(cycle)
    BY <1>1 DEF Types, CycleTypes
<1>3. PICK f \in FolderRef : f = cycle.folder
    BY <1>2 DEF CycleRecord
<1>4. ChangesAreHeld(f) /\ cycle.phase \in Fillings
    BY <1>1, <1>3 DEF Promise, Fillings
<1>5. /\ Identities(cycle.changes) \subseteq HeldIn(store, f)
      /\ Identities(cycle.command) \subseteq HeldIn(store, f)
    BY <1>4 DEF ChangesAreHeld
<1>6. \A a, b : a \subseteq b => Identities(a) \subseteq Identities(b)
    BY DEF Identities
<1>7. HeldIn(store, f)' = HeldIn(store, f) /\ StillShown(f)
    BY <1>1 DEF StillShown, StoredFlags
<1>8. CASE PlanChanges
  <2>1. PICK pending, changes :
           /\ pending = ReadPendingChanges(store, f)
           /\ changes = {c \in pending : c.identity \in DOMAIN cycle.listed
                                         /\ c \notin cycle.sent}
      OBVIOUS
  <2>2. cycle' = [cycle EXCEPT !.phase = "sending", !.changes = changes]
      BY <1>3, <1>8, <2>1 DEF PlanChanges
  <2>3. /\ cycle'.phase = "sending" /\ cycle'.changes = changes
        /\ \A i \in CycleFields \ {"phase", "changes"} : cycle'[i] = cycle[i]
      BY <1>2, <2>2 DEF CycleRecord, CycleFields
  <2>4. Identities(changes) \subseteq HeldIn(store, f)
    <3>1. changes \subseteq pending
        BY <2>1
    <3>2. Identities(pending) \subseteq HeldIn(store, f)
        BY <2>1, PendingHeld
    <3> QED BY <1>6, <3>1, <3>2
  <2>5. FillStays /\ cycle'.phase \in Fillings /\ cycle'.command = cycle.command
      BY <2>3 DEF FillStays, CycleFields, Fillings
  <2>6. SeenGoesOn(f)
      BY <1>8 DEF PlanChanges, SeenGoesOn
  <2> QED BY <1>1, <1>3, <1>4, <1>5, <1>7, <2>3, <2>4, <2>5, <2>6, FillPromiseStep
<1>9. CASE SendCommand
  <2>1. PICK c, command :
           /\ command = LowestUids(UidsPerCommand, SameChange(c))
           /\ \/ cycle' = [cycle EXCEPT !.phase = "reading", !.changes = @ \ command,
                                        !.command = command, !.sent = SentWith(@, command)]
              \/ cycle' \in {[cycle EXCEPT !.phase = "refused", !.command = command], Idle}
      BY <1>9, Zenon DEF SendCommand
  <2>2. command \subseteq cycle.changes
      BY <2>1, CommandsAreChanges
  <2>3. PICK changes, sent :
           changes = cycle.changes \ command /\ sent = SentWith(cycle.sent, command)
      OBVIOUS
  <2>4. \/ cycle' = [cycle EXCEPT !.phase = "reading", !.changes = changes,
                                  !.command = command, !.sent = sent]
        \/ cycle' = [cycle EXCEPT !.phase = "refused", !.command = command]
      BY <2>1, <2>3 DEF Running
  <2>5. /\ cycle'.phase \in {"reading", "refused"} /\ cycle'.command = command
        /\ cycle'.changes = changes \/ cycle'.changes = cycle.changes
        /\ \A i \in CycleFields \ {"phase", "changes", "sent", "command"} : cycle'[i] = cycle[i]
      BY <1>2, <2>4 DEF CycleRecord, CycleFields
  <2>6. cycle'.changes \subseteq cycle.changes /\ cycle'.command \subseteq cycle.changes
      BY <2>2, <2>3, <2>5
  <2>7. /\ Identities(cycle'.changes) \subseteq HeldIn(store, f)
        /\ Identities(cycle'.command) \subseteq HeldIn(store, f)
      BY <1>5, <1>6, <2>6
  <2>8. FillStays /\ cycle'.phase \in Fillings
      BY <2>5 DEF FillStays, CycleFields, Fillings
  <2>9. SeenGoesOn(f)
    <3>1. Watch(f)
        BY <1>3, <1>9, <2>5 DEF SendCommand
    <3> QED BY <1>1, <3>1 DEF Watch, SeenGoesOn
  <2> QED BY <1>1, <1>3, <1>4, <1>7, <2>7, <2>8, <2>9, FillPromiseStep
<1>10. CASE ReadFlags
  <2>1. PICK reported :
           cycle' = [cycle EXCEPT !.phase = "confirming",
                                  !.command = Confirmed(@, Identify(f, reported))]
      BY <1>3, <1>10 DEF ReadFlags
  <2>2. PICK command : command = Confirmed(cycle.command, Identify(f, reported))
      OBVIOUS
  <2>3. /\ cycle'.phase = "confirming" /\ cycle'.command = command
        /\ \A i \in CycleFields \ {"phase", "command"} : cycle'[i] = cycle[i]
      BY <1>2, <2>1, <2>2 DEF CycleRecord, CycleFields
  <2>4. command \subseteq cycle.command
      BY <2>2 DEF Confirmed
  <2>5. Identities(cycle'.command) \subseteq HeldIn(store, f)
      BY <1>5, <1>6, <2>3, <2>4
  <2>6. FillStays /\ cycle'.phase \in Fillings /\ cycle'.changes = cycle.changes
      BY <2>3 DEF FillStays, CycleFields, Fillings
  <2>7. SeenGoesOn(f)
      BY <1>10 DEF ReadFlags, SeenGoesOn
  <2> QED BY <1>1, <1>3, <1>4, <1>5, <1>7, <2>5, <2>6, <2>7, FillPromiseStep
<1> QED BY <1>8, <1>9, <1>10

\* A batch of the fill adds messages of the folder with flags that were shown,
\* all that stayed of those it took unless the server withheld some.
LEMMA FetchKeeps ==
    ASSUME Types, CycleProves, NEW f \in FolderRef, f = cycle.folder, Running,
           NEW fetching, NEW withheld, NEW batch, Fills(f, fetching, withheld, batch)
    PROVE  /\ HeldIn(store, f) \subseteq HeldIn(store, f)'
           /\ HeldIn(store, f)' \subseteq HeldIn(store, f) \union fetching
           /\ ~withheld => seen.steady \intersect fetching \subseteq HeldIn(store, f)'
           /\ \A id \in HeldIn(store, f)' :
                 \/ WereShown(id, StoredFlags(f, id)')
                 \/ id \in HeldIn(store, f) /\ StoredFlags(f, id)' = StoredFlags(f, id)
           /\ StoresTogether(f)
<1>1. PICK arrived, known, held :
         /\ arrived = batch.arrived /\ known = batch.known_arrived
         /\ held = HeldIn(store, f)'
    OBVIOUS
<1>2. /\ Stores(f, batch) /\ batch.removed = {} /\ batch.flag_states = NoRows
      /\ DOMAIN arrived \union DOMAIN known \subseteq fetching
      /\ ~withheld => \A u \in Uids(f) : IdentityAt(f, u) \in fetching =>
            IdentityAt(f, u) \in DOMAIN arrived \union DOMAIN known
      /\ \A i \in DOMAIN arrived : WereShown(i, arrived[i].flags)
      /\ \A i \in DOMAIN known : WereShown(i, known[i])
    BY <1>1 DEF Fills
<1>3. held = HeldIn(store, f) \union DOMAIN arrived \union DOMAIN known
  <2>1. HeldIn(store, f)' = (HeldIn(store, f) \ batch.removed)
            \union DOMAIN batch.arrived \union DOMAIN batch.known_arrived
      BY <1>2, BatchStores DEF Types
  <2> QED BY <1>1, <1>2, <2>1
<1>4. ~withheld => seen.steady \intersect fetching \subseteq held
  <2>1. seen.steady \subseteq IdentitiesIn(f)
      BY DEF CycleProves, Watches
  <2> QED BY <1>2, <1>3, <2>1 DEF IdentitiesIn
<1>5. DOMAIN NoRows = {}
    BY DEF NoRows
<1>6. ASSUME NEW id \in held
      PROVE  \/ WereShown(id, StoredFlags(f, id)')
             \/ id \in HeldIn(store, f) /\ StoredFlags(f, id)' = StoredFlags(f, id)
  <2>1. PICK k : k = Key(f.account, id)
      OBVIOUS
  <2>2. StoredFlags(f, id)' = FlagsAfter(store, f.account, batch, k)
    <3>1. \A g \in FolderRef : \A i \in HeldIn(store, g)' :
             StoredFlags(g, i)' = FlagsAfter(store, f.account, batch, Key(g.account, i))
        BY <1>2, BatchStores DEF Types
    <3> QED BY <1>1, <2>1, <3>1
  <2>3. k.identity = id /\ \A ids : k \in KeysOf(f.account, ids) <=> id \in ids
      BY <2>1 DEF KeysOf, Key
  <2>4. StoredFlags(f, id) = store.messages[k].server
      BY <2>1 DEF StoredFlags
  <2>5. FlagsAfter(store, f.account, batch, k)
           = IF id \in DOMAIN known THEN known[id]
             ELSE IF id \in DOMAIN arrived THEN arrived[id].flags
             ELSE store.messages[k].server
      BY <1>1, <1>2, <1>5, <2>3 DEF FlagsAfter
  <2> QED BY <1>2, <1>3, <2>2, <2>4, <2>5
<1>7. StoresTogether(f)
  <2>1. DOMAIN batch.flag_states \subseteq HeldIn(store, f)'
      BY <1>2, <1>5
  <2> QED BY <1>2, <2>1, BatchTogether DEF Types
<1> QED BY <1>1, <1>2, <1>3, <1>4, <1>6, <1>7

LEMMA FetchPromises ==
    ASSUME NumbersArePlaces, Types, CycleProves, Promise, FetchArrivals
    PROVE  Promise'
<1>1. /\ cycle.phase = "sending" /\ Running /\ seen' = seen
      /\ ~cycle.withheld
    BY PhasesRun DEF FetchArrivals, SentAll
<1>2. PICK f \in FolderRef : f = cycle.folder
    BY <1>1 DEF Types, CycleTypes, CycleRecord
<1>3. PICK fetching, withheld, batch : Fills(f, fetching, withheld, batch)
    BY <1>2, FetchFills
<1>4. PICK missing : missing = cycle.missing \ fetching
    OBVIOUS
<1>5. /\ cycle'.phase = "settling" /\ cycle'.missing = missing /\ cycle'.withheld = withheld
      /\ cycle'.folder = f /\ cycle'.complete = cycle.complete
      /\ cycle'.changes = cycle.changes /\ cycle'.command = cycle.command
      /\ fetching \subseteq cycle.missing
    BY <1>2, <1>3, <1>4 DEF Fills, CycleFields
<1>6. /\ HeldIn(store, f) \subseteq HeldIn(store, f)'
      /\ HeldIn(store, f)' \subseteq HeldIn(store, f) \union fetching
      /\ ~withheld => seen.steady \intersect fetching \subseteq HeldIn(store, f)'
      /\ \A id \in HeldIn(store, f)' :
            \/ WereShown(id, StoredFlags(f, id)')
            \/ id \in HeldIn(store, f) /\ StoredFlags(f, id)' = StoredFlags(f, id)
    BY <1>1, <1>2, <1>3, FetchKeeps
<1>7. ChangesAreHeld(f)'
  <2>1. ChangesAreHeld(f)
      BY <1>1, <1>2 DEF Promise
  <2>2. Identities(cycle'.changes) = Identities(cycle.changes)
        /\ Identities(cycle'.command) = Identities(cycle.command)
      BY <1>5 DEF Identities
  <2> QED BY <1>1, <1>5, <1>6, <2>1, <2>2 DEF ChangesAreHeld, Fillings
<1>8. ASSUME cycle.complete, ~withheld
      PROVE  FillPromise(f, missing)'
  <2>1. FillPromise(f, cycle.missing)
      BY <1>1, <1>2, <1>8 DEF Promise, Fillings
  <2>2. /\ seen.steady \subseteq HeldIn(store, f)' \union missing
        /\ HeldIn(store, f)' \union missing \subseteq seen.ever
      BY <1>4, <1>5, <1>6, <1>8, <2>1 DEF FillPromise
  <2>3. ASSUME NEW id \in seen.steady \intersect HeldIn(store, f)'
        PROVE  WereShown(id, StoredFlags(f, id)')
    <3>1. CASE WereShown(id, StoredFlags(f, id)')
        BY <3>1
    <3>2. CASE id \in HeldIn(store, f) /\ StoredFlags(f, id)' = StoredFlags(f, id)
        BY <2>1, <2>3, <3>2 DEF FillPromise
    <3> QED BY <1>6, <2>3, <3>1, <3>2
  <2>4. \A id \in seen'.steady \intersect HeldIn(store, f)' : WereShown(id, StoredFlags(f, id))'
      BY <1>1, <2>3 DEF WereShown
  <2> QED BY <1>1, <2>2, <2>4 DEF FillPromise
<1>9. cycle'.phase \notin Openings
    BY <1>5 DEF Openings
<1> QED BY <1>4, <1>5, <1>7, <1>8, <1>9 DEF Promise

\* A message still to be listed for its flags stays so: what changed since is
\* numbered higher than any number taken before.
LEMMA OpeningPromiseRests ==
    ASSUME ServerTypes, ServerTypes', ServerMoves, NEW f \in FolderRef, Earlier(f, Reference),
           Watches(f), SeenGoesOn(f), cycle' = cycle,
           cycle.numbers \in Numbers, cycle.plan \in PassPlans,
           HeldIn(store, f)' = HeldIn(store, f),
           \A id \in HeldIn(store, f) : StoredFlags(f, id)' = StoredFlags(f, id),
           OpeningPromise(f)
    PROVE  OpeningPromise(f)'
<1>1. /\ seen'.steady \subseteq seen.steady
      /\ seen.ever \subseteq seen'.ever /\ seen.shown \subseteq seen'.shown
    BY SeenGrows
<1>2. seen'.steady \subseteq IdentitiesIn(f)'
    BY WatchesRest DEF Watches
<1>3. PICK since : since = cycle.plan.since
    OBVIOUS
<1>4. since \in Nat /\ since <= box[f].modseq
  <2>1. Reference.highest_modseq = since
      BY <1>3 DEF Reference, Numbers
  <2> QED BY <1>3, <2>1 DEF Earlier, PassPlans
<1>5. PICK a, b : a = box[f] /\ b = box'[f]
    OBVIOUS
<1>6. BoxSound(a) /\ BoxSound(b) /\ BoxFollows(a, b)
    BY <1>5 DEF ServerTypes, ServerMoves
<1>7. ASSUME NEW id \in seen'.steady, NEW u \in Uids(f), IdentityAt(f, u) = id,
             box[f].held[u].modseq > since
      PROVE  \E v \in Uids(f)' : IdentityAt(f, v)' = id /\ box'[f].held[v].modseq > since
  <2>1. PICK v \in Uids(f)' : IdentityAt(f, v)' = id
      BY <1>2 DEF IdentitiesIn
  <2>2. v \in DOMAIN b.held /\ u \in DOMAIN a.held /\ a.held[u].modseq > since
      BY <1>5, <1>7 DEF Uids
  <2>3. /\ a.modseq \in Nat /\ b.held[v].modseq \in Nat /\ a.held[u].modseq \in Nat
      BY <1>6, <2>2, BoxParts
  <2>4. CASE v \in DOMAIN a.held
    <3>1. b.held[v].mail = a.held[v].mail /\ a.held[v].modseq <= b.held[v].modseq
        BY <1>6, <2>2, <2>4 DEF BoxFollows
    <3>2. u = v
      <4>1. CASE OnGmail(f)
          BY <1>5, <1>6, <1>7, <2>1, <2>2, <2>4, <3>1, <4>1 DEF IdentityAt, BoxSound
      <4>2. CASE ~OnGmail(f)
          BY <1>7, <2>1, <4>2 DEF IdentityAt
      <4> QED BY <4>1, <4>2
    <3> QED BY <1>4, <1>5, <2>1, <2>2, <2>3, <3>1, <3>2
  <2>5. CASE v \notin DOMAIN a.held
    <3>1. ~(b.held[v].modseq <= a.modseq)
        BY <1>6, <2>2, <2>5 DEF BoxFollows
    <3> QED BY <1>4, <1>5, <2>1, <2>3, <3>1
  <2> QED BY <2>4, <2>5
<1>8. ASSUME NEW id \in seen'.steady
      PROVE  \/ WereShown(id, StoredFlags(f, id))'
             \/ /\ cycle'.plan.lists = "ChangedFlags"
                /\ \E v \in Uids(f)' : /\ IdentityAt(f, v)' = id
                                       /\ box'[f].held[v].modseq > cycle'.plan.since
  <2>1. id \in seen.steady /\ id \in HeldIn(store, f)
      BY <1>1, <1>8 DEF OpeningPromise
  <2>2. CASE WereShown(id, StoredFlags(f, id))
      BY <1>1, <2>1, <2>2 DEF WereShown
  <2>3. CASE ~WereShown(id, StoredFlags(f, id))
    <3>1. cycle.plan.lists = "ChangedFlags"
          /\ \E u \in Uids(f) : IdentityAt(f, u) = id /\ box[f].held[u].modseq > since
        BY <1>3, <2>1, <2>3 DEF OpeningPromise
    <3>2. \E v \in Uids(f)' : IdentityAt(f, v)' = id /\ box'[f].held[v].modseq > since
        BY <1>7, <1>8, <3>1
    <3> QED BY <1>3, <3>1, <3>2
  <2> QED BY <2>2, <2>3
<1>9. seen'.steady \subseteq HeldIn(store, f)' /\ HeldIn(store, f)' \subseteq seen'.ever
    BY <1>1 DEF OpeningPromise
<1> QED BY <1>8, <1>9 DEF OpeningPromise

\* Beside the cycle the mail changes, and wishes are written.
LEMMA BesidesRest ==
    ASSUME Types,
           \/ MailChanges
           \/ \E key \in DOMAIN store.messages, flag \in MessageFlag, wanted \in BOOLEAN :
                 UserWishes(key, flag, wanted)
           \/ UNCHANGED vars
    PROVE  /\ cycle' = cycle /\ (Running => SeenGoesOn(cycle.folder))
           /\ \A f \in FolderRef : HeldIn(store, f)' = HeldIn(store, f)
           /\ \A f \in FolderRef : \A i \in HeldIn(store, f) :
                 StoredFlags(f, i)' = StoredFlags(f, i)
<1>1. cycle' = cycle
    BY DEF MailChanges, UserWishes, vars
<1>2. Running => SeenGoesOn(cycle.folder)
  <2>1. CASE MailChanges
      BY <2>1 DEF MailChanges, Watch, SeenGoesOn
  <2>2. CASE ~MailChanges
      BY <2>2 DEF UserWishes, vars, SeenGoesOn
  <2> QED BY <2>1, <2>2
<1>3. CASE store' = store
    BY <1>1, <1>2, <1>3 DEF StoredFlags
<1>4. ASSUME NEW key \in DOMAIN store.messages, NEW flag \in MessageFlag,
             NEW wanted \in BOOLEAN, UserWishes(key, flag, wanted)
      PROVE  /\ \A f \in FolderRef : HeldIn(store, f)' = HeldIn(store, f)
             /\ \A f \in FolderRef : \A i \in HeldIn(store, f) :
                   StoredFlags(f, i)' = StoredFlags(f, i)
  <2>1. key.identity \in MessageId
    <3>1. DOMAIN store.messages \subseteq MessageKey
        BY TablesType DEF Types, StoreTypes, Kept, Sound
    <3> QED BY <3>1 DEF MessageKey
  <2>2. PICK id \in MessageId, account \in {key.account} : id = key.identity
      BY <2>1
  <2>3. store' = WritePendingFlag(store, account, id, flag, wanted)
      BY <1>4, <2>2 DEF UserWishes
  <2> QED BY <2>3, WishTypes DEF Types
<1>5. CASE MailChanges \/ UNCHANGED vars
    BY <1>3, <1>5 DEF MailChanges, vars
<1> QED BY <1>1, <1>2, <1>4, <1>5

LEMMA BesidesPromises ==
    ASSUME Types, CycleProves, Promise, ServerTypes', ServerMoves,
           cycle' = cycle, Running => SeenGoesOn(cycle.folder),
           \A f \in FolderRef : HeldIn(store, f)' = HeldIn(store, f),
           \A f \in FolderRef : \A i \in HeldIn(store, f) :
              StoredFlags(f, i)' = StoredFlags(f, i)
    PROVE  Promise'
<1>1. CASE ~Running
    BY <1>1 DEF Promise, Running
<1>2. CASE Running
  <2>1. CycleRecord(cycle)
      BY <1>2 DEF Types, CycleTypes
  <2>2. PICK f \in FolderRef : f = cycle.folder
      BY <2>1 DEF CycleRecord
  <2>3. /\ HeldIn(store, f)' = HeldIn(store, f) /\ SeenGoesOn(f) /\ StillShown(f)
      BY <1>2, <2>2 DEF StillShown
  <2>4. ChangesAreHeld(f)'
    <3>1. ChangesAreHeld(f)
        BY <1>2, <2>2 DEF Promise
    <3> QED BY <2>3, <3>1 DEF ChangesAreHeld, Identities
  <2>5. ASSUME cycle.phase \in Openings, cycle.plan.lists # "Everything"
        PROVE  OpeningPromise(f)'
    <3>1. OpeningPromise(f)
        BY <1>2, <2>2, <2>5 DEF Promise
    <3>2. Watches(f) /\ Earlier(f, Reference)
        BY <1>2, <2>2, <2>5 DEF CycleProves, OpeningProves
    <3> QED BY <2>1, <2>2, <2>3, <3>1, <3>2, OpeningPromiseRests DEF Types, CycleRecord
  <2>6. \A missing : FillPromise(f, missing) => FillPromise(f, missing)'
      BY <2>3, FillPromiseRests
  <2>7. ASSUME cycle.phase \in Fillings, cycle.complete, ~cycle.withheld
        PROVE  FillPromise(f, cycle.missing)'
    <3>1. PICK missing : missing = cycle.missing
        OBVIOUS
    <3>2. FillPromise(f, missing)
        BY <1>2, <2>2, <2>7, <3>1 DEF Promise
    <3>3. FillPromise(f, missing)'
        BY <2>6, <3>2
    <3>4. cycle'.missing = missing
        BY <3>1
    <3> QED BY <3>3, <3>4
  <2>8. ASSUME cycle.phase = "reopened", cycle.complete
        PROVE  seen'.steady \subseteq HeldIn(store, f)'
      BY <1>2, <2>2, <2>3, <2>8, SeenGrows DEF Promise
  <2>9. ASSUME cycle.phase = "closing", cycle.complete
        PROVE  FillPromise(f, {})'
    <3>1. FillPromise(f, {})
        BY <1>2, <2>2, <2>9 DEF Promise
    <3> QED BY <2>6, <3>1
  <2> QED BY <2>2, <2>4, <2>5, <2>7, <2>8, <2>9 DEF Promise
<1> QED BY <1>1, <1>2

\* No step breaks what a complete cycle will have kept.
LEMMA PromiseStays ==
    ASSUME NumbersArePlaces, Invariant, Promise, [Next]_vars
    PROVE  Promise'
<1>1. Types /\ SavedProves /\ CycleProves
    BY DEF Invariant
<1>2. ServerTypes' /\ ServerMoves
    BY <1>1, EveryStepMoves DEF Types
<1>3. CASE ~Running'
    BY <1>3 DEF Promise
<1>4. ASSUME NEW f \in FolderRef, Open(f)
      PROVE  Promise'
    BY <1>1, <1>4, OpenPromises
<1>5. CASE FirstPass
    BY <1>1, <1>5, FirstPassPromises
<1>6. CASE EndChangesTheListingShows \/ SettleConfirmed
    BY <1>1, <1>6, SettlementPromises
<1>7. CASE PlanChanges \/ SendCommand \/ ReadFlags
    BY <1>1, <1>3, <1>7, QuietPromises
<1>8. CASE FetchArrivals
    BY <1>1, <1>8, FetchPromises
<1>9. CASE Reopen
    BY <1>1, <1>9, ReopenPromises
<1>10. CASE SecondPass
    BY <1>1, <1>10, SecondPassPromises
<1>11. CASE DropRefused \/ Finish \/ EndEarly
    BY <1>3, <1>11 DEF DropRefused, Finish, EndEarly, Running
<1>12. CASE \/ MailChanges
            \/ \E key \in DOMAIN store.messages, flag \in MessageFlag, wanted \in BOOLEAN :
                  UserWishes(key, flag, wanted)
            \/ UNCHANGED vars
  <2>1. /\ cycle' = cycle /\ (Running => SeenGoesOn(cycle.folder))
        /\ \A f \in FolderRef : HeldIn(store, f)' = HeldIn(store, f)
        /\ \A f \in FolderRef : \A i \in HeldIn(store, f) :
              StoredFlags(f, i)' = StoredFlags(f, i)
      BY <1>1, <1>12, BesidesRest
  <2> QED BY <1>1, <1>2, <2>1, BesidesPromises
<1> QED BY <1>4, <1>5, <1>6, <1>7, <1>8, <1>9, <1>10, <1>11, <1>12 DEF Next, CycleStep

-----------------------------------------------------------------------------
(* Every step is one of FolderMirror.                                      *)

\* The cycle has only to end, complete.
IsComplete == Done /\ cycle.complete /\ ~cycle.withheld

\* What the store shows then, as FolderMirror asks.
CompleteShows ==
    \A f \in FolderRef : Running /\ cycle.folder = f /\ IsComplete =>
        /\ seen.steady \subseteq HeldIn(store, f)
        /\ HeldIn(store, f) \subseteq seen.ever
        /\ \A id \in seen.steady : WereShown(id, StoredFlags(f, id))

LEMMA PromiseShows ==
    ASSUME Promise
    PROVE  CompleteShows
<1> SUFFICES ASSUME NEW f \in FolderRef, Running, cycle.folder = f, IsComplete
             PROVE  /\ seen.steady \subseteq HeldIn(store, f)
                    /\ HeldIn(store, f) \subseteq seen.ever
                    /\ \A id \in seen.steady : WereShown(id, StoredFlags(f, id))
    BY DEF CompleteShows
<1>1. FillPromise(f, {})
  <2>1. CASE cycle.phase = "closing"
      BY <2>1 DEF Promise, IsComplete
  <2>2. CASE cycle.phase # "closing"
    <3>1. cycle.phase = "sending" /\ cycle.missing = {}
        BY <2>2 DEF IsComplete, Done, SentAll
    <3>2. FillPromise(f, cycle.missing)
        BY <3>1 DEF Promise, IsComplete, Fillings
    <3> QED BY <3>1, <3>2
  <2> QED BY <2>1, <2>2
<1> QED BY <1>1 DEF FillPromise

\* A folder's flags as FolderMirror sees them.
LEMMA ServerFolderIs ==
    ASSUME ServerTypes, NEW f \in FolderRef
    PROVE  /\ DOMAIN ServerFolder(f) = IdentitiesIn(f)
           /\ \A u \in Uids(f) : ServerFolder(f)[IdentityAt(f, u)] = FlagsAt(f, u)
<1>1. DOMAIN ServerFolder(f) = IdentitiesIn(f)
    BY DEF ServerFolder
<1>2. ASSUME NEW u \in Uids(f)
      PROVE  ServerFolder(f)[IdentityAt(f, u)] = FlagsAt(f, u)
  <2>1. PICK id : id = IdentityAt(f, u)
      OBVIOUS
  <2>2. PICK v : v = CHOOSE w \in Uids(f) : IdentityAt(f, w) = id
      OBVIOUS
  <2>3. v \in Uids(f) /\ IdentityAt(f, v) = id
      BY <2>1, <2>2
  <2>4. v = u
      BY <2>1, <2>3, OneIdentity
  <2>5. ServerFlags(f, id) = FlagsAt(f, u)
      BY <2>2, <2>4 DEF ServerFlags
  <2>6. id \in IdentitiesIn(f)
      BY <2>1 DEF IdentitiesIn
  <2>7. ServerFolder(f)[id] = ServerFlags(f, id)
      BY <2>6 DEF ServerFolder
  <2> QED BY <2>1, <2>5, <2>7
<1> QED BY <1>1, <1>2

LEMMA ServerValues ==
    ASSUME ServerTypes, NEW f \in FolderRef
    PROVE  Mirror!Values(ServerFolder(f)) = FlagValues(f)
<1>1. PICK now : now = ServerFolder(f)
    OBVIOUS
<1>2. /\ DOMAIN now = IdentitiesIn(f)
      /\ \A u \in Uids(f) : now[IdentityAt(f, u)] = FlagsAt(f, u)
    BY <1>1, ServerFolderIs
<1>3. ASSUME NEW value \in Mirror!Values(now)
      PROVE  value \in FlagValues(f)
  <2>1. PICK id \in DOMAIN now, g \in MessageFlag : value = <<id, g, now[id][g]>>
      BY DEF Mirror!Values
  <2>2. PICK u \in Uids(f) : id = IdentityAt(f, u)
      BY <1>2, <2>1 DEF IdentitiesIn
  <2> QED BY <1>2, <2>1, <2>2 DEF FlagValues
<1>4. ASSUME NEW value \in FlagValues(f)
      PROVE  value \in Mirror!Values(now)
  <2>1. PICK u \in Uids(f), g \in MessageFlag :
           value = <<IdentityAt(f, u), g, FlagsAt(f, u)[g]>>
      BY DEF FlagValues
  <2>2. PICK id : id = IdentityAt(f, u)
      OBVIOUS
  <2>3. id \in DOMAIN now /\ now[id] = FlagsAt(f, u)
      BY <1>2, <2>2 DEF IdentitiesIn
  <2> QED BY <2>1, <2>2, <2>3 DEF Mirror!Values
<1> QED BY <1>1, <1>3, <1>4

LEMMA ServerNow ==
    ServerTypes => \A f \in FolderRef : /\ DOMAIN ServerFolders[f] = IdentitiesIn(f)
                                        /\ Mirror!Values(ServerFolders[f]) = FlagValues(f)
    BY ServerFolderIs, ServerValues DEF ServerFolders

LEMMA ServerThen ==
    (ServerTypes => \A f \in FolderRef : /\ DOMAIN ServerFolders[f] = IdentitiesIn(f)
                                         /\ Mirror!Values(ServerFolders[f]) = FlagValues(f))'
    BY ServerNow, PTL

LEMMA ServerFoldersStay ==
    ASSUME UNCHANGED serverVars
    PROVE  ServerFolders' = ServerFolders
    BY DEF serverVars, ServerFolders, ServerFolder, ServerFlags, IdentitiesIn, IdentityAt,
           FlagsAt, Uids

LEMMA StoredFoldersStay ==
    ASSUME \A f \in FolderRef : HeldIn(store, f)' = HeldIn(store, f),
           \A f \in FolderRef : \A id \in HeldIn(store, f) :
              StoredFlags(f, id)' = StoredFlags(f, id)
    PROVE  StoredFolders' = StoredFolders
<1>1. ASSUME NEW f \in FolderRef
      PROVE  StoredFolder(f)' = StoredFolder(f)
    BY DEF StoredFolder
<1> QED BY <1>1 DEF StoredFolders

\* The cycle as FolderMirror sees it.
LEMMA MirrorCycleIs ==
    /\ Mirror!Running <=> Running
    /\ ~Running => MirrorCycle = Mirror!NoCycle
    /\ Running => MirrorCycle = [phase  |-> IF IsComplete THEN "mirrored" ELSE "reading",
                                 folder |-> cycle.folder, steady |-> seen.steady,
                                 ever   |-> seen.ever, shown |-> seen.shown]
<1>1. Running => MirrorCycle = [phase  |-> IF IsComplete THEN "mirrored" ELSE "reading",
                                folder |-> cycle.folder, steady |-> seen.steady,
                                ever   |-> seen.ever, shown |-> seen.shown]
    BY DEF MirrorCycle, IsComplete
<1>2. ~Running => MirrorCycle = Mirror!NoCycle
    BY DEF MirrorCycle, Mirror!NoCycle
<1>3. Mirror!NoCycle.phase = "none"
    BY DEF Mirror!NoCycle
<1>4. Running => MirrorCycle.phase # "none"
    BY <1>1
<1>5. Mirror!Running <=> Running
    BY <1>2, <1>3, <1>4 DEF Mirror!Running
<1> QED BY <1>1, <1>2, <1>5

LEMMA MirrorCycleWillBe ==
    /\ ~Running' => MirrorCycle' = Mirror!NoCycle
    /\ Running' => MirrorCycle' = [phase  |-> IF IsComplete' THEN "mirrored" ELSE "reading",
                                   folder |-> cycle'.folder, steady |-> seen'.steady,
                                   ever   |-> seen'.ever, shown |-> seen'.shown]
    BY DEF MirrorCycle, IsComplete, Mirror!NoCycle

\* A step that changes neither the mail, nor the rows, nor how far the cycle
\* is, is none for FolderMirror.
LEMMA MirrorRests ==
    ASSUME UNCHANGED <<serverVars, seen>>, StoredFolders' = StoredFolders,
           Running' <=> Running,
           Running => cycle'.folder = cycle.folder /\ (IsComplete' <=> IsComplete)
    PROVE  UNCHANGED Mirror!vars
<1>1. MirrorCycle' = MirrorCycle
    BY MirrorCycleIs, MirrorCycleWillBe
<1> QED BY <1>1, ServerFoldersStay DEF Mirror!vars

\* The mail changes, and the history with it.
LEMMA MirrorFollows ==
    ASSUME ServerTypes', StoredFolders' = StoredFolders, Running' <=> Running,
           Running => /\ cycle.folder \in FolderRef /\ cycle'.folder = cycle.folder
                      /\ IsComplete' <=> IsComplete,
           Watch(cycle.folder)
    PROVE  Mirror!ServerChanges
<1>1. CASE ~Running
    BY <1>1, MirrorCycleIs, MirrorCycleWillBe DEF Mirror!ServerChanges
<1>2. CASE Running
  <2>1. PICK f \in FolderRef : cycle.folder = f
      BY <1>2
  <2>2. PICK now, d, v, p, s, e, w :
           /\ now = ServerFolders'[f] /\ d = DOMAIN now /\ v = Mirror!Values(now)
           /\ p = MirrorCycle.phase /\ s = seen.steady /\ e = seen.ever /\ w = seen.shown
      OBVIOUS
  <2>3. d = IdentitiesIn(f)' /\ v = FlagValues(f)'
      BY <2>2, ServerThen
  <2>4. MirrorCycle = [phase |-> p, folder |-> f, steady |-> s, ever |-> e, shown |-> w]
      BY <1>2, <2>1, <2>2, MirrorCycleIs
  <2>5. seen' = [steady |-> s \intersect d, ever |-> e \union d,
                 shown |-> w \union v]
      BY <1>2, <2>1, <2>2, <2>3 DEF Watch
  <2>6. MirrorCycle' = [phase |-> p, folder |-> f, steady |-> s \intersect d,
                        ever |-> e \union d, shown |-> w \union v]
    <3>1. p = IF IsComplete' THEN "mirrored" ELSE "reading"
        BY <1>2, <2>2, MirrorCycleIs
    <3> QED BY <1>2, <2>1, <2>5, <3>1, MirrorCycleWillBe
  <2>7. MirrorCycle' = Mirror!Watched
    <3>1. Mirror!Watched = [MirrorCycle EXCEPT !.steady = s \intersect d,
                                               !.ever   = e \union d,
                                               !.shown  = w \union v]
        BY <2>2, <2>4 DEF Mirror!Watched
    <3> QED BY <2>4, <2>6, <3>1
  <2> QED BY <1>2, <2>7, MirrorCycleIs DEF Mirror!ServerChanges
<1> QED BY <1>1, <1>2

\* A batch or a settlement stored: it keeps what stayed, and makes the cycle
\* complete only when the store shows the folder.
LEMMA MirrorStores ==
    ASSUME NEW f \in FolderRef, Running, Running', cycle.folder = f, cycle'.folder = f,
           UNCHANGED <<serverVars, seen>>, ~IsComplete, CompleteShows',
           seen.steady \intersect HeldIn(store, f) \subseteq HeldIn(store, f)',
           StoresTogether(f)
    PROVE  Mirror!Store
<1>1. /\ StoredFolders'[f] = [m \in HeldIn(store, f)' |-> StoredFlags(f, m)']
      /\ StoredFolders[f] = [m \in HeldIn(store, f) |-> StoredFlags(f, m)]
    BY DEF StoredFolders, StoredFolder
<1>2. /\ DOMAIN StoredFolders'[f] = HeldIn(store, f)'
      /\ \A m \in HeldIn(store, f)' : StoredFolders'[f][m] = StoredFlags(f, m)'
      /\ DOMAIN StoredFolders[f] = HeldIn(store, f)
    BY <1>1
<1>3. MirrorCycle = [phase |-> "reading", folder |-> f, steady |-> seen.steady,
                     ever |-> seen.ever, shown |-> seen.shown]
    BY MirrorCycleIs
<1>4. MirrorCycle' = [phase |-> IF IsComplete' THEN "mirrored" ELSE "reading", folder |-> f,
                      steady |-> seen.steady, ever |-> seen.ever, shown |-> seen.shown]
    BY MirrorCycleWillBe
<1>5. IsComplete' => /\ seen.steady \subseteq HeldIn(store, f)'
                     /\ HeldIn(store, f)' \subseteq seen.ever
                     /\ \A m \in seen.steady : WereShown(m, StoredFlags(f, m)')
    BY DEF CompleteShows, WereShown
<1>6. IsComplete' => Mirror!MirrorsWhatStayed(StoredFolders'[f], MirrorCycle)
    BY <1>2, <1>3, <1>5 DEF Mirror!MirrorsWhatStayed, WereShown
<1>7. \/ MirrorCycle' = MirrorCycle
      \/ /\ MirrorCycle' = [MirrorCycle EXCEPT !.phase = "mirrored"]
         /\ Mirror!MirrorsWhatStayed(StoredFolders'[MirrorCycle.folder], MirrorCycle)
    BY <1>3, <1>4, <1>6
<1>8. ASSUME NEW g \in FolderRef \ {f}
      PROVE  /\ DOMAIN StoredFolders'[g] = DOMAIN StoredFolders[g]
             /\ \A m \in DOMAIN StoredFolders[g] :
                   StoredFolders'[g][m] # StoredFolders[g][m] =>
                       g.account = f.account /\ m \in DOMAIN StoredFolders'[f]
  <2>1. /\ StoredFolders'[g] = [m \in HeldIn(store, g)' |-> StoredFlags(g, m)']
        /\ StoredFolders[g] = [m \in HeldIn(store, g) |-> StoredFlags(g, m)]
      BY DEF StoredFolders, StoredFolder
  <2> QED BY <1>2, <2>1 DEF StoresTogether
<1>9. Mirror!BatchKeeps
    BY <1>2, <1>3, <1>8 DEF Mirror!BatchKeeps
<1> QED BY <1>3, <1>7, <1>9, MirrorCycleIs, ServerFoldersStay DEF Mirror!Store

\* The cycle opens its folder, opens it again, and ends.
LEMMA MirrorBegins ==
    ASSUME ServerTypes, NEW f \in FolderRef, Open(f)
    PROVE  Mirror!Begin(f)
<1>1. /\ ~Running /\ cycle'.phase = "opened" /\ cycle'.folder = f
      /\ seen' = SeenAtOpening(f) /\ UNCHANGED serverVars /\ store' = store
    BY DEF Open
<1>2. Running' /\ ~IsComplete'
    BY <1>1 DEF Running, Idle, IsComplete, Done, SentAll
<1>3. PICK now, v : now = ServerFolders[f] /\ v = FlagValues(f)
    OBVIOUS
<1>4. DOMAIN now = IdentitiesIn(f) /\ Mirror!Values(now) = v
    BY <1>3, ServerNow
<1>5. MirrorCycle' = [phase |-> "reading", folder |-> f, steady |-> DOMAIN now,
                      ever |-> DOMAIN now, shown |-> v]
    BY <1>1, <1>2, <1>3, <1>4, MirrorCycleWillBe DEF SeenAtOpening
<1>6. StoredFolders' = StoredFolders
    BY <1>1, StoredFoldersStay DEF StoredFlags
<1> QED BY <1>1, <1>3, <1>4, <1>5, <1>6, MirrorCycleIs, ServerFoldersStay DEF Mirror!Begin

LEMMA MirrorLooksAgain ==
    ASSUME Types, Reopen
    PROVE  Mirror!LookAgain
<1>1. /\ cycle.phase = "sending" /\ Running /\ ~IsComplete
      /\ UNCHANGED serverVars /\ store' = store
    BY PhasesRun DEF Reopen, SentAll, IsComplete, Done
<1>2. CycleRecord(cycle)
    BY <1>1 DEF Types, CycleTypes
<1>3. PICK f \in FolderRef : cycle.folder = f
    BY <1>2 DEF CycleRecord
<1>4. PICK now, d, v, p, s, e, w :
         /\ now = ServerFolders[f] /\ d = DOMAIN now /\ v = Mirror!Values(now)
         /\ p = "reading" /\ s = seen.steady /\ e = seen.ever /\ w = seen.shown
    OBVIOUS
<1>5. d = IdentitiesIn(f) /\ v = FlagValues(f)
    BY <1>4, ServerNow DEF Types
<1>6. seen' = [steady |-> s, ever |-> d, shown |-> v]
    BY <1>3, <1>4, <1>5 DEF Reopen, SeenAtOpening
<1>7. cycle'.phase = "reopened" /\ cycle'.folder = f
    BY <1>2, <1>3 DEF Reopen, CycleRecord, CycleFields
<1>8. Running' /\ ~IsComplete'
    BY <1>7 DEF Running, Idle, IsComplete, Done, SentAll
<1>9. MirrorCycle = [phase |-> p, folder |-> f, steady |-> s, ever |-> e, shown |-> w]
    BY <1>1, <1>3, <1>4, MirrorCycleIs
<1>10. MirrorCycle' = [phase |-> p, folder |-> f, steady |-> s, ever |-> d,
                       shown |-> v]
    BY <1>4, <1>6, <1>7, <1>8, MirrorCycleWillBe
<1>11. MirrorCycle' = [MirrorCycle EXCEPT !.ever = d, !.shown = v]
  <2>1. PICK c, again : c = MirrorCycle /\ again = [c EXCEPT !.ever = d, !.shown = v]
      OBVIOUS
  <2>2. again = [phase |-> p, folder |-> f, steady |-> s, ever |-> d, shown |-> v]
      BY <1>9, <2>1
  <2> QED BY <1>10, <2>1, <2>2
<1>12. StoredFolders' = StoredFolders
    BY <1>1, StoredFoldersStay DEF StoredFlags
<1> QED BY <1>1, <1>4, <1>5, <1>9, <1>11, <1>12, MirrorCycleIs, ServerFoldersStay
        DEF Mirror!LookAgain

LEMMA MirrorStops ==
    ASSUME Running, ~Running', StoredFolders' = StoredFolders
    PROVE  Mirror!Stop
    BY MirrorCycleIs, MirrorCycleWillBe DEF Mirror!Stop

\* The steps that store, or may make the cycle complete.
LEMMA MirrorLists ==
    ASSUME NumbersArePlaces, Types, CycleProves, CompleteShows', FirstPass \/ SecondPass
    PROVE  Mirror!Store
<1>1. /\ cycle.phase \in {"opened", "reopened"} /\ Running /\ ~IsComplete
      /\ UNCHANGED <<serverVars, seen>>
    BY PhasesRun DEF FirstPass, SecondPass, IsComplete, Done, SentAll
<1>2. PICK f \in FolderRef : f = cycle.folder
    BY <1>1 DEF Types, CycleTypes, CycleRecord
<1>3. PICK reported, complete, listed :
         /\ Pass(f, reported, complete, listed)
         /\ cycle'.phase \in {"settling", "closing"} /\ cycle'.folder = f
  <2>1. CASE FirstPass
    <3>1. PICK reported, complete, listed : FirstListed(f, reported, complete, listed)
        BY <1>2, <2>1, FirstPassLists
    <3> QED BY <1>2, <3>1 DEF FirstListed, CycleFields
  <2>2. CASE SecondPass
    <3>1. PICK reported, complete, listed : SecondListed(f, reported, complete, listed)
        BY <1>2, <2>2, SecondPassLists
    <3> QED BY <1>2, <3>1 DEF SecondListed, CycleFields
  <2> QED BY <2>1, <2>2
<1>4. Running'
    BY <1>3 DEF Running, Idle
<1>5. /\ seen.steady \intersect HeldIn(store, f) \subseteq HeldIn(store, f)'
      /\ StoresTogether(f)
    BY <1>3, PassKeeps
<1> QED BY <1>1, <1>2, <1>3, <1>4, <1>5, MirrorStores

LEMMA MirrorSettles ==
    ASSUME Types, CycleProves, Promise, CompleteShows',
           EndChangesTheListingShows \/ SettleConfirmed
    PROVE  Mirror!Store
<1>1. /\ cycle.phase \in {"settling", "confirming"} /\ Running /\ ~IsComplete
      /\ UNCHANGED <<serverVars, seen>>
    BY PhasesRun DEF EndChangesTheListingShows, SettleConfirmed, IsComplete, Done, SentAll
<1>2. CycleRecord(cycle)
    BY <1>1 DEF Types, CycleTypes
<1>3. PICK f \in FolderRef : f = cycle.folder
    BY <1>2 DEF CycleRecord
<1>4. cycle'.phase \in {"settling", "sending"} /\ cycle'.folder = f
  <2>1. CASE EndChangesTheListingShows
    <3>1. PICK c : cycle' = [cycle EXCEPT !.changes = @ \ SameChange(c)]
        BY <2>1 DEF EndChangesTheListingShows
    <3>2. PICK changes : changes = cycle.changes \ SameChange(c)
        OBVIOUS
    <3>3. cycle' = [cycle EXCEPT !.changes = changes] /\ cycle.phase = "settling"
        BY <2>1, <3>1, <3>2 DEF EndChangesTheListingShows
    <3> QED BY <1>2, <1>3, <3>3 DEF CycleRecord, CycleFields
  <2>2. CASE SettleConfirmed
      BY <1>2, <1>3, <2>2 DEF SettleConfirmed, CycleRecord, CycleFields
  <2> QED BY <2>1, <2>2
<1>5. Running'
    BY <1>4 DEF Running, Idle
<1>6. HeldIn(store, f)' = HeldIn(store, f) /\ StoresTogether(f)
    BY <1>3, SettlementKeeps
<1>7. seen.steady \intersect HeldIn(store, f) \subseteq HeldIn(store, f)'
    BY <1>6
<1> QED BY <1>1, <1>3, <1>4, <1>5, <1>6, <1>7, MirrorStores

LEMMA MirrorFetches ==
    ASSUME NumbersArePlaces, Types, CycleProves, CompleteShows', FetchArrivals
    PROVE  Mirror!Store
<1>1. /\ cycle.phase = "sending" /\ Running /\ ~IsComplete
      /\ UNCHANGED <<serverVars, seen>>
    BY PhasesRun DEF FetchArrivals, SentAll, IsComplete, Done
<1>2. PICK f \in FolderRef : f = cycle.folder
    BY <1>1 DEF Types, CycleTypes, CycleRecord
<1>3. PICK fetching, withheld, batch : Fills(f, fetching, withheld, batch)
    BY <1>2, FetchFills
<1>4. cycle'.phase = "settling" /\ cycle'.folder = f
    BY <1>2, <1>3 DEF Fills, CycleFields
<1>5. Running'
    BY <1>4 DEF Running, Idle
<1>6. HeldIn(store, f) \subseteq HeldIn(store, f)' /\ StoresTogether(f)
    BY <1>1, <1>2, <1>3, FetchKeeps
<1>7. seen.steady \intersect HeldIn(store, f) \subseteq HeldIn(store, f)'
    BY <1>6
<1> QED BY <1>1, <1>2, <1>4, <1>5, <1>6, <1>7, MirrorStores

LEMMA MirrorPlans ==
    ASSUME Types, CompleteShows', PlanChanges
    PROVE  Mirror!Store
<1>1. /\ cycle.phase = "settling" /\ Running /\ ~IsComplete
      /\ UNCHANGED <<serverVars, seen, store>>
    BY PhasesRun DEF PlanChanges, SentAll, IsComplete, Done
<1>2. CycleRecord(cycle)
    BY <1>1 DEF Types, CycleTypes
<1>3. PICK f \in FolderRef : f = cycle.folder
    BY <1>2 DEF CycleRecord
<1>4. PICK changes :
         changes = {c \in ReadPendingChanges(store, cycle.folder) :
                       c.identity \in DOMAIN cycle.listed /\ c \notin cycle.sent}
    OBVIOUS
<1>5. cycle' = [cycle EXCEPT !.phase = "sending", !.changes = changes]
    BY <1>4 DEF PlanChanges
<1>6. cycle'.phase = "sending" /\ cycle'.folder = f
    BY <1>2, <1>3, <1>5 DEF CycleRecord, CycleFields
<1>7. Running'
    BY <1>6 DEF Running, Idle
<1>8. /\ seen.steady \intersect HeldIn(store, f) \subseteq HeldIn(store, f)'
      /\ StoresTogether(f)
    BY <1>1 DEF StoresTogether, StoredFlags
<1> QED BY <1>1, <1>3, <1>6, <1>7, <1>8, MirrorStores

\* A command changes the server, or ends the cycle with the server perhaps
\* changed already.
LEMMA MirrorSends ==
    ASSUME Types, ServerTypes', SendCommand
    PROVE  Mirror!ServerChanges \/ Mirror!Stop
<1>1. /\ cycle.phase = "sending" /\ Running /\ store' = store /\ cycle.changes # {}
    BY PhasesRun DEF SendCommand
<1>2. CycleRecord(cycle) /\ cycle.folder \in FolderRef
    BY <1>1 DEF Types, CycleTypes, CycleRecord
<1>3. StoredFolders' = StoredFolders
    BY <1>1, StoredFoldersStay DEF StoredFlags
<1>4. CASE cycle' = Idle
    BY <1>1, <1>3, <1>4, MirrorStops DEF Running
<1>5. CASE cycle' # Idle
  <2>1. PICK command, changes, sent :
           \/ cycle' = [cycle EXCEPT !.phase = "reading", !.changes = changes,
                                     !.command = command, !.sent = sent]
           \/ cycle' = [cycle EXCEPT !.phase = "refused", !.command = command]
    <3>1. PICK command :
             \/ cycle' = [cycle EXCEPT !.phase = "reading", !.changes = @ \ command,
                                       !.command = command, !.sent = SentWith(@, command)]
             \/ cycle' \in {[cycle EXCEPT !.phase = "refused", !.command = command], Idle}
        BY Zenon DEF SendCommand
    <3> QED BY <1>5, <3>1
  <2>2. cycle'.phase \in {"reading", "refused"} /\ cycle'.folder = cycle.folder
      BY <1>2, <2>1 DEF CycleRecord, CycleFields
  <2>3. Watch(cycle.folder)
      BY <2>2 DEF SendCommand
  <2>4. ~IsComplete /\ ~IsComplete'
      BY <1>1, <2>2 DEF IsComplete, Done, SentAll
  <2> QED BY <1>1, <1>2, <1>3, <1>5, <2>2, <2>3, <2>4, MirrorFollows DEF Running
<1> QED BY <1>4, <1>5

\* The end of a cycle: a refused wish is dropped, no flag of the server's.
LEMMA MirrorEnds ==
    ASSUME Types, DropRefused \/ Finish \/ EndEarly
    PROVE  Mirror!Stop
<1>1. Running /\ ~Running'
    BY PhasesRun DEF DropRefused, Finish, EndEarly, Running
<1>2. StoredFolders' = StoredFolders
  <2>1. CASE Finish \/ EndEarly
      BY <2>1, StoredFoldersStay DEF Finish, EndEarly, StoredFlags
  <2>2. CASE DropRefused
    <3>1. cycle.command \subseteq PendingChange
        BY <1>1 DEF Types, CycleTypes, CycleRecord
    <3>2. PICK c \in cycle.command :
             store' = DropPendingFlags(store, cycle.folder.account, Identities(cycle.command),
                                       c.flag, c.wanted)
        BY <2>2 DEF DropRefused
    <3>3. c.identity \in MessageId /\ c.flag \in MessageFlag /\ c.wanted \in BOOLEAN
        BY <3>1, <3>2 DEF PendingChange
    <3>4. PICK id \in MessageId, flag \in MessageFlag, value \in BOOLEAN :
             id = c.identity /\ flag = c.flag /\ value = c.wanted
        BY <3>3
    <3>5. PICK account, ids :
             account = cycle.folder.account /\ ids = Identities(cycle.command)
        OBVIOUS
    <3>6. store' = DropPendingFlags(store, account, ids, flag, value)
        BY <3>2, <3>4, <3>5
    <3>7. /\ \A f \in FolderRef : HeldIn(store, f)' = HeldIn(store, f)
          /\ \A f \in FolderRef : \A i \in HeldIn(store, f) :
                StoredFlags(f, i)' = StoredFlags(f, i)
        BY <3>6, WishTypes DEF Types
    <3> QED BY <3>7, StoredFoldersStay
  <2> QED BY <2>1, <2>2
<1> QED BY <1>1, <1>2, MirrorStops

LEMMA MirrorReads ==
    ASSUME Types, ReadFlags
    PROVE  UNCHANGED Mirror!vars
<1>1. /\ cycle.phase = "reading" /\ Running /\ UNCHANGED <<serverVars, seen, store>>
    BY PhasesRun DEF ReadFlags
<1>2. CycleRecord(cycle)
    BY <1>1 DEF Types, CycleTypes
<1>3. PICK command : cycle' = [cycle EXCEPT !.phase = "confirming", !.command = command]
    BY DEF ReadFlags
<1>4. cycle'.phase = "confirming" /\ cycle'.folder = cycle.folder
    BY <1>2, <1>3 DEF CycleRecord, CycleFields
<1>5. Running' /\ ~IsComplete /\ ~IsComplete'
    BY <1>1, <1>4 DEF Running, Idle, IsComplete, Done, SentAll
<1>6. StoredFolders' = StoredFolders
    BY <1>1, StoredFoldersStay DEF StoredFlags
<1> QED BY <1>1, <1>4, <1>5, <1>6, MirrorRests

LEMMA MirrorBesides ==
    ASSUME Types, ServerTypes',
           \/ MailChanges
           \/ \E key \in DOMAIN store.messages, flag \in MessageFlag, wanted \in BOOLEAN :
                 UserWishes(key, flag, wanted)
           \/ UNCHANGED vars
    PROVE  Mirror!ServerChanges \/ UNCHANGED Mirror!vars
<1>1. /\ cycle' = cycle
      /\ \A f \in FolderRef : HeldIn(store, f)' = HeldIn(store, f)
      /\ \A f \in FolderRef : \A i \in HeldIn(store, f) :
            StoredFlags(f, i)' = StoredFlags(f, i)
    BY BesidesRest
<1>2. StoredFolders' = StoredFolders
    BY <1>1, StoredFoldersStay
<1>3. (Running' <=> Running) /\ (IsComplete' <=> IsComplete) /\ cycle'.folder = cycle.folder
    BY <1>1 DEF Running, IsComplete, Done, SentAll
<1>4. Running => cycle.folder \in FolderRef
    BY DEF Types, CycleTypes, CycleRecord
<1>5. CASE MailChanges
  <2>1. Watch(cycle.folder)
      BY <1>5 DEF MailChanges
  <2> QED BY <1>2, <1>3, <1>4, <2>1, MirrorFollows
<1>6. CASE ~MailChanges
  <2>1. UNCHANGED <<serverVars, seen>>
      BY <1>6 DEF UserWishes, vars
  <2> QED BY <1>2, <1>3, <2>1, MirrorRests
<1> QED BY <1>5, <1>6

\* Every step of the cycle, the user and the other clients is one of
\* FolderMirror or none.
LEMMA MirrorStep ==
    ASSUME NumbersArePlaces, Invariant, Promise, CompleteShows', [Next]_vars
    PROVE  [Mirror!Next]_(Mirror!vars)
<1>1. Types /\ CycleProves /\ ServerTypes
    BY DEF Invariant, Types
<1>2. ServerTypes'
    BY <1>1, EveryStepMoves DEF Types
<1>3. ASSUME NEW f \in FolderRef, Open(f)
      PROVE  Mirror!Next
    BY <1>1, <1>3, MirrorBegins DEF Mirror!Next
<1>4. CASE FirstPass \/ SecondPass
    BY <1>1, <1>4, MirrorLists DEF Mirror!Next
<1>5. CASE EndChangesTheListingShows \/ SettleConfirmed
    BY <1>1, <1>5, MirrorSettles DEF Mirror!Next
<1>6. CASE PlanChanges
    BY <1>1, <1>6, MirrorPlans DEF Mirror!Next
<1>7. CASE SendCommand
    BY <1>1, <1>2, <1>7, MirrorSends DEF Mirror!Next
<1>8. CASE ReadFlags
    BY <1>1, <1>8, MirrorReads
<1>9. CASE FetchArrivals
    BY <1>1, <1>9, MirrorFetches DEF Mirror!Next
<1>10. CASE Reopen
    BY <1>1, <1>10, MirrorLooksAgain DEF Mirror!Next
<1>11. CASE DropRefused \/ Finish \/ EndEarly
    BY <1>1, <1>11, MirrorEnds DEF Mirror!Next
<1>12. CASE \/ MailChanges
            \/ \E key \in DOMAIN store.messages, flag \in MessageFlag, wanted \in BOOLEAN :
                  UserWishes(key, flag, wanted)
            \/ UNCHANGED vars
    BY <1>1, <1>2, <1>12, MirrorBesides DEF Mirror!Next
<1> QED BY <1>3, <1>4, <1>5, <1>6, <1>7, <1>8, <1>9, <1>10, <1>11, <1>12 DEF Next, CycleStep

\* Nothing is stored at first, and no cycle runs.
LEMMA MirrorAtFirst ==
    ASSUME Init
    PROVE  Promise /\ Mirror!Init
<1>1. ~Running
    BY DEF Init, Running
<1>2. store.memberships = {}
    BY DEF Init, EmptyStore
<1>3. \A f \in FolderRef : HeldIn(store, f) = {}
    BY <1>2 DEF HeldIn
<1>4. ASSUME NEW f \in FolderRef
      PROVE  StoredFolder(f) = Mirror!Empty
    BY <1>3 DEF StoredFolder, Mirror!Empty
<1>5. StoredFolders = [f \in FolderRef |-> Mirror!Empty]
    BY <1>4 DEF StoredFolders
<1> QED BY <1>1, <1>5, MirrorCycleIs DEF Promise, Mirror!Init

\* What a complete cycle will have kept is kept by every step.
LEMMA ImapPromise ==
    ASSUME NumbersArePlaces
    PROVE  Spec => []Promise
<1>1. Init => Promise
    BY MirrorAtFirst
<1>2. Invariant /\ Promise /\ [Next]_vars => Promise'
    BY PromiseStays
<1> QED BY <1>1, <1>2, ImapInvariant, PTL DEF Spec

\* A cycle promises no more than FolderMirror, on Generic IMAP and on Gmail:
\* one that ends complete leaves its folder with every message that stayed,
\* none that was not there since its last opening and flags the server held
\* meanwhile, and none takes out a message that stayed, for every number of
\* folders, messages, changes, faults and numberings.
THEOREM ImapKeepsTheCyclePromise ==
    ASSUME NumbersArePlaces
    PROVE  Spec => KeepsTheCyclePromise
<1>1. Init => Mirror!Init
    BY MirrorAtFirst
<1>2. Promise => CompleteShows
    BY PromiseShows
<1>3. Invariant /\ Promise /\ CompleteShows' /\ [Next]_vars => [Mirror!Next]_(Mirror!vars)
    BY MirrorStep
<1> QED BY <1>1, <1>2, <1>3, ImapInvariant, ImapPromise, PTL
        DEF KeepsTheCyclePromise, Mirror!Spec, Spec

\* A cycle that has only to end, complete, goes on showing its folder as
\* FolderMirror asks, whatever other clients do before it ends.
THEOREM ImapCompleteStaysMirrored ==
    ASSUME NumbersArePlaces
    PROVE  Spec => []Mirror!CompleteIsMirrored
<1>1. Invariant /\ CompleteShows => Mirror!CompleteIsMirrored
  <2> SUFFICES ASSUME Invariant, CompleteShows, Mirror!Running, MirrorCycle.phase = "mirrored"
               PROVE  Mirror!MirrorsWhatStayed(StoredFolders[MirrorCycle.folder], MirrorCycle)
      BY DEF Mirror!CompleteIsMirrored
  <2>1. Running /\ IsComplete
      BY MirrorCycleIs
  <2>2. PICK f \in FolderRef : cycle.folder = f
      BY <2>1 DEF Invariant, Types, CycleTypes, CycleRecord
  <2>3. /\ MirrorCycle.folder = f /\ MirrorCycle.steady = seen.steady
        /\ MirrorCycle.ever = seen.ever /\ MirrorCycle.shown = seen.shown
      BY <2>1, <2>2, MirrorCycleIs
  <2>4. StoredFolders[f] = [id \in HeldIn(store, f) |-> StoredFlags(f, id)]
      BY DEF StoredFolders, StoredFolder
  <2>5. /\ DOMAIN StoredFolders[f] = HeldIn(store, f)
        /\ \A id \in HeldIn(store, f) : StoredFolders[f][id] = StoredFlags(f, id)
      BY <2>4
  <2> QED BY <2>1, <2>2, <2>3, <2>5 DEF CompleteShows, WereShown, Mirror!MirrorsWhatStayed
<1>2. Promise => CompleteShows
    BY PromiseShows
<1> QED BY <1>1, <1>2, ImapInvariant, ImapPromise, PTL
=============================================================================
