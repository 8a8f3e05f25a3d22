----------------------------- MODULE FolderMirror -----------------------------
(***************************************************************************)
(* What a cycle promises about one folder of one account, whatever the     *)
(* service: the abstract specification that ImapCycle and GraphCycle       *)
(* implement (the module comment of                                        *)
(* crates/mailbag-providers/src/cycle.rs, over cycle/imap.rs and           *)
(* cycle/graph.rs).                                                        *)
(*                                                                         *)
(* The server's folders change under the cycle's hands, so a cycle cannot  *)
(* promise a copy of any one moment.  It promises that a cycle which ends  *)
(* complete leaves the store with every message that stayed in the folder, *)
(* with no message that was never there, and with flags the server held    *)
(* meanwhile; and that no cycle, however it ends, takes out a message that *)
(* stayed.  How the cycle finds that out is not said here.                 *)
(***************************************************************************)

CONSTANTS
    Folder,         \* the folders, each with its account
    MessageFlag     \* the flags of a message

VARIABLES
    server,         \* per folder: the flags of each message the server holds in it
    mirror,         \* per folder: the flags of each message stored in it
    cycle           \* the running cycle and what the server held meanwhile

vars == <<server, mirror, cycle>>

NoCycle == [phase |-> "none"]

Running == cycle # NoCycle

Empty == [id \in {} |-> {}]

\* A folder's flags as a set of values, for comparison with earlier ones.
Values(folder) ==
    {<<id, g, folder[id][g]>> : id \in DOMAIN folder, g \in MessageFlag}

\* What the store must show for the cycle to end complete: every message that
\* stayed in the folder since the cycle began, none that was not in it since
\* its last look, and of the first ones the flags the server held since then.
MirrorsWhatStayed(stored, history) ==
    /\ history.steady \subseteq DOMAIN stored
    /\ DOMAIN stored \subseteq history.ever
    /\ \A id \in history.steady, g \in MessageFlag :
          <<id, g, stored[id][g]>> \in history.shown

Init ==
    /\ mirror = [f \in Folder |-> Empty]
    /\ cycle = NoCycle

\* The running cycle's history follows the server.
Watched ==
    LET now == server'[cycle.folder] IN
    [cycle EXCEPT !.steady = @ \intersect DOMAIN now,
                  !.ever   = @ \union DOMAIN now,
                  !.shown  = @ \union Values(now)]

\* Other clients, or the cycle's own flag changes, change the server.
ServerChanges ==
    /\ cycle' = IF Running THEN Watched ELSE cycle
    /\ mirror' = mirror

Begin(f) ==
    /\ ~Running /\ cycle'.phase = "reading"
    /\ LET now == server[f] IN
          cycle' = [phase  |-> "reading", folder |-> f,
                    steady |-> DOMAIN now, ever |-> DOMAIN now, shown |-> Values(now)]
    /\ UNCHANGED <<server, mirror>>

\* The cycle looks at the folder again: what it proves is then newer.
LookAgain ==
    /\ Running /\ cycle.phase = "reading"
    /\ LET now == server[cycle.folder] IN
          cycle' = [cycle EXCEPT !.ever = DOMAIN now, !.shown = Values(now)]
    /\ UNCHANGED <<server, mirror>>

\* One batch: no message that stayed leaves the folder, no other folder gains
\* or loses one, and a message's flags change in another folder only with
\* those of the same message in this one.
BatchKeeps ==
    LET f == cycle.folder IN
    /\ cycle.steady \intersect DOMAIN mirror[f] \subseteq DOMAIN mirror'[f]
    /\ \A g \in Folder \ {f} : mirror'[g] = mirror[g] \/
          /\ DOMAIN mirror'[g] = DOMAIN mirror[g]
          /\ \A id \in DOMAIN mirror[g] :
                mirror'[g][id] # mirror[g][id] =>
                    g.account = f.account /\ id \in DOMAIN mirror'[f]

Store ==
    /\ Running /\ cycle.phase = "reading"
    /\ \/ cycle' = cycle
       \/ /\ cycle' = [cycle EXCEPT !.phase = "mirrored"]
          /\ MirrorsWhatStayed(mirror'[cycle.folder], cycle)
    /\ BatchKeeps
    /\ UNCHANGED server

\* The cycle ends, complete from "mirrored" only: finished, failed or cut
\* short, its last command perhaps applied.
Stop ==
    /\ Running
    /\ cycle' = NoCycle /\ mirror' = mirror

Next ==
    \/ ServerChanges
    \/ \E f \in Folder : Begin(f)
    \/ LookAgain \/ Store \/ Stop

Spec == Init /\ [][Next]_vars

-----------------------------------------------------------------------------
\* What a cycle found complete stays so until it ends, whatever other clients
\* do meanwhile.
CompleteIsMirrored ==
    Running /\ cycle.phase = "mirrored" =>
        MirrorsWhatStayed(mirror[cycle.folder], cycle)
=============================================================================
