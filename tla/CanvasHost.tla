----------------------------- MODULE CanvasHost -----------------------------
(***************************************************************************)
(* The canvas's own row handlers beside its rooms: the whole-state PUT and *)
(* the DELETE of server/canvases.go, composed with CanvasRoom.             *)
(*                                                                         *)
(* The PUT's gate, write and watermark are one critical section of         *)
(* collabMu, which a room's checkpoint takes too and its journal append    *)
(* does not.  DELETE takes no lock.  The owner's client sends one request  *)
(* at a time; the state it puts is a doc it once read.                     *)
(***************************************************************************)
EXTENDS CanvasRoom

CONSTANTS
    HostActs,    \* which of "stamped", "bare" (PUT with, without $.syncSeq), "delete"
    MaxRequests  \* bound on the owner's requests

ASSUME HostAssumption ==
    HostActs \subseteq {"stamped", "bare", "delete"} /\ MaxRequests \in Nat

VARIABLES
    host,    \* the owner's request
    sent,    \* how many requests the owner has sent
    voids    \* history: a bare PUT over a journal or a DELETE has begun

hostVars == <<vars, host, sent, voids>>

HostValue ==
    [pc : {"idle", "gate", "trim", "unhook", "void", "upsert", "fold", "erase"},
     act : {"none", "stamped", "bare", "delete"},
     doc : SUBSET Op, sync : Nat, head : Nat, room : Room \cup {None}]

HostIdle == [pc |-> "idle", act |-> "none", doc |-> {}, sync |-> 0, head |-> 0, room |-> None]

HostTypeOK == TypeOK /\ host \in HostValue /\ sent \in 0..MaxRequests /\ voids \in BOOLEAN

HostInit == Init /\ host = HostIdle /\ sent = 0 /\ voids = FALSE

Arrives == host.pc = "idle" /\ sent < MaxRequests /\ sent' = sent + 1

Goes(pc) == host' = [host EXCEPT !.pc = pc]

\* The owner saves a state it read when the canvas had come to seq n.
PutArrives ==
    /\ Arrives
    /\ \E act \in HostActs \cap {"stamped", "bare"}, n \in 0..clock :
          host' = [HostIdle EXCEPT !.pc = "gate", !.act = act, !.doc = Prefix(n),
                                   !.sync = IF act = "stamped" THEN n ELSE 0]
    /\ UNCHANGED <<vars, voids>>

\* Mutant: a stamp one behind still passes.
StaleByTwo == host.act = "stamped" /\ JournalHead > host.sync + 1

\* The gate: a stamp behind the journal's head is a 409; a bare state over a
\* journal voids it.
Stale == host.act = "stamped" /\ JournalHead > host.sync

PutRefused ==
    /\ host.pc = "gate" /\ mutex = None
    /\ Stale
    /\ host' = HostIdle
    /\ UNCHANGED <<vars, sent, voids>>

PutEnters ==
    /\ host.pc = "gate" /\ mutex = None
    /\ ~Stale
    /\ mutex' = Host
    /\ host' = [host EXCEPT !.head = JournalHead,
          !.pc = IF host.act = "bare" /\ JournalHead > 0 THEN "trim" ELSE "upsert"]
    /\ UNCHANGED <<storeVars, hub, room, client, history, sent, voids>>

\* The journal dies.
PutTrims ==
    /\ host.pc = "trim"
    /\ journal' = {e \in journal : e.seq > host.head}
    /\ voids' = TRUE
    /\ Goes("unhook")
    /\ UNCHANGED <<row, mutex, hub, room, client, history, sent>>

\* Hub.Drop takes the room out of the hub, then DropVoid marks it.
HubDrops ==
    /\ host.pc = "unhook"
    /\ host' = [host EXCEPT !.room = hub,
          !.pc = IF hub # None THEN "void"
                 ELSE IF host.act = "delete" THEN "erase" ELSE "upsert"]
    /\ hub' = None
    /\ UNCHANGED <<storeVars, mutex, room, client, history, sent, voids>>

DropVoid ==
    /\ host.pc = "void"
    /\ room' = [room EXCEPT ![host.room] = [@ EXCEPT !.voided = TRUE, !.dropped = TRUE]]
    /\ Goes(IF host.act = "delete" THEN "erase" ELSE "upsert")
    /\ UNCHANGED <<storeVars, mutex, hub, client, history, sent, voids>>

\* Mutant: the state is stamped with the head the gate read.
PutStampsHead ==
    /\ host.pc = "upsert"
    /\ row' = [live |-> TRUE, doc |-> host.doc, sync |-> host.head + 1,
               fold |-> IF row.live THEN row.fold ELSE 0]
    /\ Goes("fold")
    /\ UNCHANGED <<journal, mutex, hub, room, client, history, sent, voids>>

PutWrites ==
    /\ host.pc = "upsert"
    /\ row' = [live |-> TRUE, doc |-> host.doc, sync |-> host.sync,
               fold |-> IF row.live THEN row.fold ELSE 0]
    /\ Goes("fold")
    /\ UNCHANGED <<journal, mutex, hub, room, client, history, sent, voids>>

PutFolds ==
    /\ host.pc = "fold"
    /\ LET mark == IF host.act = "stamped" THEN host.sync ELSE host.head IN
       row' = [row EXCEPT !.fold = IF row.live /\ mark > @ THEN mark ELSE @]
    /\ mutex' = None
    /\ host' = HostIdle
    /\ UNCHANGED <<journal, hub, room, client, history, sent, voids>>

DeleteArrives ==
    /\ Arrives
    /\ "delete" \in HostActs
    /\ host' = [HostIdle EXCEPT !.pc = "unhook", !.act = "delete"]
    /\ voids' = TRUE
    /\ UNCHANGED vars

\* The row goes; the journal stays.
DeleteErases ==
    /\ host.pc = "erase"
    /\ row' = [live |-> FALSE, doc |-> {}, sync |-> 0, fold |-> 0]
    /\ host' = HostIdle
    /\ UNCHANGED <<journal, mutex, hub, room, client, history, sent, voids>>

HostStep ==
    \/ PutArrives \/ PutRefused \/ PutEnters \/ PutTrims \/ HubDrops \/ DropVoid
    \/ PutWrites \/ PutFolds \/ DeleteArrives \/ DeleteErases

\* The room Drop took out of the hub stays that room until it is marked: its
\* slot is not another's meanwhile.
KeepsSlot ==
    host.pc = "void" /\ room[host.room].loop = "off" => room'[host.room].loop = "off"

\* A crash takes the handler along.
HostNext ==
    \/ Step /\ KeepsSlot /\ UNCHANGED <<host, sent, voids>>
    \/ HostStep
    \/ Crash /\ host' = HostIdle /\ UNCHANGED <<sent, voids>>

HostSpec == HostInit /\ [][HostNext]_hostVars

-----------------------------------------------------------------------------
(* Properties *)

\* An accepted PUT is no older than the row it replaces (canvases.go "A
\* whole-state PUT is only legal when the journal has moved no further").
AcceptedPutIsFresh ==
    ~voids /\ host.pc = "upsert" /\ host.act = "stamped" => host.sync >= row.sync

\* Until something is voided, PUTs and checkpoints between them keep the row's
\* stamp telling what the row holds.
StampSurvivesPuts == ~voids => StampTellsTheDoc

\* A live room the hub does not know is one that was voided: no dying room
\* ever takes its successor out of the hub.
OrphanIsVoided ==
    \A r \in Room :
        Live(r) /\ hub # r => room[r].voided \/ (host.pc = "void" /\ host.room = r)

-----------------------------------------------------------------------------
(* What a comment promises and this model refutes (MaxRequests = 2 with     *)
(* bare PUTs): add it to a cfg.                                            *)

\* A room that was voided, for a bare PUT or a DELETE, is never again about to
\* write the row (hub.go "All three must never write").
VoidedNeverWrites == \A r \in Room : room[r].voided => room[r].loop # "read"
=============================================================================
