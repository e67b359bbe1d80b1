----------------------------- MODULE CanvasRoom -----------------------------
(***************************************************************************)
(* The live surface of one shared canvas: collab/room.go and collab/hub.go *)
(* over the store's journal and row (store/collab.go).                     *)
(*                                                                         *)
(* The journal (canvas_ops) is the truth, the row (canvases.state with its *)
(* $.syncSeq stamp) the checkpoint that trails it.  One goroutine per room *)
(* appends, folds and checkpoints; clients reach it through the hub: HTTP  *)
(* posters submit one batch, WebSocket members join, submit and leave.     *)
(*                                                                         *)
(* One statement of the store, one critical section of Room.mu or Hub.mu,  *)
(* and one event picked by the room's select is one action.  A batch is    *)
(* one op; a doc is the set of ops folded into it, all on one plane, which *)
(* a row has from birth and a checkpoint replaces whole.  Frames to        *)
(* members and presence are not modelled.                                  *)
(***************************************************************************)
EXTENDS Integers, FiniteSets

CONSTANTS
    Room,          \* slots for Room values; one is reused once nobody holds it
    Member,        \* WebSocket connections
    Poster,        \* HTTP handlers of POST /ops
    Op,            \* batches, each submitted until it is stamped
    BadOp,         \* the ones handleSubmit refuses (400, 413)
    None,
    Host,          \* the whole-state PUT, as a holder of collabMu
    GCThreshold,   \* JournalGCThreshold
    SubmitBuffer,  \* capacity of Room.submits
    JoinBuffer,    \* capacity of Room.joins
    LeaveBuffer,   \* capacity of Room.leaves
    SlowLoads,     \* a load may be overtaken by the whole life of a room
    CanCrash       \* the engine may be killed

Client == Member \cup Poster

ASSUME CanvasAssumption ==
    /\ Member \cap Poster = {}
    /\ BadOp \subseteq Op
    /\ Host \notin Room /\ Host # None
    /\ None \notin Room /\ None \notin Client /\ None \notin Op
    /\ SlowLoads \in BOOLEAN /\ CanCrash \in BOOLEAN

ASSUME BoundsAssumption ==
    /\ GCThreshold \in Nat \ {0}
    /\ SubmitBuffer \in Nat /\ JoinBuffer \in Nat /\ LeaveBuffer \in Nat

VARIABLES
    journal,   \* canvas_ops: entries [seq, op]
    row,       \* the canvases row: live, doc, sync ($.syncSeq), fold (fold_seq)
    mutex,     \* who holds collabMu
    hub,       \* Hub.rooms of this canvas
    room,      \* the Room values
    client,    \* the handlers
    stamped,   \* history: the seq an op was given, 0 before
    clock,     \* history: the highest seq given so far
    acked      \* history: ops whose author was told they are in

storeVars == <<journal, row>>
history == <<stamped, clock, acked>>
vars == <<journal, row, mutex, hub, room, client, stamped, clock, acked>>

-----------------------------------------------------------------------------
(* Values *)

Loop == {"off", "select", "ckpt", "read", "wrote", "folded", "done", "draining"}
Task == {"none", "submit", "leave", "tick", "drop"}

RoomValue ==
    [loop : Loop, task : Task, client : Client \cup {None},
     doc : SUBSET Op, latest : Nat, gc : Nat, members : SUBSET Member,
     dropped : BOOLEAN, voided : BOOLEAN,
     idle : {"no", "armed", "firing"}, tick : {"no", "armed", "due"}]

ClientValue ==
    [pc : {"out", "row", "head", "tail", "built", "have", "joining", "in",
           "queued", "served", "leaving"},
     room : Room \cup {None}, op : Op \cup {None},
     doc : SUBSET Op, sync : Nat, head : Nat]

RowValue == [live : BOOLEAN, doc : SUBSET Op, sync : Nat, fold : Nat]

TypeOK ==
    /\ journal \in SUBSET [seq : Nat, op : Op]
    /\ row \in RowValue
    /\ mutex \in Room \cup {None, Host}
    /\ hub \in Room \cup {None}
    /\ room \in [Room -> RoomValue]
    /\ client \in [Client -> ClientValue]
    /\ stamped \in [Op -> Nat]
    /\ clock \in Nat
    /\ acked \in SUBSET Op

\* A room as NewRoom returns it.
Born(doc, latest) ==
    [loop |-> "select", task |-> "none", client |-> None, doc |-> doc,
     latest |-> latest, gc |-> 0, members |-> {}, dropped |-> FALSE,
     voided |-> FALSE, idle |-> "no", tick |-> "no"]

\* A slot whose goroutine has returned: dropped, and nothing else matters.
Off == [Born({}, 0) EXCEPT !.loop = "off", !.dropped = TRUE]

Absent == [pc |-> "out", room |-> None, op |-> None, doc |-> {}, sync |-> 0, head |-> 0]

Init ==
    /\ journal = {}
    /\ row = [live |-> TRUE, doc |-> {}, sync |-> 0, fold |-> 0]
    /\ mutex = None
    /\ hub = None
    /\ room = [r \in Room |-> Off]
    /\ client = [c \in Client |-> Absent]
    /\ stamped = [o \in Op |-> 0]
    /\ clock = 0
    /\ acked = {}

-----------------------------------------------------------------------------
(* The store: store/collab.go *)

Seqs == {e.seq : e \in journal}

\* LatestCanvasOpSeq: 0 when the journal is empty, trimmed or not.
JournalHead == IF journal = {} THEN 0 ELSE CHOOSE n \in Seqs : \A k \in Seqs : k <= n

\* ListCanvasOps from n + 1 on.
OpsAfter(n) == {e.op : e \in {x \in journal : x.seq > n}}

\* Mutant: the base is the journal alone (before v1.71.1).
SeqOfJournal == JournalHead + 1

\* AppendCanvasOps: the base is the journal's head or fold_seq.
NextSeq == (IF JournalHead >= row.fold THEN JournalHead ELSE row.fold) + 1

Append(o) ==
    /\ journal' = journal \cup {[seq |-> NextSeq, op |-> o]}
    /\ stamped' = [stamped EXCEPT ![o] = NextSeq]
    /\ clock' = IF NextSeq > clock THEN NextSeq ELSE clock

\* The states of an op its author still holds to submit.
Fresh == {o \in Op : stamped[o] = 0 /\ \A c \in Client : client[c].op # o}

-----------------------------------------------------------------------------
(* Finding the room: Hub.Room and NewRoom, in the client's own goroutine *)

Loading(c) == client[c].pc \in {"row", "head", "tail", "built"}

\* A handler asks the hub; a poster comes with its batch.
Lookup(c) ==
    /\ client[c].pc = "out"
    /\ row.live
    /\ \E o \in (IF c \in Poster THEN Fresh ELSE {None}) :
          client' = [client EXCEPT ![c] =
              IF hub # None THEN [@ EXCEPT !.pc = "have", !.op = o, !.room = hub]
                            ELSE [@ EXCEPT !.pc = "row", !.op = o]]
    /\ UNCHANGED <<storeVars, mutex, hub, room, history>>

\* NewRoom reads the row: the doc plane and $.syncSeq.
LoadRow(c) ==
    /\ client[c].pc = "row"
    /\ client' = [client EXCEPT ![c] =
          IF row.live THEN [@ EXCEPT !.pc = "head", !.doc = row.doc, !.sync = row.sync]
                      ELSE Absent]
    /\ UNCHANGED <<storeVars, mutex, hub, room, history>>

\* It reads the journal's head and, when that lies past $.syncSeq ...
LoadHead(c) ==
    /\ client[c].pc = "head"
    /\ client' = [client EXCEPT ![c] =
          IF JournalHead > @.sync THEN [@ EXCEPT !.pc = "tail", !.head = JournalHead]
                                  ELSE [@ EXCEPT !.pc = "built", !.head = client[c].sync]]
    /\ UNCHANGED <<storeVars, mutex, hub, room, history>>

\* Mutants: the tail starts one op late; the head read is not kept.
LoadTailLate(c) ==
    /\ client[c].pc = "tail"
    /\ client' = [client EXCEPT ![c] =
          [@ EXCEPT !.pc = "built",
                    !.doc = client[c].doc \cup OpsAfter(client[c].sync + 1)]]
    /\ UNCHANGED <<storeVars, mutex, hub, room, history>>

LoadTailKeepsStamp(c) ==
    /\ client[c].pc = "tail"
    /\ client' = [client EXCEPT ![c] =
          [@ EXCEPT !.pc = "built", !.head = client[c].sync,
                    !.doc = client[c].doc \cup OpsAfter(client[c].sync)]]
    /\ UNCHANGED <<storeVars, mutex, hub, room, history>>

\* ... folds the tail.
LoadTail(c) ==
    /\ client[c].pc = "tail"
    /\ client' = [client EXCEPT ![c] =
          [@ EXCEPT !.pc = "built",
                    !.doc = client[c].doc \cup OpsAfter(client[c].sync)]]
    /\ UNCHANGED <<storeVars, mutex, hub, room, history>>

Held(r) == \E c \in Client : client[c].room = r

Have(c, r) ==
    client' = [client EXCEPT ![c] =
        [Absent EXCEPT !.pc = "have", !.op = client[c].op, !.room = r]]

\* The raced creator loses: its unborn room is discarded, the winner serves.
LoseRace(c) ==
    /\ client[c].pc = "built"
    /\ hub # None
    /\ Have(c, hub)
    /\ UNCHANGED <<storeVars, mutex, hub, room, history>>

\* Mutant: no second look at the hub.
RegisterBlindly(c) ==
    /\ client[c].pc = "built"
    /\ \E r \in Room :
          /\ room[r].loop = "off" /\ ~Held(r)
          /\ room' = [room EXCEPT ![r] = Born(client[c].doc, client[c].head)]
          /\ hub' = r
          /\ Have(c, r)
    /\ UNCHANGED <<storeVars, mutex, history>>

Register(c) ==
    /\ client[c].pc = "built"
    /\ hub = None
    /\ \E r \in Room :
          /\ room[r].loop = "off" /\ ~Held(r)
          /\ room' = [room EXCEPT ![r] = Born(client[c].doc, client[c].head)]
          /\ hub' = r
          /\ Have(c, r)
    /\ UNCHANGED <<storeVars, mutex, history>>

-----------------------------------------------------------------------------
(* Talking to the room: Submit, Join, Leave *)

Waiting(r, pc) == {c \in Client : client[c].room = r /\ client[c].pc = pc}

\* The caller is answered: a handler returns, a member's connection stays.
Answered(c) ==
    IF c \in Poster THEN Absent ELSE [client[c] EXCEPT !.pc = "in", !.op = None]

\* Room.Submit: 410 from a dropped room, 503 from a full one, else the queue.
Submit(c, o) ==
    LET r == client[c].room IN
    /\ client' = [client EXCEPT ![c] =
          IF room[r].dropped \/ Cardinality(Waiting(r, "queued")) >= SubmitBuffer
          THEN Answered(c)
          ELSE [@ EXCEPT !.pc = "queued", !.op = o]]
    /\ UNCHANGED <<storeVars, mutex, hub, room, history>>

Post(c) == c \in Poster /\ client[c].pc = "have" /\ Submit(c, client[c].op)

MemberSubmits(c) == client[c].pc = "in" /\ \E o \in Fresh : Submit(c, o)

Join(c) ==
    /\ c \in Member
    /\ client[c].pc = "have"
    /\ LET r == client[c].room IN
       client' = [client EXCEPT ![c] =
          IF room[r].dropped \/ Cardinality(Waiting(r, "joining")) >= JoinBuffer
          THEN Absent
          ELSE [@ EXCEPT !.pc = "joining"]]
    /\ UNCHANGED <<storeVars, mutex, hub, room, history>>

\* The room is obtained, and registered, before the WebSocket handshake; when
\* that fails the handler returns without a join.
UpgradeFails(c) ==
    /\ c \in Member
    /\ client[c].pc = "have"
    /\ client' = [client EXCEPT ![c] = Absent]
    /\ UNCHANGED <<storeVars, mutex, hub, room, history>>

\* Mutant: the departure is never sent.
LeaveUnsent(c) ==
    /\ client[c].pc = "in"
    /\ client' = [client EXCEPT ![c] = Absent]
    /\ UNCHANGED <<storeVars, mutex, hub, room, history>>

\* Leave does not look at dropped; a full channel loses the departure.
Leave(c) ==
    /\ client[c].pc = "in"
    /\ LET r == client[c].room IN
       client' = [client EXCEPT ![c] =
          IF room[r].loop = "off" \/ Cardinality(Waiting(r, "leaving")) >= LeaveBuffer
          THEN Absent
          ELSE [@ EXCEPT !.pc = "leaving"]]
    /\ UNCHANGED <<storeVars, mutex, hub, room, history>>

-----------------------------------------------------------------------------
(* The room's loop: one event of the select.  Which of several waiting     *)
(* requests is next is left open, as their arrival order is.               *)

Selecting(r) == room[r].loop = "select"

\* armIdleDrop, cancelIdleDrop: the timer that already saw its own generation
\* still current can no longer be cancelled.
ArmIdle(x) == IF x.idle = "firing" THEN x ELSE [x EXCEPT !.idle = "armed"]
CancelIdle(x) == IF x.idle = "firing" THEN x ELSE [x EXCEPT !.idle = "no"]
\* Mutant: nobody arms the calm checkpoint.
ArmNoTick(x) == x

ArmTick(x) == IF x.tick = "no" THEN [x EXCEPT !.tick = "armed"] ELSE x

ServeJoin(r, c) ==
    /\ Selecting(r) /\ c \in Waiting(r, "joining")
    /\ room' = [room EXCEPT ![r] =
          CancelIdle([@ EXCEPT !.members = room[r].members \cup {c}])]
    /\ client' = [client EXCEPT ![c].pc = "in"]
    /\ UNCHANGED <<storeVars, mutex, hub, history>>

\* Validation refuses the whole batch before the journal sees it.
RefuseSubmit(r, c) ==
    /\ Selecting(r) /\ c \in Waiting(r, "queued")
    /\ client[c].op \in BadOp
    /\ client' = [client EXCEPT ![c] = Answered(c)]
    /\ UNCHANGED <<storeVars, mutex, hub, room, history>>

\* Mutant: the room's head stays behind.
FoldedBehind(x, o) == [x EXCEPT !.doc = @ \cup {o}, !.gc = @ + 1]

\* The op folded into the room's own doc.
Folded(x, o) == [x EXCEPT !.doc = @ \cup {o}, !.latest = NextSeq, !.gc = @ + 1]

\* A WebSocket batch is acknowledged by its broadcast, the row comes later.
ServeMember(r, c) ==
    /\ Selecting(r) /\ c \in Waiting(r, "queued") /\ c \in Member
    /\ client[c].op \notin BadOp
    /\ Append(client[c].op)
    /\ room' = [room EXCEPT ![r] = ArmTick(CancelIdle(Folded(@, client[c].op)))]
    /\ acked' = acked \cup {client[c].op}
    /\ client' = [client EXCEPT ![c] = Answered(c)]
    /\ UNCHANGED <<row, mutex, hub>>

\* An HTTP batch is answered after a checkpoint of its own.
ServePoster(r, c) ==
    /\ Selecting(r) /\ c \in Waiting(r, "queued") /\ c \in Poster
    /\ client[c].op \notin BadOp
    /\ Append(client[c].op)
    /\ room' = [room EXCEPT ![r] =
          [Folded(@, client[c].op) EXCEPT !.loop = "ckpt", !.task = "submit", !.client = c]]
    /\ client' = [client EXCEPT ![c].pc = "served"]
    /\ UNCHANGED <<row, mutex, hub, acked>>

\* The last member's leave flushes before it drops the room.
ServeLeave(r, c) ==
    /\ Selecting(r) /\ c \in Waiting(r, "leaving")
    /\ LET left == room[r].members \ {c} IN
       room' = [room EXCEPT ![r] =
          IF c \in room[r].members /\ left = {}
          THEN [@ EXCEPT !.members = left, !.loop = "ckpt", !.task = "leave"]
          ELSE [@ EXCEPT !.members = left]]
    /\ client' = [client EXCEPT ![c] = Absent]
    /\ UNCHANGED <<storeVars, mutex, hub, history>>

ServeTick(r) ==
    /\ Selecting(r) /\ room[r].tick = "due"
    /\ room' = [room EXCEPT ![r] = [@ EXCEPT !.tick = "no", !.loop = "ckpt", !.task = "tick"]]
    /\ UNCHANGED <<storeVars, mutex, hub, client, history>>

\* Mutant: no room flushes on its way out.
ServeDropUnflushed(r) ==
    /\ Selecting(r) /\ room[r].dropped
    /\ room' = [room EXCEPT ![r] =
          [@ EXCEPT !.members = {}, !.task = "drop", !.loop = "done"]]
    /\ UNCHANGED <<storeVars, mutex, hub, client, history>>

\* handleDrop: a voided room does not flush.
ServeDrop(r) ==
    /\ Selecting(r) /\ room[r].dropped
    /\ room' = [room EXCEPT ![r] =
          [@ EXCEPT !.members = {}, !.task = "drop",
                    !.loop = IF room[r].voided THEN "done" ELSE "ckpt"]]
    /\ UNCHANGED <<storeVars, mutex, hub, client, history>>

-----------------------------------------------------------------------------
(* checkpointNow, one statement of the store at a time under collabMu *)

\* The row must be there to be merged into.
CheckpointReads(r) ==
    /\ room[r].loop = "ckpt"
    /\ mutex = None
    /\ IF row.live
       THEN /\ mutex' = r
            /\ room' = [room EXCEPT ![r].loop = "read"]
       ELSE /\ mutex' = mutex
            /\ room' = [room EXCEPT ![r].loop = "done"]
    /\ UNCHANGED <<storeVars, hub, client, history>>

\* UpsertCanvasState creates the row anew when it has gone meanwhile.
CheckpointWrites(r) ==
    /\ room[r].loop = "read"
    /\ row' = [live |-> TRUE, doc |-> room[r].doc, sync |-> room[r].latest,
               fold |-> IF row.live THEN row.fold ELSE 0]
    /\ room' = [room EXCEPT ![r].loop = "wrote"]
    /\ UNCHANGED <<journal, mutex, hub, client, history>>

\* SetCanvasFoldSeq never moves backward.
CheckpointFolds(r) ==
    /\ room[r].loop = "wrote"
    /\ row' = [row EXCEPT !.fold = IF row.live /\ room[r].latest > @ THEN room[r].latest ELSE @]
    /\ room' = [room EXCEPT ![r].loop = "folded"]
    /\ UNCHANGED <<journal, mutex, hub, client, history>>

\* TrimCanvasOps through latest, once enough ops are pending; unlock.
CheckpointTrims(r) ==
    /\ room[r].loop = "folded"
    /\ LET kept == {e \in journal : e.seq > room[r].latest}
           trim == room[r].gc >= GCThreshold
       IN  /\ journal' = IF trim THEN kept ELSE journal
           /\ room' = [room EXCEPT ![r] =
                 [@ EXCEPT !.loop = "done",
                           !.gc = IF trim /\ kept # journal THEN 0 ELSE room[r].gc]]
    /\ mutex' = None
    /\ UNCHANGED <<row, hub, client, history>>

\* What each handler does after its checkpoint.
Resume(x) == [x EXCEPT !.loop = "select", !.task = "none", !.client = None]

\* Mutant: no idle drop is armed.
ReplyAndForget(r) ==
    /\ room[r].loop = "done" /\ room[r].task = "submit"
    /\ LET c == room[r].client IN
       /\ acked' = acked \cup {client[c].op}
       /\ client' = [client EXCEPT ![c] = Absent]
    /\ room' = [room EXCEPT ![r] = Resume(@)]
    /\ UNCHANGED <<storeVars, mutex, hub, stamped, clock>>

ReplyToPoster(r) ==
    /\ room[r].loop = "done" /\ room[r].task = "submit"
    /\ LET c == room[r].client IN
       /\ acked' = acked \cup {client[c].op}
       /\ client' = [client EXCEPT ![c] = Absent]
    /\ room' = [room EXCEPT ![r] = Resume(IF @.members = {} THEN ArmIdle(@) ELSE @)]
    /\ UNCHANGED <<storeVars, mutex, hub, stamped, clock>>

AfterTick(r) ==
    /\ room[r].loop = "done" /\ room[r].task = "tick"
    /\ room' = [room EXCEPT ![r] = Resume(@)]
    /\ UNCHANGED <<storeVars, mutex, hub, client, history>>

AfterLeave(r) ==
    /\ room[r].loop = "done" /\ room[r].task = "leave"
    /\ room' = [room EXCEPT ![r] = [Resume(@) EXCEPT !.dropped = TRUE]]
    /\ UNCHANGED <<storeVars, mutex, hub, client, history>>

\* Mutant: the hub's entry goes whoever it is.
UnregisterAny(r) ==
    /\ room[r].loop = "done" /\ room[r].task = "drop"
    /\ SlowLoads \/ \A c \in Client : ~Loading(c)
    /\ hub' = None
    /\ room' = [room EXCEPT ![r].loop = "draining"]
    /\ UNCHANGED <<storeVars, mutex, client, history>>

\* onDrop, last of all.  Without SlowLoads a room takes longer to die than
\* NewRoom takes to read.
Unregister(r) ==
    /\ room[r].loop = "done" /\ room[r].task = "drop"
    /\ SlowLoads \/ \A c \in Client : ~Loading(c)
    /\ hub' = IF hub = r THEN None ELSE hub
    /\ room' = [room EXCEPT ![r].loop = "draining"]
    /\ UNCHANGED <<storeVars, mutex, client, history>>

\* Mutant: queued joins are left behind.
DrainSubmits(r) ==
    /\ room[r].loop = "draining"
    /\ client' = [c \in Client |->
          IF c \in Waiting(r, "queued") THEN Answered(c)
          ELSE IF c \in Waiting(r, "leaving") THEN Absent
          ELSE client[c]]
    /\ room' = [room EXCEPT ![r] = Off]
    /\ UNCHANGED <<storeVars, mutex, hub, history>>

\* drainOnExit answers 410 to everything still queued.
Drain(r) ==
    /\ room[r].loop = "draining"
    /\ client' = [c \in Client |->
          IF c \in Waiting(r, "queued") THEN Answered(c)
          ELSE IF c \in Waiting(r, "joining") \cup Waiting(r, "leaving") THEN Absent
          ELSE client[c]]
    /\ room' = [room EXCEPT ![r] = Off]
    /\ UNCHANGED <<storeVars, mutex, hub, history>>

-----------------------------------------------------------------------------
(* Timers and the end of the process *)

\* The idle timer looks at its generation, then drops the room.
IdleFires(r) ==
    /\ room[r].idle = "armed"
    /\ room' = [room EXCEPT ![r].idle = IF room[r].dropped THEN "no" ELSE "firing"]
    /\ UNCHANGED <<storeVars, mutex, hub, client, history>>

IdleDrops(r) ==
    /\ room[r].idle = "firing"
    /\ room' = [room EXCEPT ![r] = [@ EXCEPT !.idle = "no", !.dropped = TRUE]]
    /\ UNCHANGED <<storeVars, mutex, hub, client, history>>

\* The calm tick of a dropped room never fires.
TickFires(r) ==
    /\ room[r].tick = "armed"
    /\ room' = [room EXCEPT ![r].tick = IF room[r].dropped THEN "no" ELSE "due"]
    /\ UNCHANGED <<storeVars, mutex, hub, client, history>>

\* Everything in memory is lost; the store is not.
Crash ==
    /\ CanCrash
    /\ mutex' = None
    /\ hub' = None
    /\ room' = [r \in Room |-> Off]
    /\ client' = [c \in Client |-> Absent]
    /\ UNCHANGED <<storeVars, history>>

-----------------------------------------------------------------------------
FindRoom(c) == Lookup(c) \/ LoadRow(c) \/ LoadHead(c) \/ LoadTail(c) \/ LoseRace(c) \/ Register(c)
Ask(c) == Post(c) \/ Join(c) \/ UpgradeFails(c)
Serve(r, c) == ServeJoin(r, c) \/ RefuseSubmit(r, c) \/ ServeMember(r, c)
               \/ ServePoster(r, c) \/ ServeLeave(r, c)
Checkpoint(r) == CheckpointReads(r) \/ CheckpointWrites(r) \/ CheckpointFolds(r)
                 \/ CheckpointTrims(r)
Finish(r) == ReplyToPoster(r) \/ AfterTick(r) \/ AfterLeave(r) \/ Unregister(r) \/ Drain(r)
Timer(r) == IdleFires(r) \/ IdleDrops(r) \/ TickFires(r)

Step ==
    \/ \E c \in Client : FindRoom(c) \/ Ask(c) \/ MemberSubmits(c) \/ Leave(c)
    \/ \E r \in Room : \/ \E c \in Client : Serve(r, c)
                       \/ ServeTick(r) \/ ServeDrop(r)
                       \/ Checkpoint(r) \/ Finish(r) \/ Timer(r)

Next == Step \/ Crash

\* A connection that its room has closed.
Disconnected(c) == client[c].pc = "in" /\ c \notin room[client[c].room].members

\* The engine schedules its goroutines and its timers fire; the select picks
\* fairly among what is ready.  Nobody has to call, and a connection closes
\* only when its room has closed it.
Fairness ==
    /\ \A c \in Client :
          /\ WF_vars(Loading(c) /\ FindRoom(c))
          /\ WF_vars(Ask(c))
          /\ WF_vars(Disconnected(c) /\ Leave(c))
    /\ \A r \in Room :
          /\ \A c \in Client : SF_vars(Serve(r, c))
          /\ SF_vars(ServeTick(r)) /\ SF_vars(ServeDrop(r))
          /\ WF_vars(Checkpoint(r)) /\ WF_vars(Finish(r))
          /\ WF_vars(IdleFires(r)) /\ WF_vars(IdleDrops(r)) /\ WF_vars(TickFires(r))

Spec == Init /\ [][Next]_vars /\ Fairness

-----------------------------------------------------------------------------
(* Properties *)

Live(r) == room[r].loop \notin {"off", "draining"}

\* The ops stamped up to n: what a doc that claims the seq n must hold.
Prefix(n) == {o \in Op : 0 < stamped[o] /\ stamped[o] <= n}

\* The one-writer law: only the registered room's goroutine is alive, however
\* lookups, drops and crashes interleave (hub.go "two joins can never birth
\* two loops").
OneWriter == \A r \in Room : Live(r) => hub = r

\* Whatever an author was told is in can be rebuilt from the store alone: it
\* is in the row, or in the journal beyond the row's stamp, from where
\* NewRoom folds it again (room.go "the journal is the truth the checkpoint
\* trails").
AckedIsRecoverable == acked \subseteq row.doc \cup OpsAfter(row.sync)

\* The row's stamp tells exactly what the row's doc holds, which is what the
\* load, the replay and the PUT gate take it for.
StampTellsTheDoc == row.doc = Prefix(row.sync)

\* The registered room holds every op ever stamped.
RoomHoldsTheDoc == hub # None => room[hub].doc = Prefix(clock) /\ room[hub].latest = clock

\* A member of a room is a connection that still has it, so that the last
\* departure is noticed.
NoPhantomMember ==
    \A r \in Room : \A m \in room[r].members :
        client[m].room = r /\ client[m].pc \in {"in", "queued", "leaving"}

\* The never-rewinding clock: a new seq lies above every earlier one, whatever
\* was trimmed (collab.go "a full trim can NEVER make new ops restart at 1").
ClockNeverRewinds ==
    [][\A o, p \in Op : stamped[o] = 0 /\ stamped'[o] # 0 => stamped[p] < stamped'[o]]_vars

\* A room that dies of itself leaves a row that lacks nothing (room.go "the
\* durable truth never trails an empty room").
DeadRoomIsFlushed ==
    [][\A r \in Room :
         room[r].loop = "done" /\ room'[r].loop = "draining" /\ ~room[r].voided
            => room[r].doc \subseteq row.doc]_vars

\* No requester hangs on a room, whatever becomes of it (room.go "a submitter
\* that raced the drop can never hang on a dead reply channel").
EveryoneAnswered ==
    \A c \in Client :
        client[c].pc \in {"queued", "served", "joining"}
            ~> client[c].pc \notin {"queued", "served", "joining"}

\* A room that served an HTTP batch without members, or whose last member has
\* left, ends unless a member joins: no refused batch, failed upgrade or late
\* request takes its drop away (handleLeave, armIdleDrop and cancelIdleDrop of
\* room.go).
VacatedRoomEnds ==
    \A r \in Room :
        room[r].members = {} /\ room[r].task \in {"submit", "leave"}
            ~> room[r].loop = "off" \/ room[r].members # {}

\* Dormancy as documented: a room nobody holds on to ends (hub.go "An EMPTY
\* hub runs zero goroutines").
UnheldRoomEnds ==
    \A r \in Room : room[r].loop # "off" /\ ~Held(r)
                      ~> room[r].loop = "off" \/ Held(r)

\* The checkpoint follows: an op acknowledged by its broadcast reaches the row.
RowCatchesUp == \A o \in Op : o \in acked ~> o \in row.doc
=============================================================================
