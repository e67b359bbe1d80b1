--------------------------- MODULE CanvasHost_proofs ---------------------------
(***************************************************************************)
(* Machine-checked proofs about the owner's row requests beside the rooms  *)
(* of a shared canvas, for any number of rooms, members, posters, batches  *)
(* and requests.  The steps of the rooms keep what CanvasRoom_proofs shows *)
(* of them; here the steps of the PUT and the DELETE join them.            *)
(***************************************************************************)
EXTENDS CanvasHost, CanvasRoom_proofs

-----------------------------------------------------------------------------
(* Type correctness *)

HostTypeInv == TypeInv /\ HostTypeOK

\* What a step of the owner's request leaves alone.
LEMMA HostKeeps ==
    ASSUME TypeInv, HostStep
    PROVE  /\ client' = client /\ stamped' = stamped /\ clock' = clock /\ acked' = acked
           /\ \A r \in Room :
                 /\ room'[r].loop = room[r].loop /\ room'[r].task = room[r].task
                 /\ room'[r].client = room[r].client /\ room'[r].doc = room[r].doc
                 /\ room'[r].latest = room[r].latest /\ room'[r].gc = room[r].gc
                 /\ room[r].voided => room'[r].voided
           /\ room' \in [Room -> RoomValue]
           /\ voids => voids'
<1>0. room \in [Room -> RoomValue]
  BY DEF TypeInv, TypeOK
<1>1. CASE DropVoid
  <2>1. room' = [room EXCEPT ![host.room] = [@ EXCEPT !.voided = TRUE, !.dropped = TRUE]]
        /\ UNCHANGED <<client, stamped, clock, acked, voids>>
    BY <1>1 DEF DropVoid, history
  <2>2. ASSUME NEW r \in Room
        PROVE  /\ room'[r] \in RoomValue /\ (room[r].voided => room'[r].voided)
               /\ room'[r].loop = room[r].loop /\ room'[r].task = room[r].task
               /\ room'[r].client = room[r].client /\ room'[r].doc = room[r].doc
               /\ room'[r].latest = room[r].latest /\ room'[r].gc = room[r].gc
    <3> DEFINE x == [room[r] EXCEPT !.voided = TRUE, !.dropped = TRUE]
    <3>1. room'[r] = room[r] \/ room'[r] = x
      BY <1>0, <2>1
    <3>2. room[r] \in RoomValue
      BY <1>0
    <3>3. x \in RoomValue /\ x.voided
      BY <3>2 DEF RoomValue
    <3>4. /\ x.loop = room[r].loop /\ x.task = room[r].task
          /\ x.client = room[r].client /\ x.doc = room[r].doc
          /\ x.latest = room[r].latest /\ x.gc = room[r].gc
      BY <3>2 DEF RoomValue
    <3> HIDE DEF x
    <3> QED
      BY <3>1, <3>2, <3>3, <3>4
  <2>3. room' = [r \in Room |-> room'[r]]
    BY <1>0, <2>1
  <2>4. room' \in [Room -> RoomValue]
    BY <2>2, <2>3
  <2> QED
    BY <2>1, <2>2, <2>4
<1>2. CASE ~DropVoid
  <2>1. UNCHANGED <<room, client, stamped, clock, acked>>
    BY <1>2 DEF HostStep, PutArrives, PutRefused, PutEnters, PutTrims, HubDrops, PutWrites,
                PutFolds, DeleteArrives, DeleteErases, vars, history
  <2>2. voids => voids'
    BY <1>2 DEF HostStep, PutArrives, PutRefused, PutEnters, PutTrims, HubDrops, PutWrites,
                PutFolds, DeleteArrives, DeleteErases
  <2> QED
    BY <1>0, <2>1, <2>2
<1> QED
  BY <1>1, <1>2

LEMMA HostStepType ==
    ASSUME HostTypeInv, HostStep
    PROVE  HostTypeInv'
<1> USE CanvasAssumption, HostAssumption DEF HostTypeInv
<1>0. /\ TypeOK /\ HeadExists
      /\ journal \in SUBSET [seq : Nat, op : Op] /\ row \in RowValue /\ clock \in Nat
      /\ mutex \in Room \cup {None, Host} /\ hub \in Room \cup {None}
      /\ room \in [Room -> RoomValue]
      /\ host \in HostValue /\ sent \in 0..MaxRequests /\ voids \in BOOLEAN
      /\ JournalHead \in Nat
  BY HeadIsLast DEF TypeInv, TypeOK, HostTypeOK
<1>1. /\ UNCHANGED <<client, stamped, clock, acked>> /\ room' \in [Room -> RoomValue]
      /\ \A r \in Room : room'[r].task = room[r].task /\ room'[r].client = room[r].client
  BY HostKeeps
<1>2. /\ row' \in RowValue /\ mutex' \in Room \cup {None, Host} /\ hub' \in Room \cup {None}
      /\ sent' \in 0..MaxRequests /\ voids' \in BOOLEAN
  <2>1. sent' \in 0..MaxRequests /\ voids' \in BOOLEAN
    <3>1. \/ sent' = sent
          \/ sent < MaxRequests /\ sent' = sent + 1
      BY DEF HostStep, PutArrives, PutRefused, PutEnters, PutTrims, HubDrops, DropVoid,
             PutWrites, PutFolds, DeleteArrives, DeleteErases, Arrives
    <3>2. voids' \in {voids, TRUE}
      BY DEF HostStep, PutArrives, PutRefused, PutEnters, PutTrims, HubDrops, DropVoid,
             PutWrites, PutFolds, DeleteArrives, DeleteErases
    <3>3. sent' \in 0..MaxRequests
      BY <1>0, <3>1
    <3> QED
      BY <1>0, <3>2, <3>3
  <2>2. mutex' \in Room \cup {None, Host} /\ hub' \in Room \cup {None}
    BY <1>0 DEF HostStep, PutArrives, PutRefused, PutEnters, PutTrims, HubDrops, DropVoid,
                PutWrites, PutFolds, DeleteArrives, DeleteErases, vars
  <2>3. row' \in RowValue
    <3>1. CASE PutWrites
      BY <1>0, <3>1 DEF PutWrites, RowValue, HostValue
    <3>2. CASE PutFolds
      <4> DEFINE mark == IF host.act = "stamped" THEN host.sync ELSE host.head
                 n == IF row.live /\ mark > row.fold THEN mark ELSE row.fold
      <4>1. n \in Nat
        BY <1>0 DEF RowValue, HostValue
      <4>2. row' = [row EXCEPT !.fold = n]
        BY <3>2 DEF PutFolds
      <4> HIDE DEF n
      <4> QED
        BY <1>0, <4>1, <4>2 DEF RowValue
    <3>3. CASE DeleteErases
      BY <3>3 DEF DeleteErases, RowValue
    <3>4. CASE ~(PutWrites \/ PutFolds \/ DeleteErases)
      BY <1>0, <3>4 DEF HostStep, PutArrives, PutRefused, PutEnters, PutTrims, HubDrops,
                        DropVoid, DeleteArrives, vars, storeVars
    <3> QED
      BY <3>1, <3>2, <3>3, <3>4
  <2> QED
    BY <2>1, <2>2, <2>3
<1>3. journal' = journal \/ journal' = {e \in journal : e.seq > host.head}
  BY DEF HostStep, PutArrives, PutRefused, PutEnters, PutTrims, HubDrops, DropVoid,
         PutWrites, PutFolds, DeleteArrives, DeleteErases, vars, storeVars
<1>4. host' \in HostValue
  <2>1. HostIdle \in HostValue
    BY DEF HostIdle, HostValue
  <2>2. CASE PutArrives
    <3>1. PICK act \in HostActs \cap {"stamped", "bare"}, n \in 0..clock :
             host' = [HostIdle EXCEPT !.pc = "gate", !.act = act, !.doc = Prefix(n),
                                      !.sync = IF act = "stamped" THEN n ELSE 0]
      BY <2>2 DEF PutArrives
    <3>2. (IF act = "stamped" THEN n ELSE 0) \in Nat /\ Prefix(n) \in SUBSET Op
      BY <1>0 DEF Prefix
    <3> QED
      BY <2>1, <3>1, <3>2 DEF HostValue
  <2>3. CASE PutEnters
    BY <1>0, <2>3 DEF PutEnters, HostValue
  <2>4. CASE HubDrops
    BY <1>0, <2>4 DEF HubDrops, HostValue
  <2>5. CASE PutTrims \/ DropVoid \/ PutWrites
    BY <1>0, <2>5 DEF PutTrims, DropVoid, PutWrites, Goes, HostValue
  <2>6. CASE DeleteArrives
    BY <2>1, <2>6 DEF DeleteArrives, HostValue
  <2>7. CASE PutRefused \/ PutFolds \/ DeleteErases
    BY <2>1, <2>7 DEF PutRefused, PutFolds, DeleteErases
  <2> QED
    BY <2>2, <2>3, <2>4, <2>5, <2>6, <2>7 DEF HostStep
<1>5. HostTypeOK'
  BY <1>0, <1>1, <1>2, <1>3, <1>4 DEF HostTypeOK, TypeOK
<1>6. HoldsBatch'
  BY <1>1 DEF TypeInv, HoldsBatch
<1>7. ServesPoster'
  BY <1>1 DEF TypeInv, ServesPoster
<1>8. HeadExists'
  <2>1. CASE journal' = journal
    BY <1>0, <2>1 DEF HeadExists, Seqs
  <2>2. CASE journal' = {e \in journal : e.seq > host.head}
    BY <1>0, <2>2, TrimKeepsHead DEF HostValue
  <2> QED
    BY <1>3, <2>1, <2>2
<1> QED
  BY <1>5, <1>6, <1>7, <1>8 DEF TypeInv, HostTypeOK

LEMMA HostTypeAlways == HostSpec => []HostTypeInv
<1> USE DEF HostTypeInv
<1>1. HostInit => HostTypeInv
  <2> SUFFICES ASSUME HostInit PROVE HostTypeInv
    OBVIOUS
  <2>1. TypeInv
    BY TypeInit DEF HostInit
  <2>2. host \in HostValue
    BY DEF HostInit, HostIdle, HostValue
  <2>3. sent \in 0..MaxRequests
    BY HostAssumption DEF HostInit
  <2>4. voids \in BOOLEAN
    BY DEF HostInit
  <2> QED
    BY <2>1, <2>2, <2>3, <2>4 DEF HostTypeOK, TypeInv
<1>2. HostTypeInv /\ [HostNext]_hostVars => HostTypeInv'
  <2> SUFFICES ASSUME HostTypeInv, [HostNext]_hostVars PROVE HostTypeInv'
    OBVIOUS
  <2>1. HostIdle \in HostValue
    BY DEF HostIdle, HostValue
  <2>2. CASE Step /\ UNCHANGED <<host, sent, voids>>
    BY <2>2, TypeStep DEF HostTypeOK, TypeInv
  <2>3. CASE HostStep
    BY <2>3, HostStepType
  <2>4. CASE Crash /\ host' = HostIdle /\ UNCHANGED <<sent, voids>>
    BY <2>1, <2>4, TypeCrash DEF HostTypeOK, TypeInv
  <2>5. CASE UNCHANGED hostVars
    BY <2>5, TypeUnchanged DEF hostVars, HostTypeOK, TypeInv
  <2> QED
    BY <2>2, <2>3, <2>4, <2>5 DEF HostNext
<1> QED
  BY <1>1, <1>2, PTL DEF HostSpec

\* The types hold however PUTs, DELETEs, rooms and crashes interleave.
THEOREM HostTypeCorrect == HostSpec => []HostTypeOK
<1>1. HostTypeInv => HostTypeOK
  BY DEF HostTypeInv
<1> QED
  BY <1>1, HostTypeAlways, PTL

-----------------------------------------------------------------------------
(* The rooms outside the hub *)

\* A room's own steps take nobody else out of the hub.
LEMMA OrphanStep ==
    ASSUME HostTypeInv, OrphanIsVoided, Step, UNCHANGED host
    PROVE  OrphanIsVoided'
<1> USE DEF HostTypeInv
<1>1. ASSUME NEW c \in Client, Handler(c) PROVE OrphanIsVoided'
  <2>1. UNCHANGED <<hub, room>>
    BY <1>1, HandlerIsMove DEF HandlerMoves, ClientMoves
  <2> QED
    BY <2>1 DEF OrphanIsVoided, Live
<1>2. ASSUME NEW c \in Client, Register(c) PROVE OrphanIsVoided'
  <2>1. PICK r \in Room :
              /\ hub = None /\ hub' = r
              /\ \A q \in Room : q # r => room'[q] = room[q]
    BY <1>2, RegisterBirth
  <2> QED
    BY <2>1, CanvasAssumption DEF OrphanIsVoided, Live
<1>3. ASSUME NEW r \in Room, KeepsLife(r) PROVE OrphanIsVoided'
  BY <1>3 DEF OrphanIsVoided, KeepsLife, Live
<1>4. ASSUME NEW r \in Room, Unregister(r) PROVE OrphanIsVoided'
  BY <1>4, UnregisterEnds DEF OrphanIsVoided, Live
<1>5. ASSUME NEW r \in Room, Drain(r) PROVE OrphanIsVoided'
  BY <1>5, DrainEnds DEF OrphanIsVoided, Live
<1> QED
  BY <1>1, <1>2, <1>3, <1>4, <1>5, StepKinds, LoopKeepsLife, StoreKeepsLife,
     ReplyKeepsLife, ServeKeepsLife

\* Only HubDrops takes a living room out of the hub, and it leaves the request
\* about to void it.
LEMMA OrphanHost ==
    ASSUME HostTypeInv, OrphanIsVoided, HostStep
    PROVE  OrphanIsVoided'
<1> USE CanvasAssumption DEF HostTypeInv
<1>0. /\ room \in [Room -> RoomValue] /\ host \in HostValue
      /\ \A r \in Room : room'[r].loop = room[r].loop /\ (room[r].voided => room'[r].voided)
  BY HostKeeps DEF TypeInv, TypeOK, HostTypeOK
<1>1. CASE HubDrops
  <2>1. /\ host.pc = "unhook" /\ host'.room = hub /\ room' = room
        /\ hub # None => host'.pc = "void"
    BY <1>0, <1>1 DEF HubDrops, HostValue
  <2> QED
    BY <2>1 DEF OrphanIsVoided, Live
<1>2. CASE DropVoid
  <2>1. room' = [room EXCEPT ![host.room] = [@ EXCEPT !.voided = TRUE, !.dropped = TRUE]]
        /\ hub' = hub /\ host.pc = "void"
    BY <1>2 DEF DropVoid
  <2>2. ASSUME NEW r \in Room, host.room = r PROVE room'[r].voided
    BY <1>0, <2>1, <2>2 DEF RoomValue
  <2> QED
    BY <1>0, <2>1, <2>2 DEF OrphanIsVoided, Live
<1>3. CASE ~HubDrops /\ ~DropVoid
  <2>1. hub' = hub /\ host.pc # "void"
    BY <1>3 DEF HostStep, PutArrives, PutRefused, PutEnters, PutTrims, PutWrites, PutFolds,
                DeleteArrives, DeleteErases, Arrives, vars
  <2> QED
    BY <1>0, <2>1 DEF OrphanIsVoided, Live
<1> QED
  BY <1>1, <1>2, <1>3

\* No dying room ever takes its successor out of the hub: a living room that
\* the hub does not know was voided, or is about to be.
THEOREM OrphansAreVoided == HostSpec => []OrphanIsVoided
<1>0. Off.loop = "off"
  BY DEF Off, Born
<1>1. HostInit => OrphanIsVoided
  BY <1>0 DEF HostInit, Init, OrphanIsVoided, Live
<1>2. HostTypeInv /\ OrphanIsVoided /\ [HostNext]_hostVars => OrphanIsVoided'
  <2>1. ASSUME Crash PROVE OrphanIsVoided'
    BY <1>0, <2>1 DEF Crash, OrphanIsVoided, Live
  <2>2. ASSUME OrphanIsVoided, UNCHANGED hostVars PROVE OrphanIsVoided'
    BY <2>2 DEF hostVars, vars, OrphanIsVoided, Live
  <2> QED
    BY <2>1, <2>2, OrphanStep, OrphanHost DEF HostNext
<1> QED
  BY <1>1, <1>2, HostTypeAlways, PTL DEF HostSpec

-----------------------------------------------------------------------------
(* The row under PUTs, until something is voided, as long as no journal is *)
(* trimmed: after a full trim the gate reads a head of 0 and a stale PUT   *)
(* passes.                                                                 *)

\* The journal is never trimmed: fewer batches than a room folds before it
\* trims.
NoTrim == IsFiniteSet(Op) /\ Cardinality(Op) < GCThreshold

StampedOps == {o \in Op : stamped[o] # 0}

\* Then the clock counts the stamped ops, no room folded more, and the journal
\* still has the last one.
CountInv ==
    /\ clock = Cardinality(StampedOps)
    /\ \A r \in Room : room[r].gc <= clock
    /\ clock = 0 \/ clock \in Seqs

\* collabMu covers the checkpoints and the PUT from its gate on.
MutexInv ==
    /\ \A r \in Room : room[r].loop \in {"read", "wrote", "folded"} => mutex = r
    /\ host.pc \in {"trim", "upsert", "fold"} => mutex = Host

\* What a PUT carries, and how it stands to the row and to a room that has
\* checkpointed.
PutInv ==
    /\ host.pc \in {"idle", "gate", "trim", "upsert", "fold"}
    /\ host.pc # "idle" => host.act \in {"stamped", "bare"}
    /\ host.pc # "idle" =>
          \E n \in 0..clock : /\ host.doc = Prefix(n)
                              /\ host.sync = IF host.act = "stamped" THEN n ELSE 0
    /\ host.pc = "upsert" =>
          /\ host.doc = Prefix(host.sync) /\ row.sync <= host.sync
          /\ hub # None /\ room[hub].loop = "done" => host.sync = clock
    /\ host.pc = "fold" => row.sync = host.sync
    /\ host.pc \in {"upsert", "fold"} /\ host.act # "stamped" => host.head = 0

\* No room is ever due to trim.
LEMMA NeverTrims ==
    ASSUME NoTrim, TypeInv, CountInv, NEW r \in Room
    PROVE  ~(room[r].gc >= GCThreshold)
<1>1. Cardinality(StampedOps) <= Cardinality(Op)
  BY FS_Subset DEF NoTrim, StampedOps
<1>2. Cardinality(Op) \in Nat
  BY FS_CardinalityType DEF NoTrim
<1>3. room[r].gc \in Nat /\ clock \in Nat
  BY DEF TypeInv, TypeOK, RoomValue
<1> QED
  BY <1>1, <1>2, <1>3, BoundsAssumption DEF NoTrim, CountInv

\* The journal's head is the clock.
LEMMA HeadIsClock ==
    ASSUME TypeInv, ClockInv, CountInv
    PROVE  JournalHead = clock
<1>1. /\ clock \in Nat /\ JournalHead \in Nat
      /\ journal # {} => JournalHead \in Seqs
      /\ \A k \in Seqs : k <= JournalHead
  BY HeadIsLast DEF TypeInv, TypeOK
<1>2. journal = {} => JournalHead = 0
  BY DEF JournalHead
<1>3. JournalHead <= clock
  BY <1>1, <1>2 DEF ClockInv
<1> QED
  BY <1>1, <1>3 DEF CountInv

\* The steps other than an append stamp nothing and keep the journal.
LEMMA StepStamps ==
    ASSUME NoTrim, TypeInv, CountInv, Step
    PROVE  \/ UNCHANGED <<journal, stamped, clock>>
           \/ \E r \in Room, c \in Client :
                 /\ Serve(r, c) /\ client[c].pc = "queued"
                 /\ client[c].op \in Op /\ Append(client[c].op)
<1>1. ASSUME NEW c \in Client, Handler(c) PROVE UNCHANGED <<journal, stamped, clock>>
  BY <1>1, HandlerIsMove DEF HandlerMoves, ClientMoves, storeVars, history
<1>2. ASSUME NEW r \in Room, CheckpointTrims(r) PROVE UNCHANGED <<journal, stamped, clock>>
  BY <1>2, NeverTrims DEF CheckpointTrims, history
<1>3. ASSUME NEW r \in Room,
             \/ LoopMoves(r) \/ CheckpointWrites(r) \/ CheckpointFolds(r)
             \/ ReplyToPoster(r) \/ Unregister(r) \/ Drain(r)
      PROVE  UNCHANGED <<journal, stamped, clock>>
  BY <1>3 DEF LoopMoves, Timer, ServeTick, ServeDrop, CheckpointReads, AfterTick,
              AfterLeave, IdleFires, IdleDrops, TickFires, CheckpointWrites, CheckpointFolds,
              ReplyToPoster, Unregister, Drain, storeVars, history
<1>4. ASSUME NEW c \in Client, Register(c) PROVE UNCHANGED <<journal, stamped, clock>>
  BY <1>4, RegisterBirth DEF storeVars, history
<1>5. ASSUME NEW r \in Room, NEW c \in Client, Serve(r, c)
      PROVE  \/ UNCHANGED <<journal, stamped, clock>>
             \/ client[c].op \in Op /\ Append(client[c].op) /\ client[c].pc = "queued"
  BY <1>5, ServeKinds
<1> QED
  BY <1>1, <1>2, <1>3, <1>4, <1>5, StepKinds

\* The gc counts of the rooms.
LEMMA StepCounts ==
    ASSUME TypeInv, Step, NEW q \in Room
    PROVE  \/ room'[q].gc \in {room[q].gc, 0}
           \/ room'[q].gc = room[q].gc + 1 /\ clock' = IF NextSeq > clock THEN NextSeq ELSE clock
<1>1. ASSUME NEW c \in Client, Handler(c) PROVE room' = room
  BY <1>1, HandlerIsMove DEF HandlerMoves, ClientMoves
<1>2. ASSUME NEW c \in Client, Register(c) PROVE room'[q].gc \in {room[q].gc, 0}
  <2>1. PICK r \in Room : /\ room'[r] = Born(client[c].doc, client[c].head)
                          /\ \A p \in Room : p # r => room'[p] = room[p]
    BY <1>2, RegisterBirth
  <2>2. room'[r].gc = 0
    BY <2>1 DEF Born
  <2> QED
    BY <2>1, <2>2
<1>3. ASSUME NEW r \in Room, Drain(r) PROVE room'[q].gc \in {room[q].gc, 0}
  BY <1>3, DrainEnds DEF Off, Born
<1>4. ASSUME NEW r \in Room, NEW c \in Client, Serve(r, c)
      PROVE  \/ room'[q].gc = room[q].gc
             \/ room'[q].gc = room[q].gc + 1 /\ clock' = IF NextSeq > clock THEN NextSeq ELSE clock
  <2>1. q # r => room'[q] = room[q]
    BY <1>4, ServeKeepsLife DEF KeepsLife
  <2>2. \/ room'[r].gc = room[r].gc
        \/ room'[r].gc = room[r].gc + 1 /\ Append(client[c].op)
    BY <1>4, ServeKinds
  <2> QED
    BY <2>1, <2>2 DEF Append
<1>5. ASSUME NEW r \in Room, LoopMoves(r) PROVE room'[q].gc = room[q].gc
  BY <1>5, LoopKeepsLife DEF KeepsLife
<1>6. ASSUME NEW r \in Room, CheckpointWrites(r) \/ CheckpointFolds(r) \/ CheckpointTrims(r)
      PROVE  room'[q].gc \in {room[q].gc, 0}
  BY <1>6, StoreKeepsLife DEF KeepsLife
<1>7. ASSUME NEW r \in Room, ReplyToPoster(r) PROVE room'[q].gc = room[q].gc
  BY <1>7, ReplyKeepsLife DEF KeepsLife
<1>8. ASSUME NEW r \in Room, Unregister(r) PROVE room'[q].gc = room[q].gc
  BY <1>8, UnregisterEnds
<1> QED
  BY <1>1, <1>2, <1>3, <1>4, <1>5, <1>6, <1>7, <1>8, StepKinds

LEMMA CountStep ==
    ASSUME NoTrim, TypeInv, ClockInv, PendingInv, CountInv, Step
    PROVE  CountInv'
<1>0. /\ clock \in Nat /\ room \in [Room -> RoomValue] /\ stamped \in [Op -> Nat]
      /\ NextSeq = clock + 1
      /\ \A r \in Room : room[r].gc \in Nat /\ room[r].gc <= clock
  BY NextSeqIsNext DEF TypeInv, TypeOK, CountInv, RoomValue
<1>1. CASE UNCHANGED <<journal, stamped, clock>>
  <2>1. StampedOps' = StampedOps /\ Seqs' = Seqs
    BY <1>1 DEF StampedOps, Seqs
  <2>2. \A r \in Room : room'[r].gc <= clock
    BY <1>0, <1>1, StepCounts
  <2> QED
    BY <1>1, <2>1, <2>2 DEF CountInv
<1>2. ASSUME NEW c \in Client, client[c].pc = "queued", client[c].op \in Op, Append(client[c].op)
      PROVE  CountInv'
  <2>1. /\ clock' = clock + 1 /\ Seqs' = Seqs \cup {clock + 1}
        /\ stamped' = [stamped EXCEPT ![client[c].op] = clock + 1]
    BY <1>2, AppendIsNext
  <2>2. client[c].op \notin StampedOps
    BY <1>2, CanvasAssumption DEF PendingInv, StampedOps
  <2>3. StampedOps' = StampedOps \cup {client[c].op}
    BY <1>0, <1>2, <2>1 DEF StampedOps
  <2>4. IsFiniteSet(StampedOps)
    BY FS_Subset DEF NoTrim, StampedOps
  <2>5. Cardinality(StampedOps') = Cardinality(StampedOps) + 1
    BY <2>2, <2>3, <2>4, FS_AddElement
  <2>6. \A r \in Room : room'[r].gc <= clock'
    BY <1>0, <2>1, StepCounts
  <2> QED
    BY <2>1, <2>5, <2>6 DEF CountInv
<1> QED
  BY <1>1, <1>2, StepStamps

\* Every room's step keeps collabMu's books; the request stands still.
LEMMA MutexStep ==
    ASSUME TypeInv, MutexInv, Step, UNCHANGED host
    PROVE  MutexInv'
<1> USE CanvasAssumption
<1>0. /\ room \in [Room -> RoomValue]
      /\ \A r \in Room : room[r].loop \in {"read", "wrote", "folded"} => mutex = r
      /\ host.pc \in {"trim", "upsert", "fold"} => mutex = Host
  BY DEF TypeInv, TypeOK, MutexInv
<1>1. ASSUME NEW r \in Room, mutex' = mutex, \A q \in Room : q # r => room'[q] = room[q],
             room'[r].loop \in {"read", "wrote", "folded"} =>
                room[r].loop \in {"read", "wrote", "folded"}
      PROVE  MutexInv'
  BY <1>0, <1>1 DEF MutexInv
<1>2. ASSUME NEW c \in Client, Handler(c) PROVE MutexInv'
  <2>1. UNCHANGED <<mutex, room>>
    BY <1>2, HandlerIsMove DEF HandlerMoves, ClientMoves
  <2> QED
    BY <2>1 DEF MutexInv
<1>3. ASSUME NEW c \in Client, Register(c) PROVE MutexInv'
  <2>1. PICK r \in Room : /\ room'[r] = Born(client[c].doc, client[c].head)
                          /\ \A q \in Room : q # r => room'[q] = room[q]
                          /\ mutex' = mutex
    BY <1>3, RegisterBirth
  <2>2. room'[r].loop = "select"
    BY <2>1 DEF Born
  <2> QED
    BY <1>1, <2>1, <2>2
<1>4. ASSUME NEW r \in Room, NEW c \in Client, Serve(r, c) PROVE MutexInv'
  <2>1. mutex' = mutex
    BY <1>4 DEF Serve, ServeJoin, RefuseSubmit, ServeMember, ServePoster, ServeLeave
  <2> QED
    BY <1>1, <1>4, <2>1, ServeKeepsLife DEF KeepsLife
<1>5. ASSUME NEW r \in Room, CheckpointReads(r) PROVE MutexInv'
  <2>1. CASE row.live
    <3>1. /\ mutex = None /\ mutex' = r /\ room' = [room EXCEPT ![r].loop = "read"]
      BY <1>5, <2>1 DEF CheckpointReads
    <3> QED
      BY <1>0, <3>1 DEF MutexInv
  <2>2. CASE ~row.live
    <3>1. mutex' = mutex /\ room' = [room EXCEPT ![r].loop = "done"]
      BY <1>5, <2>2 DEF CheckpointReads
    <3> QED
      BY <1>0, <1>1, <3>1 DEF RoomValue
  <2> QED
    BY <2>1, <2>2
<1>6. ASSUME NEW r \in Room, LoopMoves(r), ~CheckpointReads(r) PROVE MutexInv'
  <2>1. mutex' = mutex
    BY <1>6 DEF LoopMoves, Timer, ServeTick, ServeDrop, AfterTick, AfterLeave, IdleFires,
                IdleDrops, TickFires
  <2>2. room'[r].loop \in {"read", "wrote", "folded"} =>
           room[r].loop \in {"read", "wrote", "folded"}
    BY <1>6, LoopKeepsLife
  <2> QED
    BY <1>1, <1>6, <2>1, <2>2, LoopKeepsLife DEF KeepsLife
<1>7. ASSUME NEW r \in Room, CheckpointWrites(r) \/ CheckpointFolds(r) PROVE MutexInv'
  <2>1. mutex' = mutex /\ room[r].loop \in {"read", "wrote"}
    BY <1>7 DEF CheckpointWrites, CheckpointFolds
  <2> QED
    BY <1>1, <1>7, <2>1, StoreKeepsLife DEF KeepsLife
<1>8. ASSUME NEW r \in Room, CheckpointTrims(r) PROVE MutexInv'
  <2>1. mutex' = None /\ room[r].loop = "folded"
    BY <1>8 DEF CheckpointTrims
  <2>2. room'[r].loop = "done"
    BY <1>0, <1>8 DEF CheckpointTrims, RoomValue
  <2>3. mutex = r /\ \A q \in Room : q # r => room'[q] = room[q]
    BY <1>0, <1>8, <2>1, StoreKeepsLife DEF KeepsLife
  <2> QED
    BY <1>0, <2>1, <2>2, <2>3 DEF MutexInv
<1>9. ASSUME NEW r \in Room, ReplyToPoster(r) PROVE MutexInv'
  <2>1. mutex' = mutex
    BY <1>9 DEF ReplyToPoster
  <2> QED
    BY <1>1, <1>9, <2>1, ReplyKeepsLife DEF KeepsLife
<1>10. ASSUME NEW r \in Room, Unregister(r) PROVE MutexInv'
  <2>1. mutex' = mutex
    BY <1>10 DEF Unregister
  <2> QED
    BY <1>1, <1>10, <2>1, UnregisterEnds
<1>11. ASSUME NEW r \in Room, Drain(r) PROVE MutexInv'
  <2>1. mutex' = mutex /\ Off.loop = "off"
    BY <1>11 DEF Drain, Off, Born
  <2> QED
    BY <1>1, <1>11, <2>1, DrainEnds
<1> QED
  BY <1>2, <1>3, <1>4, <1>5, <1>6, <1>7, <1>8, <1>9, <1>10, <1>11, StepKinds

\* While the PUT holds collabMu no room writes the row, and a room that stands
\* after its checkpoint has stood there since.
LEMMA StepUnderPut ==
    ASSUME TypeInv, WriterInv, ClockInv, DocInv, MutexInv, Step, mutex = Host
    PROVE  /\ row' = row
           /\ hub' # None /\ room'[hub'].loop = "done" =>
                 hub' = hub /\ room[hub].loop = "done" /\ clock' = clock
<1> USE CanvasAssumption
<1>0. /\ room \in [Room -> RoomValue] /\ row.live /\ hub \in Room \cup {None}
      /\ \A r \in Room : room[r].loop \notin {"read", "wrote", "folded"}
      /\ hub # None => ~room[hub].voided /\ Live(hub)
  BY DEF TypeInv, TypeOK, ClockInv, DocInv, CurrentInv, MutexInv, WriterInv
<1>1. ASSUME NEW c \in Client, Handler(c) PROVE UNCHANGED <<row, hub, room, clock>>
  BY <1>1, HandlerIsMove DEF HandlerMoves, ClientMoves, storeVars, history
<1>2. ASSUME NEW c \in Client, Register(c)
      PROVE  row' = row /\ room'[hub'].loop = "select"
  <2>1. PICK r \in Room : /\ room'[r] = Born(client[c].doc, client[c].head) /\ hub' = r
                          /\ UNCHANGED storeVars
    BY <1>2, RegisterBirth
  <2> QED
    BY <2>1 DEF Born, storeVars
<1>3. ASSUME NEW r \in Room, NEW c \in Client, Serve(r, c)
      PROVE  row' = row /\ hub' = hub /\ hub = r /\ room'[r].loop \in {"select", "ckpt"}
  <2>1. row' = row
    BY <1>3, ServeKinds
  <2> QED
    BY <1>3, <2>1, ServeKeepsLife, LiveIsHub DEF KeepsLife
<1>4. ASSUME NEW r \in Room, LoopMoves(r)
      PROVE  /\ UNCHANGED <<row, hub, clock>>
             /\ hub # None /\ room'[hub].loop = "done" => room[hub].loop = "done"
  <2>1. UNCHANGED <<row, clock>>
    BY <1>4 DEF LoopMoves, Timer, ServeTick, ServeDrop, CheckpointReads, AfterTick,
                AfterLeave, IdleFires, IdleDrops, TickFires, storeVars, history
  <2> QED
    BY <1>0, <1>4, <2>1, LoopKeepsLife DEF KeepsLife
<1>5. ASSUME NEW r \in Room
      PROVE  ~CheckpointWrites(r) /\ ~CheckpointFolds(r) /\ ~CheckpointTrims(r)
  BY <1>0 DEF CheckpointWrites, CheckpointFolds, CheckpointTrims
<1>6. ASSUME NEW r \in Room, ReplyToPoster(r)
      PROVE  row' = row /\ hub' = hub /\ hub = r /\ room'[r].loop = "select"
  <2>1. row' = row
    BY <1>6 DEF ReplyToPoster, storeVars
  <2> QED
    BY <1>6, <2>1, ReplyKeepsLife, LiveIsHub DEF KeepsLife
<1>7. ASSUME NEW r \in Room, Unregister(r) PROVE row' = row /\ hub' = None
  <2>1. row' = row /\ Live(r)
    BY <1>7 DEF Unregister, storeVars, Live
  <2> QED
    BY <1>7, <2>1, UnregisterEnds, LiveIsHub
<1>8. ASSUME NEW r \in Room, Drain(r)
      PROVE  UNCHANGED <<row, hub, clock>> /\ (hub # None => room'[hub] = room[hub])
  <2>1. UNCHANGED <<row, clock>>
    BY <1>8 DEF Drain, storeVars, history
  <2> QED
    BY <1>0, <1>8, <2>1, DrainEnds
<1> QED
  BY <1>1, <1>2, <1>3, <1>4, <1>5, <1>6, <1>7, <1>8, StepKinds

\* A stamp given later does not change the doc of an earlier seq.
LEMMA PrefixStays ==
    ASSUME NoTrim, TypeInv, ClockInv, PendingInv, CountInv, Step
    PROVE  clock' >= clock /\ \A n \in 0..clock : Prefix(n)' = Prefix(n)
<1> USE CanvasAssumption
<1>0. clock \in Nat /\ stamped \in [Op -> Nat]
  BY DEF TypeInv, TypeOK
<1>1. CASE UNCHANGED <<journal, stamped, clock>>
  BY <1>0, <1>1 DEF Prefix
<1>2. ASSUME NEW c \in Client, client[c].pc = "queued", client[c].op \in Op, Append(client[c].op)
      PROVE  clock' >= clock /\ \A n \in 0..clock : Prefix(n)' = Prefix(n)
  <2>1. clock' = clock + 1 /\ stamped' = [stamped EXCEPT ![client[c].op] = clock + 1]
    BY <1>2, AppendIsNext
  <2>2. stamped[client[c].op] = 0
    BY <1>2 DEF PendingInv
  <2>3. ASSUME NEW n \in 0..clock, NEW o \in Op
        PROVE  (0 < stamped'[o] /\ stamped'[o] <= n) <=> (0 < stamped[o] /\ stamped[o] <= n)
    BY <1>0, <1>2, <2>1, <2>2
  <2> QED
    BY <1>0, <2>1, <2>3 DEF Prefix
<1> QED
  BY <1>1, <1>2, StepStamps

LEMMA PutStep ==
    ASSUME NoTrim, HostTypeInv, WriterInv, ClockInv, PendingInv, DocInv, CountInv, MutexInv,
           PutInv, Step, UNCHANGED host
    PROVE  PutInv'
<1> USE CanvasAssumption DEF HostTypeInv
<1>0. clock \in Nat /\ clock' \in Nat /\ host \in HostValue
  BY TypeStep DEF TypeInv, TypeOK, HostTypeOK
<1>1. clock' >= clock /\ \A n \in 0..clock : Prefix(n)' = Prefix(n)
  BY PrefixStays
<1>2. host.pc # "idle" =>
        \E n \in 0..clock : /\ host.doc = Prefix(n)
                            /\ host.sync = IF host.act = "stamped" THEN n ELSE 0
  BY DEF PutInv
<1>3. host.pc # "idle" =>
        \E n \in 0..clock' : /\ host.doc = Prefix(n)'
                             /\ host.sync = IF host.act = "stamped" THEN n ELSE 0
  <2> SUFFICES ASSUME host.pc # "idle"
               PROVE  \E n \in 0..clock' : /\ host.doc = Prefix(n)'
                                           /\ host.sync = IF host.act = "stamped" THEN n ELSE 0
    OBVIOUS
  <2>1. PICK n \in 0..clock : /\ host.doc = Prefix(n)
                              /\ host.sync = IF host.act = "stamped" THEN n ELSE 0
    BY <1>2
  <2>2. n \in 0..clock' /\ Prefix(n)' = Prefix(n)
    BY <1>0, <1>1
  <2> QED
    BY <2>1, <2>2
<1>4. host.pc = "upsert" =>
        /\ host.doc = Prefix(host.sync)' /\ row'.sync <= host.sync
        /\ hub' # None /\ room'[hub'].loop = "done" => host.sync = clock'
  <2> SUFFICES ASSUME host.pc = "upsert"
               PROVE  /\ host.doc = Prefix(host.sync)' /\ row'.sync <= host.sync
                      /\ hub' # None /\ room'[hub'].loop = "done" => host.sync = clock'
    OBVIOUS
  <2>1. /\ host.doc = Prefix(host.sync) /\ row.sync <= host.sync
        /\ hub # None /\ room[hub].loop = "done" => host.sync = clock
    BY DEF PutInv
  <2>2. host.sync \in 0..clock
    BY <1>0, <1>2
  <2>3. mutex = Host
    BY DEF MutexInv
  <2> QED
    BY <1>1, <2>1, <2>2, <2>3, StepUnderPut
<1>5. host.pc = "fold" => row'.sync = host.sync
  BY StepUnderPut DEF MutexInv, PutInv
<1> QED
  BY <1>3, <1>4, <1>5 DEF PutInv

\* The row after a statement of the PUT.
LEMMA PutRow ==
    ASSUME HostTypeInv, WriterInv, ClockInv, DocInv, CountInv,
           UNCHANGED <<journal, hub, room, client, stamped, clock, acked>>,
           row'.live, row'.doc = Prefix(row'.sync),
           row.sync <= row'.sync, row'.sync <= clock,
           row.fold <= row'.fold, row'.fold <= row'.sync,
           row' \in RowValue,
           hub # None /\ room[hub].loop \in {"wrote", "folded", "done"} => row'.sync = clock
    PROVE  WriterInv' /\ ClockInv' /\ DocInv' /\ CountInv'
<1> USE DEF HostTypeInv
<1>0. /\ clock \in Nat /\ row \in RowValue /\ stamped \in [Op -> Nat]
      /\ room \in [Room -> RoomValue]
  BY DEF TypeInv, TypeOK
<1>1. Seqs' = Seqs /\ \A n : Prefix(n)' = Prefix(n)
  BY DEF Seqs, Prefix
<1>2. WriterInv' /\ CountInv'
  BY <1>1 DEF WriterInv, OneWriter, Live, CountInv, StampedOps
<1>3. ClockInv'
  <2>1. row'.fold <= clock /\ row'.fold \in Nat /\ row.fold \in Nat
    BY <1>0 DEF RowValue
  <2>2. clock = row.fold => clock = row'.fold
    BY <1>0, <2>1
  <2>3. \A r \in Room : room[r].loop = "folded" => room[r].latest <= row'.fold
    BY <1>0, <2>1 DEF ClockInv, RoomValue
  <2> QED
    BY <1>1, <2>1, <2>2, <2>3 DEF ClockInv
<1>4. StoreInv'
  <2>1. Complete(row.sync)'
    <3> SUFFICES ASSUME NEW o \in Op, stamped[o] > row'.sync
                 PROVE  \E e \in journal : e.op = o /\ e.seq = stamped[o]
      BY DEF Complete
    <3>1. stamped[o] > row.sync
      BY <1>0 DEF RowValue
    <3> QED
      BY <3>1 DEF DocInv, StoreInv, Complete
  <2> QED
    BY <1>1, <2>1 DEF DocInv, StoreInv, StampTellsTheDoc, Prefix
<1>5. CurrentInv'
  BY <1>1 DEF DocInv, CurrentInv, Prefix
<1>6. LoadsInv'
  BY <1>1 DEF DocInv, LoadsInv, LoadOk, Complete, Prefix
<1> QED
  BY <1>2, <1>3, <1>4, <1>5, <1>6 DEF DocInv

\* What holds until something is voided.
RowInv == ~voids => /\ WriterInv /\ ClockInv /\ DocInv /\ CountInv /\ MutexInv /\ PutInv

\* The PUT's own statements, from its arrival to its watermark.
LEMMA PutDocs ==
    ASSUME HostTypeInv, WriterInv, ClockInv, DocInv, CountInv, MutexInv, PutInv,
           HostStep, ~voids'
    PROVE  WriterInv' /\ ClockInv' /\ DocInv' /\ CountInv' /\ MutexInv' /\ PutInv'
<1> USE CanvasAssumption DEF HostTypeInv
<1>0. /\ clock \in Nat /\ row \in RowValue /\ host \in HostValue /\ row.live
      /\ row.fold <= row.sync /\ row.sync <= clock /\ row.doc = Prefix(row.sync)
      /\ HostIdle.pc = "idle"
      /\ host.pc # "idle" =>
            \E n \in 0..clock : /\ host.doc = Prefix(n)
                                /\ host.sync = IF host.act = "stamped" THEN n ELSE 0
      /\ JournalHead = clock
  BY HeadIsClock DEF TypeInv, TypeOK, HostTypeOK, ClockInv, DocInv, StoreInv, StampTellsTheDoc,
                     HostIdle, PutInv
<1>1. PutArrives \/ PutRefused \/ PutEnters \/ PutWrites \/ PutFolds
  BY DEF HostStep, PutTrims, HubDrops, DropVoid, DeleteArrives, DeleteErases, PutInv
<1>2. CASE PutArrives
  <2>1. /\ UNCHANGED vars
        /\ \E act \in HostActs \cap {"stamped", "bare"}, n \in 0..clock :
              host' = [HostIdle EXCEPT !.pc = "gate", !.act = act, !.doc = Prefix(n),
                                       !.sync = IF act = "stamped" THEN n ELSE 0]
    BY <1>2 DEF PutArrives
  <2>2. WriterInv' /\ ClockInv' /\ DocInv'
    BY <2>1, WriterUnchanged, ClockUnchanged, DocUnchanged
  <2>3. CountInv' /\ clock' = clock /\ \A n : Prefix(n)' = Prefix(n)
    BY <2>1 DEF vars, CountInv, StampedOps, Seqs, Prefix
  <2>4. /\ host'.pc = "gate" /\ host'.act \in {"stamped", "bare"}
        /\ \E n \in 0..clock : /\ host'.doc = Prefix(n)
                               /\ host'.sync = IF host'.act = "stamped" THEN n ELSE 0
    BY <2>1 DEF HostIdle
  <2>5. PutInv'
    BY <2>3, <2>4 DEF PutInv
  <2>6. MutexInv'
    BY <2>1, <2>4 DEF vars, MutexInv
  <2> QED
    BY <2>2, <2>3, <2>5, <2>6
<1>3. CASE PutRefused
  <2>1. UNCHANGED vars /\ host' = HostIdle
    BY <1>3 DEF PutRefused
  <2>2. WriterInv' /\ ClockInv' /\ DocInv'
    BY <2>1, WriterUnchanged, ClockUnchanged, DocUnchanged
  <2>3. CountInv'
    BY <2>1 DEF vars, CountInv, StampedOps, Seqs
  <2>4. PutInv' /\ MutexInv'
    BY <1>0, <2>1 DEF vars, PutInv, MutexInv
  <2> QED
    BY <2>2, <2>3, <2>4
<1>4. CASE PutEnters
  <2> DEFINE pc == IF host.act = "bare" /\ JournalHead > 0 THEN "trim" ELSE "upsert"
  <2>1. /\ UNCHANGED <<journal, row, hub, room, client, stamped, clock, acked>>
        /\ mutex = None /\ mutex' = Host /\ host.pc = "gate" /\ ~Stale
        /\ host' = [host EXCEPT !.head = JournalHead, !.pc = pc]
    BY <1>4 DEF PutEnters, storeVars, history
  <2>2. /\ host'.pc = pc /\ host'.head = JournalHead /\ host'.act = host.act
        /\ host'.doc = host.doc /\ host'.sync = host.sync
    BY <1>0, <2>1 DEF HostValue
  <2>3. \A n : Prefix(n)' = Prefix(n)
    BY <2>1 DEF Prefix
  <2>4. WriterInv' /\ ClockInv' /\ DocInv' /\ CountInv'
    <3>1. row' = row
      BY <2>1
    <3>2. hub # None /\ room[hub].loop \in {"wrote", "folded", "done"} => row.sync = clock
      BY DEF DocInv, CurrentInv
    <3>3. \A n : n \in Nat => n <= n
      OBVIOUS
    <3>4. row.sync <= row'.sync /\ row.fold <= row'.fold
      BY <1>0, <3>1, <3>3 DEF RowValue
    <3> QED
      BY <1>0, <2>1, <2>3, <3>1, <3>2, <3>4, PutRow
  <2>5. MutexInv'
    BY <2>1 DEF MutexInv
  <2>6. PutInv'
    <3>1. PICK n \in 0..clock : /\ host.doc = Prefix(n)
                                /\ host.sync = IF host.act = "stamped" THEN n ELSE 0
      BY <1>0, <2>1
    <3>2. ASSUME pc = "upsert"
          PROVE  /\ host.doc = Prefix(host.sync) /\ host.sync = clock
                 /\ host.act # "stamped" => JournalHead = 0
      <4>1. CASE host.act = "stamped"
        <5>1. host.sync = n /\ ~(JournalHead > host.sync)
          BY <2>1, <3>1, <4>1 DEF Stale
        <5> QED
          BY <1>0, <3>1, <4>1, <5>1
      <4>2. CASE host.act # "stamped"
        <5>1. host.act = "bare"
          BY <2>1, <4>2 DEF PutInv
        <5>2. clock = 0
          BY <1>0, <3>2, <5>1
        <5> QED
          BY <1>0, <3>1, <4>2, <5>2
      <4> QED
        BY <4>1, <4>2
    <3>3. host'.pc \in {"trim", "upsert"}
      BY <2>2
    <3> HIDE DEF pc
    <3> QED
      BY <1>0, <2>1, <2>2, <2>3, <3>1, <3>2, <3>3 DEF PutInv
  <2> QED
    BY <2>4, <2>5, <2>6
<1>5. CASE PutWrites
  <2>1. /\ UNCHANGED <<journal, mutex, hub, room, client, stamped, clock, acked>>
        /\ host.pc = "upsert" /\ host' = [host EXCEPT !.pc = "fold"]
        /\ row' = [live |-> TRUE, doc |-> host.doc, sync |-> host.sync, fold |-> row.fold]
    BY <1>0, <1>5 DEF PutWrites, Goes, history
  <2>2. /\ host'.pc = "fold" /\ host'.act = host.act /\ host'.head = host.head
        /\ host'.doc = host.doc /\ host'.sync = host.sync
    BY <1>0, <2>1 DEF HostValue
  <2>3. \A n : Prefix(n)' = Prefix(n)
    BY <2>1 DEF Prefix
  <2>4. /\ host.doc = Prefix(host.sync) /\ row.sync <= host.sync /\ host.sync <= clock
        /\ host.sync \in Nat /\ row.fold \in Nat /\ row.sync \in Nat
        /\ hub # None /\ room[hub].loop \in {"wrote", "folded", "done"} => host.sync = clock
    <3>1. host.sync <= clock /\ host.sync \in Nat
      BY <1>0, <2>1 DEF HostValue
    <3>2. mutex = Host
      BY <2>1 DEF MutexInv
    <3>3. hub # None => room[hub].loop \notin {"wrote", "folded"}
      BY <3>2 DEF MutexInv, TypeInv, TypeOK
    <3> QED
      BY <1>0, <2>1, <3>1, <3>3 DEF PutInv, RowValue
  <2>5. /\ row'.live /\ row'.doc = host.doc /\ row'.sync = host.sync /\ row'.fold = row.fold
        /\ row' \in RowValue
    BY <1>0, <2>1, <2>4 DEF RowValue, HostValue
  <2>6. row.fold <= row'.fold /\ row'.fold <= row'.sync
    BY <1>0, <2>4, <2>5
  <2>7. row'.doc = Prefix(row'.sync) /\ row.sync <= row'.sync /\ row'.sync <= clock
        /\ (hub # None /\ room[hub].loop \in {"wrote", "folded", "done"} => row'.sync = clock)
    BY <2>4, <2>5
  <2>8. WriterInv' /\ ClockInv' /\ DocInv' /\ CountInv'
    BY <2>1, <2>5, <2>6, <2>7, PutRow
  <2>9. MutexInv' /\ PutInv'
    BY <1>0, <2>1, <2>2, <2>3, <2>5 DEF MutexInv, PutInv
  <2> QED
    BY <2>8, <2>9
<1>6. CASE PutFolds
  <2> DEFINE mark == IF host.act = "stamped" THEN host.sync ELSE host.head
             n == IF mark > row.fold THEN mark ELSE row.fold
  <2>1. /\ UNCHANGED <<journal, hub, room, client, stamped, clock, acked>>
        /\ host.pc = "fold" /\ host' = HostIdle /\ mutex' = None
        /\ row' = [row EXCEPT !.fold = n]
    BY <1>0, <1>6 DEF PutFolds, history
  <2>2. row.sync = host.sync /\ mark <= row.sync /\ mark \in Nat
    BY <1>0, <2>1 DEF PutInv, HostValue, RowValue
  <2>3. n \in Nat /\ row.fold <= n /\ n <= row.sync
    BY <1>0, <2>2 DEF RowValue
  <2> HIDE DEF n
  <2>4. /\ row'.live /\ row'.doc = row.doc /\ row'.sync = row.sync /\ row'.fold = n
        /\ row' \in RowValue
    BY <1>0, <2>1, <2>3 DEF RowValue
  <2>5. hub # None /\ room[hub].loop \in {"wrote", "folded", "done"} => row.sync = clock
    BY DEF DocInv, CurrentInv
  <2>6. row.sync <= row'.sync
    BY <1>0, <2>4 DEF RowValue
  <2>7. row'.doc = Prefix(row'.sync) /\ row'.sync <= clock
        /\ row.fold <= row'.fold /\ row'.fold <= row'.sync
        /\ (hub # None /\ room[hub].loop \in {"wrote", "folded", "done"} => row'.sync = clock)
    BY <1>0, <2>3, <2>4, <2>5
  <2>8. WriterInv' /\ ClockInv' /\ DocInv' /\ CountInv'
    BY <2>1, <2>4, <2>6, <2>7, PutRow
  <2>9. MutexInv'
    <3>1. mutex = Host
      BY <2>1 DEF MutexInv
    <3> QED
      BY <1>0, <2>1, <3>1 DEF MutexInv
  <2>10. PutInv'
    BY <1>0, <2>1 DEF PutInv
  <2> QED
    BY <2>8, <2>9, <2>10
<1> QED
  BY <1>1, <1>2, <1>3, <1>4, <1>5, <1>6

LEMMA RowInit == NoTrim /\ HostInit => RowInv
<1> SUFFICES ASSUME NoTrim, HostInit PROVE RowInv
  OBVIOUS
<1>1. WriterInv /\ ClockInv /\ DocInv
  BY WriterInit, ClockInit, DocInit DEF HostInit
<1>2. Off.loop = "off" /\ Off.gc = 0 /\ HostIdle.pc = "idle"
  BY DEF Off, Born, HostIdle
<1>3. CountInv
  <2>1. StampedOps = {} /\ clock = 0
    BY DEF HostInit, Init, StampedOps
  <2> QED
    BY <1>2, <2>1, FS_EmptySet DEF HostInit, Init, CountInv
<1>4. MutexInv /\ PutInv
  BY <1>2 DEF HostInit, Init, MutexInv, PutInv
<1> QED
  BY <1>1, <1>3, <1>4 DEF RowInv

LEMMA RowStep ==
    ASSUME ~SlowLoads, NoTrim, HostTypeInv, PendingInv, RowInv, HostNext
    PROVE  RowInv'
<1> SUFFICES ASSUME ~voids'
             PROVE  WriterInv' /\ ClockInv' /\ DocInv' /\ CountInv' /\ MutexInv' /\ PutInv'
  BY DEF RowInv
<1>1. ~voids
  BY HostKeeps DEF HostNext, HostTypeInv
<1>2. /\ WriterInv /\ ClockInv /\ DocInv /\ CountInv /\ MutexInv /\ PutInv
      /\ TypeInv
  BY <1>1 DEF RowInv, HostTypeInv
<1>3. CASE Step /\ UNCHANGED <<host, sent, voids>>
  BY <1>2, <1>3, WriterStep, ClockStep, DocStep, CountStep, MutexStep, PutStep
<1>4. CASE HostStep
  BY <1>2, <1>4, PutDocs
<1>5. CASE Crash /\ host' = HostIdle
  <2>1. WriterInv' /\ ClockInv' /\ DocInv'
    BY <1>2, <1>5, WriterCrash, ClockCrash, DocCrash
  <2>2. /\ UNCHANGED <<journal, stamped, clock>> /\ room' = [r \in Room |-> Off]
        /\ Off.loop = "off" /\ Off.gc = 0 /\ HostIdle.pc = "idle" /\ clock \in Nat
    BY <1>2, <1>5 DEF Crash, storeVars, history, Off, Born, HostIdle, TypeInv, TypeOK
  <2>3. CountInv'
    BY <1>2, <2>2 DEF CountInv, StampedOps, Seqs
  <2>4. MutexInv' /\ PutInv'
    BY <1>5, <2>2 DEF MutexInv, PutInv
  <2> QED
    BY <2>1, <2>3, <2>4
<1> QED
  BY <1>3, <1>4, <1>5 DEF HostNext

LEMMA RowUnchanged ==
    ASSUME RowInv, UNCHANGED hostVars
    PROVE  RowInv'
<1>1. UNCHANGED vars /\ host' = host /\ voids' = voids
  BY DEF hostVars
<1>2. ASSUME CountInv, MutexInv, PutInv PROVE CountInv' /\ MutexInv' /\ PutInv'
  BY <1>1, <1>2 DEF vars, CountInv, StampedOps, Seqs, MutexInv, PutInv, Prefix
<1> QED
  BY <1>1, <1>2, WriterUnchanged, ClockUnchanged, DocUnchanged DEF RowInv

LEMMA HostPendingAlways == HostSpec => []PendingInv
<1>1. HostInit => PendingInv
  BY PendingInit DEF HostInit
<1>2. HostTypeInv /\ PendingInv /\ [HostNext]_hostVars => PendingInv'
  <2>1. ASSUME HostTypeInv, PendingInv, HostStep PROVE PendingInv'
    BY <2>1, HostKeeps, PendingQuiet DEF HostTypeInv
  <2>2. ASSUME PendingInv, UNCHANGED hostVars PROVE PendingInv'
    BY <2>2, PendingQuiet DEF hostVars, vars
  <2> QED
    BY <2>1, <2>2, PendingStep, PendingCrash DEF HostNext, HostTypeInv
<1> QED
  BY <1>1, <1>2, HostTypeAlways, PTL DEF HostSpec

LEMMA RowAlways == ASSUME ~SlowLoads, NoTrim PROVE HostSpec => []RowInv
<1>1. HostInit => RowInv
  BY RowInit
<1>2. HostTypeInv /\ PendingInv /\ RowInv /\ [HostNext]_hostVars => RowInv'
  BY RowStep, RowUnchanged
<1> QED
  BY <1>1, <1>2, HostTypeAlways, HostPendingAlways, PTL DEF HostSpec

\* PUTs of every age, with or without a stamp, and checkpoints between them
\* keep the row's stamp telling what the row holds.
THEOREM StampAlwaysSurvives == ASSUME ~SlowLoads, NoTrim PROVE HostSpec => []StampSurvivesPuts
<1>1. RowInv => StampSurvivesPuts
  BY DEF RowInv, DocInv, StoreInv, StampSurvivesPuts
<1> QED
  BY <1>1, RowAlways, PTL

\* A PUT that passed the gate is still no older than the row when it writes it,
\* whatever the rooms appended in between.
THEOREM AcceptedAlwaysFresh == ASSUME ~SlowLoads, NoTrim PROVE HostSpec => []AcceptedPutIsFresh
<1>1. HostTypeInv /\ RowInv => AcceptedPutIsFresh
  BY DEF HostTypeInv, HostTypeOK, TypeOK, HostValue, RowValue, RowInv, PutInv, AcceptedPutIsFresh
<1> QED
  BY <1>1, HostTypeAlways, RowAlways, PTL
=============================================================================
