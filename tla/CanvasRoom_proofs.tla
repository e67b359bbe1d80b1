-------------------------- MODULE CanvasRoom_proofs --------------------------
(***************************************************************************)
(* Machine-checked proofs about the live surface of a shared canvas, for   *)
(* any number of rooms, members, posters and batches and for every queue   *)
(* size and trim threshold.                                                *)
(*                                                                         *)
(* The invariants are stated and stepped in layers, each over the ones     *)
(* before it: types, the one writer, the clock, the pending batches, the   *)
(* docs and the members.                                                   *)
(***************************************************************************)
EXTENDS CanvasRoom, FiniteSetTheorems, TLAPS

-----------------------------------------------------------------------------
(* Type correctness *)

\* What a handler c in state v holds: a batch when it has one to submit, the
\* room it talks to.
HoldsIt(c, v) ==
    /\ v.pc \in {"queued", "served"} => v.op # None
    /\ v.pc \in {"have", "joining", "in", "queued", "served", "leaving"} => v.room # None
    /\ c \in Poster => /\ v.pc \notin {"joining", "in", "leaving"}
                       /\ v.pc # "out" => v.op # None
    /\ c \in Member => v.pc # "served"

HoldsBatch == \A c \in Client : HoldsIt(c, client[c])

\* A room that checkpoints for an HTTP batch still has its poster waiting.
ServesPoster ==
    \A r \in Room : room[r].task = "submit" =>
        /\ room[r].client \in Poster
        /\ client[room[r].client].pc = "served"
        /\ client[room[r].client].room = r

\* The journal has a last entry (it is finite).
HeadExists == journal = {} \/ \E n \in Seqs : \A k \in Seqs : k <= n

TypeInv == TypeOK /\ HoldsBatch /\ ServesPoster /\ HeadExists

\* LatestCanvasOpSeq is the last seq of the journal.
LEMMA HeadIsLast ==
    ASSUME TypeOK, HeadExists
    PROVE  /\ JournalHead \in Nat
           /\ journal # {} => JournalHead \in Seqs
           /\ \A k \in Seqs : k \in Nat /\ k <= JournalHead
<1>1. Seqs \subseteq Nat
  BY DEF TypeOK, Seqs
<1>2. CASE journal = {}
  BY <1>2 DEF JournalHead, Seqs
<1>3. CASE journal # {}
  BY <1>1, <1>3 DEF JournalHead, HeadExists
<1> QED
  BY <1>2, <1>3

\* The seq of the next op is a positive number past every one in the journal.
LEMMA NextSeqType ==
    ASSUME TypeOK, HeadExists
    PROVE  NextSeq \in Nat \ {0} /\ \A k \in Seqs : k < NextSeq
  BY HeadIsLast DEF TypeOK, NextSeq, RowValue

LEMMA OpsAfterType ==
    ASSUME TypeOK, NEW n
    PROVE  OpsAfter(n) \subseteq Op
  BY DEF TypeOK, OpsAfter

\* Only a client's own state moves: what a handler does on its own.
ClientMoves(c, v) ==
    /\ client' = [client EXCEPT ![c] = v]
    /\ UNCHANGED <<storeVars, mutex, hub, room, history>>

\* Only one room moves (and maybe collabMu).
RoomMoves(r, x) ==
    /\ room' = [room EXCEPT ![r] = x]
    /\ UNCHANGED <<storeVars, hub, client, history>>

LEMMA ClientMoveType ==
    ASSUME TypeInv, NEW c \in Client, NEW v \in ClientValue, ClientMoves(c, v),
           HoldsIt(c, v), client[c].pc # "served"
    PROVE  TypeInv'
<1>1. TypeOK'
  BY DEF TypeInv, TypeOK, ClientMoves, storeVars, history
<1>2. HoldsBatch'
  BY DEF TypeInv, TypeOK, ClientMoves, HoldsBatch
<1>3. ServesPoster'
  BY DEF TypeInv, TypeOK, ClientMoves, ServesPoster
<1>4. HeadExists'
  BY DEF TypeInv, ClientMoves, storeVars, HeadExists, Seqs
<1> QED
  BY <1>1, <1>2, <1>3, <1>4 DEF TypeInv

LEMMA RoomMoveType ==
    ASSUME TypeInv, NEW r \in Room, NEW x \in RoomValue, RoomMoves(r, x),
           mutex' \in Room \cup {None, Host},
           x.task = "submit" => room[r].task = "submit" /\ x.client = room[r].client
    PROVE  TypeInv'
<1>1. TypeOK'
  BY DEF TypeInv, TypeOK, RoomMoves, storeVars, history
<1>2. HoldsBatch'
  BY DEF TypeInv, TypeOK, RoomMoves, HoldsBatch
<1>3. ServesPoster'
  BY DEF TypeInv, TypeOK, RoomMoves, ServesPoster
<1>4. HeadExists'
  BY DEF TypeInv, RoomMoves, storeVars, HeadExists, Seqs
<1> QED
  BY <1>1, <1>2, <1>3, <1>4 DEF TypeInv

Handler(c) ==
    \/ Lookup(c) \/ LoadRow(c) \/ LoadHead(c) \/ LoadTail(c) \/ LoseRace(c)
    \/ Post(c) \/ Join(c) \/ UpgradeFails(c) \/ MemberSubmits(c) \/ Leave(c)

\* What a handler's own step may make of its state.
HandlerMoves(c, v) ==
    /\ ClientMoves(c, v)
    /\ v \in ClientValue /\ HoldsIt(c, v) /\ v.pc # "served"
    /\ client[c].pc \notin {"queued", "served", "joining", "leaving"}
    /\ v.op \in {client[c].op, None} \cup Fresh

\* Every step of a handler moves that handler and nothing else.
LEMMA HandlerIsMove ==
    ASSUME TypeInv, NEW c \in Client, Handler(c)
    PROVE  \E v : HandlerMoves(c, v)
<1> USE CanvasAssumption DEF Client
<1>0. client[c] \in ClientValue /\ HoldsIt(c, client[c])
  BY DEF TypeInv, TypeOK, HoldsBatch
<1>1. Absent \in ClientValue /\ HoldsIt(c, Absent)
  BY DEF Absent, ClientValue, HoldsIt
<1>2. ASSUME Lookup(c) PROVE \E v : HandlerMoves(c, v)
  <2>1. PICK o \in (IF c \in Poster THEN Fresh ELSE {None}) :
          client' = [client EXCEPT ![c] =
              IF hub # None THEN [client[c] EXCEPT !.pc = "have", !.op = o, !.room = hub]
                            ELSE [client[c] EXCEPT !.pc = "row", !.op = o]]
    BY <1>2 DEF Lookup
  <2> DEFINE v == IF hub # None THEN [client[c] EXCEPT !.pc = "have", !.op = o, !.room = hub]
                                ELSE [client[c] EXCEPT !.pc = "row", !.op = o]
  <2>2. v \in ClientValue
    BY <1>0, <2>1 DEF ClientValue, Fresh, TypeInv, TypeOK
  <2>3. HoldsIt(c, v) /\ v.pc # "served" /\ v.op \in {None} \cup Fresh
    BY <1>0, <2>1 DEF ClientValue, Fresh, HoldsIt
  <2>4. ClientMoves(c, v) /\ client[c].pc = "out"
    BY <1>2, <2>1 DEF Lookup, ClientMoves
  <2> QED
    BY <2>2, <2>3, <2>4 DEF HandlerMoves
<1>3. ASSUME LoadRow(c) PROVE \E v : HandlerMoves(c, v)
  <2> DEFINE v == IF row.live THEN [client[c] EXCEPT !.pc = "head", !.doc = row.doc,
                                                     !.sync = row.sync]
                              ELSE Absent
  <2>1. v \in ClientValue
    BY <1>0, <1>1 DEF ClientValue, TypeInv, TypeOK, RowValue
  <2>2. HoldsIt(c, v) /\ v.pc # "served"
        /\ client[c].pc \notin {"queued", "served", "joining", "leaving"}
        /\ v.op \in {client[c].op, None} \cup Fresh
    BY <1>0, <1>1, <1>3 DEF Absent, ClientValue, HoldsIt, LoadRow
  <2>3. ClientMoves(c, v)
    BY <1>3 DEF LoadRow, ClientMoves
  <2> QED
    BY <2>1, <2>2, <2>3 DEF HandlerMoves
<1>4. ASSUME LoadHead(c) PROVE \E v : HandlerMoves(c, v)
  <2> DEFINE v == IF JournalHead > client[c].sync
                  THEN [client[c] EXCEPT !.pc = "tail", !.head = JournalHead]
                  ELSE [client[c] EXCEPT !.pc = "built", !.head = client[c].sync]
  <2>1. v \in ClientValue
    BY <1>0, HeadIsLast DEF ClientValue, TypeInv
  <2>2. HoldsIt(c, v) /\ v.pc # "served"
        /\ client[c].pc \notin {"queued", "served", "joining", "leaving"}
        /\ v.op \in {client[c].op, None} \cup Fresh
    BY <1>0, <1>4 DEF Absent, ClientValue, HoldsIt, LoadHead
  <2>3. ClientMoves(c, v)
    BY <1>4 DEF LoadHead, ClientMoves
  <2> QED
    BY <2>1, <2>2, <2>3 DEF HandlerMoves
<1>5. ASSUME LoadTail(c) PROVE \E v : HandlerMoves(c, v)
  <2> DEFINE v == [client[c] EXCEPT !.pc = "built", !.doc = client[c].doc \cup OpsAfter(client[c].sync)]
  <2>1. v \in ClientValue
    BY <1>0, OpsAfterType DEF ClientValue, TypeInv
  <2>2. HoldsIt(c, v) /\ v.pc # "served"
        /\ client[c].pc \notin {"queued", "served", "joining", "leaving"}
        /\ v.op \in {client[c].op, None} \cup Fresh
    BY <1>0, <1>5 DEF Absent, ClientValue, HoldsIt, LoadTail
  <2>3. ClientMoves(c, v)
    BY <1>5 DEF LoadTail, ClientMoves
  <2> HIDE DEF v
  <2> QED
    BY <2>1, <2>2, <2>3 DEF HandlerMoves
<1>6. ASSUME LoseRace(c) PROVE \E v : HandlerMoves(c, v)
  <2> DEFINE v == [Absent EXCEPT !.pc = "have", !.op = client[c].op, !.room = hub]
  <2>1. v \in ClientValue
    BY <1>0 DEF ClientValue, TypeInv, TypeOK, Absent
  <2>2. HoldsIt(c, v) /\ v.pc # "served"
        /\ client[c].pc \notin {"queued", "served", "joining", "leaving"}
        /\ v.op \in {client[c].op, None} \cup Fresh
    BY <1>0, <1>6 DEF Absent, ClientValue, HoldsIt, LoseRace
  <2>3. ClientMoves(c, v)
    BY <1>6 DEF LoseRace, ClientMoves, Have
  <2> QED
    BY <2>1, <2>2, <2>3 DEF HandlerMoves
<1>7. ASSUME NEW o \in Op, o = client[c].op \/ o \in Fresh, Submit(c, o), client[c].pc \in {"have", "in"},
             c \in Poster \/ client[c].pc = "in"
      PROVE  \E v : HandlerMoves(c, v)
  <2> DEFINE r == client[c].room
             v == IF room[r].dropped \/ Cardinality(Waiting(r, "queued")) >= SubmitBuffer
                  THEN Answered(c)
                  ELSE [client[c] EXCEPT !.pc = "queued", !.op = o]
  <2>1. v \in ClientValue
    BY <1>0, <1>1 DEF ClientValue, Answered
  <2>2. HoldsIt(c, v) /\ v.pc # "served"
        /\ client[c].pc \notin {"queued", "served", "joining", "leaving"}
        /\ v.op \in {client[c].op, None} \cup Fresh
    BY <1>0, <1>1, <1>7 DEF Absent, ClientValue, HoldsIt, Answered
  <2>3. ClientMoves(c, v)
    BY <1>7 DEF Submit, ClientMoves
  <2> QED
    BY <2>1, <2>2, <2>3 DEF HandlerMoves
<1>8. ASSUME Post(c) PROVE \E v : HandlerMoves(c, v)
  <2>1. client[c].op \in Op
    BY <1>0, <1>8 DEF Post, HoldsIt, ClientValue
  <2> QED
    BY <1>7, <1>8, <2>1 DEF Post
<1>9. ASSUME MemberSubmits(c) PROVE \E v : HandlerMoves(c, v)
  BY <1>7, <1>9 DEF MemberSubmits, Fresh
<1>10. ASSUME Join(c) PROVE \E v : HandlerMoves(c, v)
  <2> DEFINE r == client[c].room
             v == IF room[r].dropped \/ Cardinality(Waiting(r, "joining")) >= JoinBuffer
                  THEN Absent ELSE [client[c] EXCEPT !.pc = "joining"]
  <2>1. v \in ClientValue
    BY <1>0, <1>1 DEF ClientValue
  <2>2. HoldsIt(c, v) /\ v.pc # "served"
        /\ client[c].pc \notin {"queued", "served", "joining", "leaving"}
        /\ v.op \in {client[c].op, None} \cup Fresh
    BY <1>0, <1>1, <1>10 DEF Absent, ClientValue, HoldsIt, Join
  <2>3. ClientMoves(c, v)
    BY <1>10 DEF Join, ClientMoves
  <2> QED
    BY <2>1, <2>2, <2>3 DEF HandlerMoves
<1>12. ASSUME UpgradeFails(c) PROVE \E v : HandlerMoves(c, v)
  <2>1. Absent \in ClientValue
    BY <1>0, <1>1 DEF ClientValue
  <2>2. HoldsIt(c, Absent) /\ Absent.pc # "served"
        /\ client[c].pc \notin {"queued", "served", "joining", "leaving"}
        /\ Absent.op \in {client[c].op, None} \cup Fresh
    BY <1>0, <1>1, <1>12 DEF Absent, ClientValue, HoldsIt, UpgradeFails
  <2>3. ClientMoves(c, Absent)
    BY <1>12 DEF UpgradeFails, ClientMoves
  <2> QED
    BY <2>1, <2>2, <2>3 DEF HandlerMoves
<1>11. ASSUME Leave(c) PROVE \E v : HandlerMoves(c, v)
  <2> DEFINE r == client[c].room
             v == IF room[r].loop = "off" \/ Cardinality(Waiting(r, "leaving")) >= LeaveBuffer
                  THEN Absent ELSE [client[c] EXCEPT !.pc = "leaving"]
  <2>1. v \in ClientValue
    BY <1>0, <1>1 DEF ClientValue
  <2>2. HoldsIt(c, v) /\ v.pc # "served"
        /\ client[c].pc \notin {"queued", "served", "joining", "leaving"}
        /\ v.op \in {client[c].op, None} \cup Fresh
    BY <1>0, <1>1, <1>11 DEF Absent, ClientValue, HoldsIt, Leave
  <2>3. ClientMoves(c, v)
    BY <1>11 DEF Leave, ClientMoves
  <2> QED
    BY <2>1, <2>2, <2>3 DEF HandlerMoves
<1> QED
  BY <1>2, <1>3, <1>4, <1>5, <1>6, <1>8, <1>9, <1>10, <1>11, <1>12 DEF Handler


LEMMA HandlerType ==
    ASSUME TypeInv, NEW c \in Client, Handler(c)
    PROVE  TypeInv'
<1>1. PICK v : HandlerMoves(c, v)
  BY HandlerIsMove
<1> QED
  BY <1>1, ClientMoveType DEF HandlerMoves

\* NewRoom's room is a room.
LEMMA BornType ==
    ASSUME NEW doc \in SUBSET Op, NEW latest \in Nat
    PROVE  Born(doc, latest) \in RoomValue /\ Off \in RoomValue
  BY DEF Born, Off, RoomValue, Loop, Task

\* A slot taken for a new room.
LEMMA RegisterType ==
    ASSUME TypeInv, NEW c \in Client, Register(c)
    PROVE  TypeInv'
<1> USE CanvasAssumption
<1>1. PICK r \in Room :
          /\ room[r].loop = "off" /\ ~Held(r)
          /\ room' = [room EXCEPT ![r] = Born(client[c].doc, client[c].head)]
          /\ hub' = r
          /\ Have(c, r)
  BY DEF Register
<1>2. client[c] \in ClientValue /\ HoldsIt(c, client[c]) /\ client[c].pc = "built"
  BY DEF TypeInv, TypeOK, HoldsBatch, Register
<1> DEFINE v == [Absent EXCEPT !.pc = "have", !.op = client[c].op, !.room = r]
<1>3. v \in ClientValue
  BY <1>2 DEF ClientValue, Absent
<1>4. HoldsIt(c, v)
  BY <1>2 DEF HoldsIt, Absent
<1>5. client' = [client EXCEPT ![c] = v]
  BY <1>1 DEF Have
<1>6. Born(client[c].doc, client[c].head) \in RoomValue
  <2>1. client[c].doc \in SUBSET Op /\ client[c].head \in Nat
    BY <1>2 DEF ClientValue
  <2> QED
    BY <2>1, BornType
<1>7. UNCHANGED <<journal, row, mutex, stamped, clock, acked>>
  BY DEF Register, storeVars, history
<1> HIDE DEF v
<1>8. TypeOK'
  BY <1>1, <1>3, <1>5, <1>6, <1>7 DEF TypeInv, TypeOK
<1>9. HoldsBatch'
  BY <1>4, <1>5 DEF TypeInv, TypeOK, HoldsBatch
<1>10. ServesPoster'
  <2>1. Born(client[c].doc, client[c].head).task = "none"
    BY DEF Born
  <2> QED
    BY <1>1, <1>2, <1>5, <2>1 DEF TypeInv, TypeOK, ServesPoster
<1>11. HeadExists'
  BY <1>7 DEF TypeInv, HeadExists, Seqs
<1> QED
  BY <1>8, <1>9, <1>10, <1>11 DEF TypeInv

\* The state a room's caller is left in when it is answered.
LEMMA AnsweredType ==
    ASSUME TypeInv, NEW c \in Client
    PROVE  /\ Absent \in ClientValue /\ HoldsIt(c, Absent)
           /\ client[c].pc # "out" /\ client[c].room # None
                => Answered(c) \in ClientValue /\ HoldsIt(c, Answered(c))
           /\ Answered(c).op = None /\ Answered(c).pc \in {"out", "in"}
<1> USE CanvasAssumption DEF Client
<1>1. client[c] \in ClientValue /\ HoldsIt(c, client[c])
  BY DEF TypeInv, TypeOK, HoldsBatch
<1>2. Absent \in ClientValue /\ HoldsIt(c, Absent)
  BY DEF Absent, ClientValue, HoldsIt
<1> QED
  BY <1>1, <1>2 DEF Answered, ClientValue, HoldsIt, Absent

LEMMA HelperType ==
    ASSUME NEW x \in RoomValue
    PROVE  /\ ArmIdle(x) \in RoomValue /\ CancelIdle(x) \in RoomValue
           /\ ArmTick(x) \in RoomValue /\ Resume(x) \in RoomValue
           /\ ArmIdle(x).task = x.task /\ CancelIdle(x).task = x.task
           /\ ArmTick(x).task = x.task /\ Resume(x).task = "none"
           /\ ArmIdle(x).client = x.client /\ CancelIdle(x).client = x.client
           /\ ArmTick(x).client = x.client
<1>1. ArmIdle(x) \in RoomValue /\ ArmIdle(x).task = x.task /\ ArmIdle(x).client = x.client
  BY DEF ArmIdle, RoomValue
<1>2. /\ CancelIdle(x) \in RoomValue
      /\ CancelIdle(x).task = x.task /\ CancelIdle(x).client = x.client
  BY DEF CancelIdle, RoomValue
<1>3. ArmTick(x) \in RoomValue /\ ArmTick(x).task = x.task /\ ArmTick(x).client = x.client
  BY DEF ArmTick, RoomValue
<1>4. Resume(x) \in RoomValue /\ Resume(x).task = "none"
  BY DEF Resume, RoomValue, Loop, Task
<1> QED
  BY <1>1, <1>2, <1>3, <1>4

\* The room with an op folded in.
LEMMA FoldedType ==
    ASSUME TypeOK, HeadExists, NEW x \in RoomValue, NEW o \in Op
    PROVE  /\ Folded(x, o) \in RoomValue
           /\ Folded(x, o).task = x.task /\ Folded(x, o).client = x.client
<1>1. NextSeq \in Nat
  BY NextSeqType
<1>2. x.gc + 1 \in Nat /\ x.doc \cup {o} \in SUBSET Op
  BY DEF RoomValue
<1> QED
  BY <1>1, <1>2 DEF Folded, RoomValue

\* What an append leaves behind, whoever makes it.
LEMMA AppendType ==
    ASSUME TypeOK, HeadExists, NEW o \in Op, Append(o)
    PROVE  /\ journal' \in SUBSET [seq : Nat, op : Op]
           /\ stamped' \in [Op -> Nat]
           /\ clock' \in Nat
           /\ HeadExists'
<1>1. NextSeq \in Nat /\ \A k \in Seqs : k < NextSeq
  BY NextSeqType
<1>2. Seqs \subseteq Nat
  BY DEF TypeOK, Seqs
<1>3. journal' = journal \cup {[seq |-> NextSeq, op |-> o]}
  BY DEF Append
<1>4. Seqs' = Seqs \cup {NextSeq}
  <2> DEFINE e == [seq |-> NextSeq, op |-> o]
  <2>1. e.seq = NextSeq /\ journal' = journal \cup {e}
    BY <1>3
  <2> HIDE DEF e
  <2> QED
    BY <2>1 DEF Seqs
<1>5. HeadExists'
  BY <1>1, <1>2, <1>4 DEF HeadExists
<1> QED
  BY <1>1, <1>3, <1>5 DEF TypeOK, Append

\* The room serves a member, refuses a batch, or sees somebody go.
LEMMA ServeType ==
    ASSUME TypeInv, NEW r \in Room, NEW c \in Client, Serve(r, c)
    PROVE  TypeInv'
<1> USE CanvasAssumption
<1>0. /\ client[c] \in ClientValue /\ HoldsIt(c, client[c])
      /\ room[r] \in RoomValue
      /\ mutex \in Room \cup {None, Host}
      /\ TypeOK /\ HeadExists
  BY DEF TypeInv, TypeOK, HoldsBatch
<1>1. CASE RefuseSubmit(r, c)
  <2>1. ClientMoves(c, Answered(c)) /\ client[c].pc = "queued" /\ client[c].room = r
    BY <1>1 DEF RefuseSubmit, ClientMoves, Waiting
  <2> QED
    BY <1>0, <2>1, AnsweredType, ClientMoveType DEF ClientValue
<1>2. CASE ServeJoin(r, c)
  <2> DEFINE v == [client[c] EXCEPT !.pc = "in"]
             x == CancelIdle([room[r] EXCEPT !.members = room[r].members \cup {c}])
  <2>1. /\ client[c].pc = "joining" /\ client[c].room = r
        /\ room' = [room EXCEPT ![r] = x] /\ client' = [client EXCEPT ![c] = v]
        /\ UNCHANGED <<journal, row, mutex, stamped, clock, acked, hub>>
    BY <1>2 DEF ServeJoin, Waiting, storeVars, history
  <2>2. c \in Member
    BY <1>0, <2>1 DEF HoldsIt, Client
  <2>3. v \in ClientValue /\ HoldsIt(c, v)
    BY <1>0, <2>1, <2>2 DEF ClientValue, HoldsIt
  <2>4. x \in RoomValue /\ x.task = room[r].task /\ x.client = room[r].client
    <3> DEFINE y == [room[r] EXCEPT !.members = room[r].members \cup {c}]
    <3>1. y \in RoomValue /\ y.task = room[r].task /\ y.client = room[r].client
      BY <1>0, <2>2 DEF RoomValue
    <3>2. x = CancelIdle(y)
      OBVIOUS
    <3> HIDE DEF x, y
    <3> QED
      BY <3>1, <3>2, HelperType
  <2> HIDE DEF v, x
  <2>5. TypeOK'
    BY <2>1, <2>3, <2>4 DEF TypeInv, TypeOK
  <2>6. HoldsBatch' /\ HeadExists'
    BY <2>1, <2>3 DEF TypeInv, TypeOK, HoldsBatch, HeadExists, Seqs
  <2>7. ServesPoster'
    BY <2>1, <2>4 DEF TypeInv, TypeOK, ServesPoster
  <2> QED
    BY <2>5, <2>6, <2>7 DEF TypeInv
<1>3. CASE ServeMember(r, c)
  <2> DEFINE o == client[c].op
             x == ArmTick(CancelIdle(Folded(room[r], o)))
  <2>1. /\ client[c].pc = "queued" /\ client[c].room = r /\ Append(o)
        /\ room' = [room EXCEPT ![r] = x]
        /\ client' = [client EXCEPT ![c] = Answered(c)]
        /\ acked' = acked \cup {o}
        /\ UNCHANGED <<row, mutex, hub>>
    BY <1>3 DEF ServeMember, Waiting
  <2>2. o \in Op
    BY <1>0, <2>1 DEF HoldsIt, ClientValue
  <2>3. x \in RoomValue /\ x.task = room[r].task /\ x.client = room[r].client
    <3> DEFINE y == Folded(room[r], o)
    <3>1. y \in RoomValue /\ y.task = room[r].task /\ y.client = room[r].client
      BY <1>0, <2>2, FoldedType
    <3>3. x = ArmTick(CancelIdle(y))
      OBVIOUS
    <3> HIDE DEF x, y
    <3>2. CancelIdle(y) \in RoomValue /\ CancelIdle(y).task = y.task
          /\ CancelIdle(y).client = y.client
      BY <3>1, HelperType
    <3> QED
      BY <3>1, <3>2, <3>3, HelperType
  <2>4. Answered(c) \in ClientValue /\ HoldsIt(c, Answered(c))
    BY <1>0, <2>1, AnsweredType DEF ClientValue
  <2>5. journal' \in SUBSET [seq : Nat, op : Op] /\ stamped' \in [Op -> Nat]
        /\ clock' \in Nat /\ HeadExists'
    BY <1>0, <2>1, <2>2, AppendType
  <2> HIDE DEF x, o
  <2>6. TypeOK'
    BY <2>1, <2>2, <2>3, <2>4, <2>5 DEF TypeInv, TypeOK
  <2>7. HoldsBatch'
    BY <2>1, <2>4 DEF TypeInv, TypeOK, HoldsBatch
  <2>8. ServesPoster'
    BY <2>1, <2>3 DEF TypeInv, TypeOK, ServesPoster
  <2> QED
    BY <2>5, <2>6, <2>7, <2>8 DEF TypeInv
<1>4. CASE ServePoster(r, c)
  <2> DEFINE o == client[c].op
             v == [client[c] EXCEPT !.pc = "served"]
             x == [Folded(room[r], o) EXCEPT !.loop = "ckpt", !.task = "submit", !.client = c]
  <2>1. /\ client[c].pc = "queued" /\ client[c].room = r /\ Append(o) /\ c \in Poster
        /\ room' = [room EXCEPT ![r] = x]
        /\ client' = [client EXCEPT ![c] = v]
        /\ UNCHANGED <<row, mutex, hub, acked>>
    BY <1>4 DEF ServePoster, Waiting
  <2>2. o \in Op
    BY <1>0, <2>1 DEF HoldsIt, ClientValue
  <2>3. x \in RoomValue /\ x.client = c
    <3> DEFINE y == Folded(room[r], o)
    <3>1. y \in RoomValue
      BY <1>0, <2>2, FoldedType
    <3>2. x = [y EXCEPT !.loop = "ckpt", !.task = "submit", !.client = c]
      OBVIOUS
    <3> HIDE DEF x, y
    <3> QED
      BY <3>1, <3>2 DEF RoomValue, Loop, Task, Client
  <2>4. v \in ClientValue /\ HoldsIt(c, v) /\ v.pc = "served" /\ v.room = r
    BY <1>0, <2>1 DEF ClientValue, HoldsIt
  <2>5. journal' \in SUBSET [seq : Nat, op : Op] /\ stamped' \in [Op -> Nat]
        /\ clock' \in Nat /\ HeadExists'
    BY <1>0, <2>1, <2>2, AppendType
  <2> HIDE DEF x, o, v
  <2>6. TypeOK'
    BY <2>1, <2>2, <2>3, <2>4, <2>5 DEF TypeInv, TypeOK
  <2>7. HoldsBatch'
    BY <2>1, <2>4 DEF TypeInv, TypeOK, HoldsBatch
  <2>8. ServesPoster'
    BY <2>1, <2>3, <2>4 DEF TypeInv, TypeOK, ServesPoster
  <2> QED
    BY <2>5, <2>6, <2>7, <2>8 DEF TypeInv
<1>5. CASE ServeLeave(r, c)
  <2> DEFINE left == room[r].members \ {c}
             x == IF c \in room[r].members /\ left = {}
                  THEN [room[r] EXCEPT !.members = left, !.loop = "ckpt", !.task = "leave"]
                  ELSE [room[r] EXCEPT !.members = left]
  <2>1. /\ client[c].pc = "leaving" /\ client[c].room = r
        /\ room' = [room EXCEPT ![r] = x] /\ client' = [client EXCEPT ![c] = Absent]
        /\ UNCHANGED <<journal, row, mutex, stamped, clock, acked, hub>>
    BY <1>5 DEF ServeLeave, Waiting, storeVars, history
  <2>2. x \in RoomValue /\ (x.task = "submit" => room[r].task = "submit"
                                                 /\ x.client = room[r].client)
    BY <1>0 DEF RoomValue, Loop, Task
  <2> HIDE DEF x
  <2>3. TypeOK'
    BY <2>1, <2>2, AnsweredType DEF TypeInv, TypeOK
  <2>4. HoldsBatch' /\ HeadExists'
    BY <2>1, AnsweredType DEF TypeInv, TypeOK, HoldsBatch, HeadExists, Seqs
  <2>5. ServesPoster'
    BY <2>1, <2>2 DEF TypeInv, TypeOK, ServesPoster
  <2> QED
    BY <2>3, <2>4, <2>5 DEF TypeInv
<1> QED
  BY <1>1, <1>2, <1>3, <1>4, <1>5 DEF Serve

\* The steps that move one room, and at most take collabMu.
LoopMoves(r) == ServeTick(r) \/ ServeDrop(r) \/ CheckpointReads(r)
                \/ AfterTick(r) \/ AfterLeave(r) \/ Timer(r)

LEMMA LoopMovesType ==
    ASSUME TypeInv, NEW r \in Room, LoopMoves(r)
    PROVE  TypeInv'
<1> USE CanvasAssumption
<1>0. room[r] \in RoomValue /\ mutex \in Room \cup {None, Host}
  BY DEF TypeInv, TypeOK
<1>1. CASE ServeTick(r)
  <2> DEFINE x == [room[r] EXCEPT !.tick = "no", !.loop = "ckpt", !.task = "tick"]
  <2>1. x \in RoomValue /\ x.task # "submit"
    BY <1>0 DEF RoomValue, Loop, Task
  <2>2. RoomMoves(r, x) /\ mutex' = mutex
    BY <1>1 DEF ServeTick, RoomMoves
  <2> QED
    BY <1>0, <2>1, <2>2, RoomMoveType
<1>2. CASE ServeDrop(r)
  <2> DEFINE x == [room[r] EXCEPT !.members = {}, !.task = "drop",
                                  !.loop = IF room[r].voided THEN "done" ELSE "ckpt"]
  <2>1. x \in RoomValue /\ x.task # "submit"
    BY <1>0 DEF RoomValue, Loop, Task
  <2>2. RoomMoves(r, x) /\ mutex' = mutex
    BY <1>2 DEF ServeDrop, RoomMoves
  <2> QED
    BY <1>0, <2>1, <2>2, RoomMoveType
<1>3. CASE CheckpointReads(r)
  <2>1. PICK l \in {"read", "done"} : room' = [room EXCEPT ![r].loop = l]
    BY <1>3 DEF CheckpointReads
  <2> DEFINE x == [room[r] EXCEPT !.loop = l]
  <2>2. x \in RoomValue /\ x.task = room[r].task /\ x.client = room[r].client
    BY <1>0 DEF RoomValue, Loop
  <2>3. RoomMoves(r, x) /\ mutex' \in {mutex, r}
    BY <1>3, <2>1 DEF CheckpointReads, RoomMoves
  <2> QED
    BY <1>0, <2>2, <2>3, RoomMoveType
<1>4. CASE AfterTick(r)
  <2>1. RoomMoves(r, Resume(room[r])) /\ mutex' = mutex
    BY <1>4 DEF AfterTick, RoomMoves
  <2>2. Resume(room[r]) \in RoomValue /\ Resume(room[r]).task # "submit"
    BY <1>0, HelperType
  <2> QED
    BY <1>0, <2>1, <2>2, RoomMoveType
<1>5. CASE AfterLeave(r)
  <2> DEFINE x == [Resume(room[r]) EXCEPT !.dropped = TRUE]
  <2>1. Resume(room[r]) \in RoomValue /\ Resume(room[r]).task = "none"
    BY <1>0, HelperType
  <2>2. x \in RoomValue /\ x.task # "submit"
    BY <2>1 DEF RoomValue
  <2>3. RoomMoves(r, x) /\ mutex' = mutex
    BY <1>5 DEF AfterLeave, RoomMoves
  <2> QED
    BY <1>0, <2>2, <2>3, RoomMoveType
<1>6. CASE IdleFires(r)
  <2> DEFINE x == [room[r] EXCEPT !.idle = IF room[r].dropped THEN "no" ELSE "firing"]
  <2>1. x \in RoomValue /\ x.task = room[r].task /\ x.client = room[r].client
    BY <1>0 DEF RoomValue
  <2>2. RoomMoves(r, x) /\ mutex' = mutex
    BY <1>6 DEF IdleFires, RoomMoves
  <2> QED
    BY <1>0, <2>1, <2>2, RoomMoveType
<1>7. CASE IdleDrops(r)
  <2> DEFINE x == [room[r] EXCEPT !.idle = "no", !.dropped = TRUE]
  <2>1. x \in RoomValue /\ x.task = room[r].task /\ x.client = room[r].client
    BY <1>0 DEF RoomValue
  <2>2. RoomMoves(r, x) /\ mutex' = mutex
    BY <1>7 DEF IdleDrops, RoomMoves
  <2> QED
    BY <1>0, <2>1, <2>2, RoomMoveType
<1>8. CASE TickFires(r)
  <2> DEFINE x == [room[r] EXCEPT !.tick = IF room[r].dropped THEN "no" ELSE "due"]
  <2>1. x \in RoomValue /\ x.task = room[r].task /\ x.client = room[r].client
    BY <1>0 DEF RoomValue
  <2>2. RoomMoves(r, x) /\ mutex' = mutex
    BY <1>8 DEF TickFires, RoomMoves
  <2> QED
    BY <1>0, <2>1, <2>2, RoomMoveType
<1> QED
  BY <1>1, <1>2, <1>3, <1>4, <1>5, <1>6, <1>7, <1>8 DEF LoopMoves, Timer

\* What a trim keeps still has a last entry.
LEMMA TrimKeepsHead ==
    ASSUME TypeOK, HeadExists, NEW n \in Nat, journal' = {e \in journal : e.seq > n}
    PROVE  HeadExists'
<1>1. CASE journal' = {}
  BY <1>1 DEF HeadExists
<1>2. CASE journal' # {}
  <2>1. \A k \in Seqs : k \in Nat /\ k <= JournalHead
    BY HeadIsLast
  <2>2. PICK e \in journal : e.seq > n
    BY <1>2
  <2>3. PICK h \in journal : h.seq = JournalHead
    BY <2>2, HeadIsLast DEF Seqs
  <2>4. e.seq \in Seqs /\ h.seq \in Seqs
    BY DEF Seqs
  <2>5. h.seq > n
    BY <2>1, <2>2, <2>3, <2>4
  <2>6. JournalHead \in Seqs' /\ Seqs' \subseteq Seqs
    BY <2>3, <2>5 DEF Seqs
  <2> QED
    BY <2>1, <2>6 DEF HeadExists
<1> QED
  BY <1>1, <1>2

\* The statements of the store inside a checkpoint.
LEMMA StoreStepType ==
    ASSUME TypeInv, NEW r \in Room,
           CheckpointWrites(r) \/ CheckpointFolds(r) \/ CheckpointTrims(r)
    PROVE  TypeInv'
<1> USE CanvasAssumption
<1>0. room[r] \in RoomValue /\ mutex \in Room \cup {None, Host} /\ row \in RowValue
  BY DEF TypeInv, TypeOK
<1>1. CASE CheckpointWrites(r)
  <2> DEFINE x == [room[r] EXCEPT !.loop = "wrote"]
  <2>1. x \in RoomValue /\ x.task = room[r].task /\ x.client = room[r].client
    BY <1>0 DEF RoomValue, Loop
  <2>2. row' \in RowValue
    BY <1>0, <1>1 DEF CheckpointWrites, RowValue, RoomValue
  <2>3. /\ room' = [room EXCEPT ![r] = x]
        /\ UNCHANGED <<journal, mutex, hub, client, stamped, clock, acked>>
    BY <1>1 DEF CheckpointWrites, history
  <2> HIDE DEF x
  <2>4. TypeOK'
    BY <2>1, <2>2, <2>3 DEF TypeInv, TypeOK
  <2>5. HoldsBatch' /\ ServesPoster' /\ HeadExists'
    BY <2>1, <2>3 DEF TypeInv, TypeOK, HoldsBatch, ServesPoster, HeadExists, Seqs
  <2> QED
    BY <2>4, <2>5 DEF TypeInv
<1>2. CASE CheckpointFolds(r)
  <2> DEFINE x == [room[r] EXCEPT !.loop = "folded"]
             n == IF row.live /\ room[r].latest > row.fold THEN room[r].latest ELSE row.fold
  <2>1. x \in RoomValue /\ x.task = room[r].task /\ x.client = room[r].client
    BY <1>0 DEF RoomValue, Loop
  <2>2. row' \in RowValue
    <3>1. n \in Nat
      BY <1>0 DEF RowValue, RoomValue
    <3>2. row' = [row EXCEPT !.fold = n]
      BY <1>2 DEF CheckpointFolds
    <3> HIDE DEF n
    <3> QED
      BY <1>0, <3>1, <3>2 DEF RowValue
  <2>3. /\ room' = [room EXCEPT ![r] = x]
        /\ UNCHANGED <<journal, mutex, hub, client, stamped, clock, acked>>
    BY <1>2 DEF CheckpointFolds, history
  <2> HIDE DEF x
  <2>4. TypeOK'
    BY <2>1, <2>2, <2>3 DEF TypeInv, TypeOK
  <2>5. HoldsBatch' /\ ServesPoster' /\ HeadExists'
    BY <2>1, <2>3 DEF TypeInv, TypeOK, HoldsBatch, ServesPoster, HeadExists, Seqs
  <2> QED
    BY <2>4, <2>5 DEF TypeInv
<1>3. CASE CheckpointTrims(r)
  <2> DEFINE kept == {e \in journal : e.seq > room[r].latest}
             g == IF room[r].gc >= GCThreshold /\ kept # journal THEN 0 ELSE room[r].gc
             x == [room[r] EXCEPT !.loop = "done", !.gc = g]
  <2>1. g \in Nat
    BY <1>0 DEF RoomValue
  <2>2. journal' \in {journal, kept}
        /\ room' = [room EXCEPT ![r] = x] /\ mutex' = None
        /\ UNCHANGED <<row, hub, client, stamped, clock, acked>>
    BY <1>3 DEF CheckpointTrims, history
  <2> HIDE DEF g
  <2>3. x \in RoomValue /\ x.task = room[r].task /\ x.client = room[r].client
    BY <1>0, <2>1 DEF RoomValue, Loop
  <2> HIDE DEF x
  <2>4. TypeOK'
    BY <2>2, <2>3 DEF TypeInv, TypeOK
  <2>5. HoldsBatch' /\ ServesPoster'
    BY <2>2, <2>3 DEF TypeInv, TypeOK, HoldsBatch, ServesPoster
  <2>6. HeadExists'
    <3>1. CASE journal' = journal
      BY <3>1 DEF TypeInv, HeadExists, Seqs
    <3>2. CASE journal' = kept
      BY <1>0, <3>2, TrimKeepsHead DEF TypeInv, RoomValue
    <3> QED
      BY <2>2, <3>1, <3>2
  <2> QED
    BY <2>4, <2>5, <2>6 DEF TypeInv
<1> QED
  BY <1>1, <1>2, <1>3

\* The poster's answer, the end of a room, and the drain of its queues.
LEMMA FinishType ==
    ASSUME TypeInv, NEW r \in Room, ReplyToPoster(r) \/ Unregister(r) \/ Drain(r)
    PROVE  TypeInv'
<1> USE CanvasAssumption
<1>0. room[r] \in RoomValue
  BY DEF TypeInv, TypeOK
<1>1. CASE ReplyToPoster(r)
  <2> DEFINE c == room[r].client
             y == IF room[r].members = {} THEN ArmIdle(room[r]) ELSE room[r]
             x == Resume(y)
  <2>1. room[r].task = "submit"
        /\ acked' = acked \cup {client[c].op}
        /\ client' = [client EXCEPT ![c] = Absent]
        /\ room' = [room EXCEPT ![r] = x]
        /\ UNCHANGED <<journal, row, mutex, hub, stamped, clock>>
    BY <1>1 DEF ReplyToPoster, storeVars
  <2>2. c \in Poster /\ client[c].pc = "served" /\ client[c].room = r
    BY <2>1 DEF TypeInv, ServesPoster
  <2>3. c \in Client /\ client[c].op \in Op
    BY <2>2 DEF Client, TypeInv, TypeOK, HoldsBatch, HoldsIt, ClientValue
  <2>4. y \in RoomValue
    BY <1>0, HelperType
  <2>5. x \in RoomValue /\ x.task = "none"
    <3> HIDE DEF y
    <3> QED
      BY <2>4, HelperType
  <2>6. \A q \in Room \ {r} : room[q].task = "submit" => room[q].client # c
    BY <2>2 DEF TypeInv, ServesPoster
  <2> HIDE DEF x, c
  <2>7. TypeOK'
    BY <2>1, <2>3, <2>5, AnsweredType DEF TypeInv, TypeOK
  <2>8. HoldsBatch' /\ HeadExists'
    BY <2>1, <2>3, AnsweredType DEF TypeInv, TypeOK, HoldsBatch, HeadExists, Seqs
  <2>9. ServesPoster'
    <3> SUFFICES ASSUME NEW q \in Room, room'[q].task = "submit"
                 PROVE  /\ room'[q].client \in Poster
                        /\ client'[room'[q].client].pc = "served"
                        /\ client'[room'[q].client].room = q
      BY DEF ServesPoster
    <3>1. q # r /\ room'[q] = room[q]
      BY <2>1, <2>5 DEF TypeInv, TypeOK
    <3> QED
      BY <2>1, <2>3, <2>6, <3>1 DEF TypeInv, TypeOK, ServesPoster, Client
  <2> QED
    BY <2>7, <2>8, <2>9 DEF TypeInv
<1>2. CASE Unregister(r)
  <2> DEFINE x == [room[r] EXCEPT !.loop = "draining"]
  <2>1. x \in RoomValue /\ x.task = room[r].task /\ x.client = room[r].client
    BY <1>0 DEF RoomValue, Loop
  <2>2. /\ room' = [room EXCEPT ![r] = x] /\ hub' \in {hub, None}
        /\ UNCHANGED <<journal, row, mutex, client, stamped, clock, acked>>
    BY <1>2 DEF Unregister, storeVars, history
  <2> HIDE DEF x
  <2>3. TypeOK'
    BY <2>1, <2>2 DEF TypeInv, TypeOK
  <2>4. HoldsBatch' /\ ServesPoster' /\ HeadExists'
    BY <2>1, <2>2 DEF TypeInv, TypeOK, HoldsBatch, ServesPoster, HeadExists, Seqs
  <2> QED
    BY <2>3, <2>4 DEF TypeInv
<1>3. CASE Drain(r)
  <2>1. /\ room' = [room EXCEPT ![r] = Off]
        /\ UNCHANGED <<journal, row, mutex, hub, stamped, clock, acked>>
    BY <1>3 DEF Drain, storeVars, history
  <2>2. \A c \in Client : client'[c] \in ClientValue /\ HoldsIt(c, client'[c])
                          /\ (client[c].pc = "served" => client'[c] = client[c])
    <3> SUFFICES ASSUME NEW c \in Client
                 PROVE  client'[c] \in ClientValue /\ HoldsIt(c, client'[c])
                        /\ (client[c].pc = "served" => client'[c] = client[c])
      OBVIOUS
    <3>1. client[c] \in ClientValue /\ HoldsIt(c, client[c])
      BY DEF TypeInv, TypeOK, HoldsBatch
    <3>2. client'[c] = IF c \in Waiting(r, "queued") THEN Answered(c)
                       ELSE IF c \in Waiting(r, "joining") \cup Waiting(r, "leaving")
                       THEN Absent ELSE client[c]
      BY <1>3 DEF Drain
    <3> QED
      BY <3>1, <3>2, AnsweredType DEF Waiting
  <2>3. client' \in [Client -> ClientValue]
    <3>1. client' = [c \in Client |-> client'[c]]
      BY <1>3 DEF Drain
    <3> QED
      BY <2>2, <3>1
  <2>4. Off \in RoomValue /\ Off.task = "none"
    BY BornType DEF Off, Born
  <2>5. TypeOK'
    BY <2>1, <2>3, <2>4 DEF TypeInv, TypeOK
  <2>6. HoldsBatch' /\ HeadExists'
    BY <2>1, <2>2 DEF TypeInv, HoldsBatch, HeadExists, Seqs
  <2>7. ServesPoster'
    BY <2>1, <2>2, <2>4 DEF TypeInv, TypeOK, ServesPoster, Client
  <2> QED
    BY <2>5, <2>6, <2>7 DEF TypeInv
<1> QED
  BY <1>1, <1>2, <1>3

\* The kinds of step: a handler's own, a registration, or one of a room.
LEMMA StepKinds ==
    ASSUME Step
    PROVE  \/ \E c \in Client : Handler(c) \/ Register(c)
           \/ \E r \in Room :
                 \/ \E c \in Client : Serve(r, c)
                 \/ LoopMoves(r)
                 \/ CheckpointWrites(r) \/ CheckpointFolds(r) \/ CheckpointTrims(r)
                 \/ ReplyToPoster(r) \/ Unregister(r) \/ Drain(r)
  BY DEF Step, FindRoom, Ask, Handler, LoopMoves, Checkpoint, Finish

LEMMA TypeStep ==
    ASSUME TypeInv, Step
    PROVE  TypeInv'
  BY StepKinds, HandlerType, RegisterType, ServeType, LoopMovesType, StoreStepType, FinishType

LEMMA TypeCrash ==
    ASSUME TypeInv, Crash
    PROVE  TypeInv'
<1> USE CanvasAssumption
<1>1. Off \in RoomValue /\ Off.task = "none" /\ Absent \in ClientValue
      /\ \A c \in Client : HoldsIt(c, Absent)
  BY BornType DEF Off, Born, Absent, ClientValue, HoldsIt, Client
<1>2. /\ mutex' = None /\ hub' = None
      /\ room' = [r \in Room |-> Off] /\ client' = [c \in Client |-> Absent]
      /\ UNCHANGED <<journal, row, stamped, clock, acked>>
  BY DEF Crash, storeVars, history
<1>3. TypeOK'
  BY <1>1, <1>2 DEF TypeInv, TypeOK
<1>4. HoldsBatch' /\ ServesPoster' /\ HeadExists'
  BY <1>1, <1>2 DEF TypeInv, HoldsBatch, ServesPoster, HeadExists, Seqs
<1> QED
  BY <1>3, <1>4 DEF TypeInv

LEMMA TypeInit == Init => TypeInv
<1> USE CanvasAssumption
<1> SUFFICES ASSUME Init PROVE TypeInv
  OBVIOUS
<1>1. Off \in RoomValue /\ Off.task = "none"
  BY BornType DEF Off, Born
<1>2. Absent \in ClientValue /\ \A c \in Client : HoldsIt(c, Absent)
  BY DEF Absent, ClientValue, HoldsIt, Client
<1>3. row \in RowValue
  BY DEF Init, RowValue
<1>4. TypeOK
  BY <1>1, <1>2, <1>3 DEF Init, TypeOK
<1>5. HoldsBatch /\ ServesPoster /\ HeadExists
  BY <1>1, <1>2 DEF Init, HoldsBatch, ServesPoster, HeadExists
<1> QED
  BY <1>4, <1>5 DEF TypeInv

LEMMA TypeUnchanged ==
    ASSUME TypeInv, UNCHANGED vars
    PROVE  TypeInv'
<1>1. TypeOK'
  BY DEF vars, TypeInv, TypeOK
<1>2. HoldsBatch' /\ ServesPoster' /\ HeadExists'
  BY DEF vars, TypeInv, HoldsBatch, ServesPoster, HeadExists, Seqs
<1> QED
  BY <1>1, <1>2 DEF TypeInv

LEMMA TypeAlways == Spec => []TypeInv
<1>1. TypeInv /\ [Next]_vars => TypeInv'
  BY TypeStep, TypeCrash, TypeUnchanged DEF Next
<1> QED
  BY <1>1, TypeInit, PTL DEF Spec

\* The types hold in every reachable state, and LatestCanvasOpSeq always finds
\* a last entry to report.
THEOREM TypeCorrect == Spec => []TypeOK
<1>1. TypeInv => TypeOK
  BY DEF TypeInv
<1> QED
  BY <1>1, TypeAlways, PTL

-----------------------------------------------------------------------------
(* The one writer *)

\* The loop of a registered room is alive, and no other loop is.
WriterInv == OneWriter /\ (hub # None => Live(hub))

\* What the steps of a living room, and its timers, leave alone.
KeepsLife(r) ==
    /\ hub' = hub
    /\ \A q \in Room : q # r => room'[q] = room[q]
    /\ Live(r)' <=> Live(r)
    /\ room'[r].voided = room[r].voided

LEMMA LoopKeepsLife ==
    ASSUME TypeInv, NEW r \in Room, LoopMoves(r)
    PROVE  /\ KeepsLife(r)
           /\ room'[r].doc = room[r].doc /\ room'[r].latest = room[r].latest
           /\ room'[r].gc = room[r].gc
           /\ room'[r].loop \in {"wrote", "folded", "done"} =>
                 \/ room[r].loop = room'[r].loop
                 \/ room'[r].loop = "done" /\ (room[r].voided \/ ~row.live)
           /\ room'[r].loop = "read" => room[r].loop = "read" \/ CheckpointReads(r)
<1>0. room \in [Room -> RoomValue] /\ room[r] \in RoomValue
  BY DEF TypeInv, TypeOK
<1>1. CASE ServeTick(r)
  BY <1>0, <1>1 DEF ServeTick, KeepsLife, Live, Selecting, RoomValue
<1>2. CASE ServeDrop(r)
  BY <1>0, <1>2 DEF ServeDrop, KeepsLife, Live, Selecting, RoomValue
<1>3. CASE CheckpointReads(r)
  BY <1>0, <1>3 DEF CheckpointReads, KeepsLife, Live, RoomValue
<1>4. CASE AfterTick(r)
  BY <1>0, <1>4 DEF AfterTick, Resume, KeepsLife, Live, RoomValue
<1>5. CASE AfterLeave(r)
  BY <1>0, <1>5 DEF AfterLeave, Resume, KeepsLife, Live, RoomValue
<1>6. CASE IdleFires(r)
  BY <1>0, <1>6 DEF IdleFires, KeepsLife, Live, RoomValue
<1>7. CASE IdleDrops(r)
  BY <1>0, <1>7 DEF IdleDrops, KeepsLife, Live, RoomValue
<1>8. CASE TickFires(r)
  BY <1>0, <1>8 DEF TickFires, KeepsLife, Live, RoomValue
<1> QED
  BY <1>1, <1>2, <1>3, <1>4, <1>5, <1>6, <1>7, <1>8 DEF LoopMoves, Timer

LEMMA StoreKeepsLife ==
    ASSUME TypeInv, NEW r \in Room,
           CheckpointWrites(r) \/ CheckpointFolds(r) \/ CheckpointTrims(r)
    PROVE  /\ KeepsLife(r) /\ Live(r)
           /\ room'[r].doc = room[r].doc /\ room'[r].latest = room[r].latest
           /\ room'[r].gc \in {room[r].gc, 0}
<1>0. room \in [Room -> RoomValue] /\ room[r] \in RoomValue
  BY DEF TypeInv, TypeOK
<1>1. CASE CheckpointWrites(r)
  BY <1>0, <1>1 DEF CheckpointWrites, KeepsLife, Live, RoomValue
<1>2. CASE CheckpointFolds(r)
  BY <1>0, <1>2 DEF CheckpointFolds, KeepsLife, Live, RoomValue
<1>3. CASE CheckpointTrims(r)
  <2> DEFINE kept == {e \in journal : e.seq > room[r].latest}
             g == IF room[r].gc >= GCThreshold /\ kept # journal THEN 0 ELSE room[r].gc
  <2>1. room' = [room EXCEPT ![r] = [room[r] EXCEPT !.loop = "done", !.gc = g]]
        /\ hub' = hub /\ room[r].loop = "folded"
    BY <1>3 DEF CheckpointTrims
  <2>2. g \in {room[r].gc, 0}
    OBVIOUS
  <2> HIDE DEF g
  <2> QED
    BY <1>0, <2>1, <2>2 DEF KeepsLife, Live, RoomValue
<1> QED
  BY <1>1, <1>2, <1>3

LEMMA ReplyKeepsLife ==
    ASSUME TypeInv, NEW r \in Room, ReplyToPoster(r)
    PROVE  /\ KeepsLife(r) /\ Live(r)
           /\ room'[r].doc = room[r].doc /\ room'[r].latest = room[r].latest
           /\ room'[r].gc = room[r].gc
           /\ room'[r].loop = "select"
<1>0. room \in [Room -> RoomValue] /\ room[r] \in RoomValue
  BY DEF TypeInv, TypeOK
<1> QED
  BY <1>0 DEF ReplyToPoster, Resume, ArmIdle, KeepsLife, Live, RoomValue

\* What serving a handler leaves alone.
LEMMA ServeKeepsLife ==
    ASSUME TypeInv, NEW r \in Room, NEW c \in Client, Serve(r, c)
    PROVE  /\ KeepsLife(r) /\ Live(r) /\ room[r].loop = "select"
           /\ room'[r].loop \in {"select", "ckpt"}
<1>0. room \in [Room -> RoomValue] /\ room[r] \in RoomValue
  BY DEF TypeInv, TypeOK
<1>1. CASE RefuseSubmit(r, c)
  BY <1>0, <1>1 DEF RefuseSubmit, KeepsLife, Live, Selecting
<1>2. CASE ServeJoin(r, c)
  <2> DEFINE y == [room[r] EXCEPT !.members = room[r].members \cup {c}]
  <2>1. room' = [room EXCEPT ![r] = CancelIdle(y)] /\ hub' = hub /\ room[r].loop = "select"
    BY <1>2 DEF ServeJoin, Selecting
  <2>2. y.loop = room[r].loop /\ y.voided = room[r].voided
        /\ CancelIdle(y).loop = room[r].loop /\ CancelIdle(y).voided = room[r].voided
    BY <1>0 DEF CancelIdle, RoomValue
  <2> HIDE DEF y
  <2> QED
    BY <1>0, <2>1, <2>2 DEF KeepsLife, Live
<1>3. CASE ServeMember(r, c)
  <2> DEFINE y == ArmTick(CancelIdle(Folded(room[r], client[c].op)))
  <2>1. room' = [room EXCEPT ![r] = y] /\ hub' = hub /\ room[r].loop = "select"
    BY <1>3 DEF ServeMember, Selecting
  <2>2. y.loop = room[r].loop /\ y.voided = room[r].voided
    BY <1>0 DEF ArmTick, CancelIdle, Folded, RoomValue
  <2> HIDE DEF y
  <2> QED
    BY <1>0, <2>1, <2>2 DEF KeepsLife, Live
<1>4. CASE ServePoster(r, c)
  <2> DEFINE y == [Folded(room[r], client[c].op)
                    EXCEPT !.loop = "ckpt", !.task = "submit", !.client = c]
  <2>1. room' = [room EXCEPT ![r] = y] /\ hub' = hub /\ room[r].loop = "select"
    BY <1>4 DEF ServePoster, Selecting
  <2>2. y.loop = "ckpt" /\ y.voided = room[r].voided
    BY <1>0 DEF Folded, RoomValue
  <2> HIDE DEF y
  <2> QED
    BY <1>0, <2>1, <2>2 DEF KeepsLife, Live
<1>5. CASE ServeLeave(r, c)
  BY <1>0, <1>5 DEF ServeLeave, KeepsLife, Live, Selecting, RoomValue
<1> QED
  BY <1>1, <1>2, <1>3, <1>4, <1>5 DEF Serve

\* A room leaves the hub with its last breath, and only ever itself.
LEMMA UnregisterEnds ==
    ASSUME TypeInv, NEW r \in Room, Unregister(r)
    PROVE  /\ room[r].loop = "done" /\ ~Live(r)'
           /\ \A q \in Room : q # r => room'[q] = room[q]
           /\ room'[r].voided = room[r].voided
           /\ room'[r].loop = "draining" /\ room'[r].latest = room[r].latest
           /\ room'[r].gc = room[r].gc
           /\ hub' = IF hub = r THEN None ELSE hub
<1>0. room \in [Room -> RoomValue] /\ room[r] \in RoomValue
  BY DEF TypeInv, TypeOK
<1> QED
  BY <1>0 DEF Unregister, Live, RoomValue

LEMMA DrainEnds ==
    ASSUME TypeInv, NEW r \in Room, Drain(r)
    PROVE  /\ ~Live(r) /\ ~Live(r)' /\ hub' = hub
           /\ room'[r] = Off
           /\ \A q \in Room : q # r => room'[q] = room[q]
<1>0. room \in [Room -> RoomValue] /\ room[r] \in RoomValue
  BY DEF TypeInv, TypeOK
<1>1. room' = [room EXCEPT ![r] = Off] /\ hub' = hub /\ room[r].loop = "draining"
  BY DEF Drain
<1>2. Off.loop = "off"
  BY DEF Off, Born
<1> QED
  BY <1>0, <1>1, <1>2 DEF Live

\* A room is born where no room was, when the hub has none.
LEMMA RegisterBirth ==
    ASSUME TypeInv, NEW c \in Client, Register(c)
    PROVE  \E r \in Room :
              /\ hub = None /\ hub' = r /\ room[r].loop = "off" /\ ~Held(r)
              /\ room'[r] = Born(client[c].doc, client[c].head)
              /\ Live(r)'
              /\ \A q \in Room : q # r => room'[q] = room[q]
              /\ client[c].pc = "built"
              /\ Have(c, r)
              /\ UNCHANGED <<storeVars, mutex, history>>
<1>0. room \in [Room -> RoomValue]
  BY DEF TypeInv, TypeOK
<1>1. PICK r \in Room :
          /\ room[r].loop = "off" /\ ~Held(r)
          /\ room' = [room EXCEPT ![r] = Born(client[c].doc, client[c].head)]
          /\ hub' = r
          /\ Have(c, r)
  BY DEF Register
<1>2. Born(client[c].doc, client[c].head).loop = "select"
  BY DEF Born
<1> QED
  BY <1>0, <1>1, <1>2 DEF Register, Live

LEMMA WriterStep ==
    ASSUME TypeInv, WriterInv, Step
    PROVE  WriterInv'
<1> USE CanvasAssumption
<1>0. hub \in Room \cup {None}
  BY DEF TypeInv, TypeOK
<1>1. ASSUME NEW c \in Client, Handler(c) PROVE WriterInv'
  <2>1. UNCHANGED <<hub, room>>
    BY <1>1, HandlerIsMove DEF HandlerMoves, ClientMoves
  <2> QED
    BY <2>1 DEF WriterInv, OneWriter, Live
<1>2. ASSUME NEW c \in Client, Register(c) PROVE WriterInv'
  BY <1>2, RegisterBirth DEF WriterInv, OneWriter, Live
<1>3. ASSUME NEW r \in Room, KeepsLife(r) PROVE WriterInv'
  BY <1>0, <1>3 DEF WriterInv, OneWriter, KeepsLife, Live
<1>4. ASSUME NEW r \in Room, Unregister(r) PROVE WriterInv'
  BY <1>0, <1>4, UnregisterEnds DEF WriterInv, OneWriter, Live
<1>5. ASSUME NEW r \in Room, Drain(r) PROVE WriterInv'
  BY <1>0, <1>5, DrainEnds DEF WriterInv, OneWriter, Live
<1> QED
  BY <1>1, <1>2, <1>3, <1>4, <1>5, StepKinds, LoopKeepsLife, StoreKeepsLife,
     ReplyKeepsLife, ServeKeepsLife

LEMMA WriterInit == Init => WriterInv
<1>1. Off.loop = "off"
  BY DEF Off, Born
<1> QED
  BY <1>1 DEF Init, WriterInv, OneWriter, Live

LEMMA WriterCrash ==
    ASSUME Crash
    PROVE  WriterInv'
<1>1. Off.loop = "off"
  BY DEF Off, Born
<1> QED
  BY <1>1 DEF Crash, WriterInv, OneWriter, Live

LEMMA WriterUnchanged ==
    ASSUME WriterInv, UNCHANGED vars
    PROVE  WriterInv'
  BY DEF vars, WriterInv, OneWriter, Live

LEMMA WriterAlways == Spec => []WriterInv
<1>1. TypeInv /\ WriterInv /\ [Next]_vars => WriterInv'
  BY WriterStep, WriterCrash, WriterUnchanged DEF Next
<1> QED
  BY <1>1, WriterInit, TypeAlways, PTL DEF Spec

\* However lookups, raced creations, drops, timers and crashes interleave,
\* and however long a load takes, only the registered room's loop is alive.
THEOREM OneWriterAtATime == Spec => []OneWriter
<1>1. WriterInv => OneWriter
  BY DEF WriterInv
<1> QED
  BY <1>1, WriterAlways, PTL

-----------------------------------------------------------------------------
(* The clock *)

\* The row lives, nothing claims a seq past the clock, and the clock stands
\* either in the journal or in the watermark, of which an append takes the
\* higher.
ClockInv ==
    /\ row.live
    /\ row.fold <= clock /\ row.sync <= clock
    /\ clock = row.fold \/ clock \in Seqs
    /\ \A k \in Seqs : k <= clock
    /\ \A o \in Op : stamped[o] <= clock
    /\ \A r \in Room : /\ room[r].latest <= clock
                       /\ room[r].loop = "folded" => room[r].latest <= row.fold
    /\ \A c \in Client : client[c].sync <= clock /\ client[c].head <= clock

\* The clock's own seq is the journal's head or the watermark, so the next
\* seq is the clock's successor.
LEMMA NextSeqIsNext ==
    ASSUME TypeInv, ClockInv
    PROVE  NextSeq = clock + 1
<1>1. TypeOK /\ row.fold \in Nat /\ clock \in Nat
  BY DEF TypeInv, TypeOK, RowValue
<1>2. JournalHead \in Nat /\ (journal # {} => JournalHead \in Seqs)
      /\ \A k \in Seqs : k <= JournalHead
  BY HeadIsLast DEF TypeInv
<1>3. JournalHead <= clock
  BY <1>1, <1>2 DEF ClockInv, JournalHead
<1>4. CASE clock \in Seqs
  <2>1. JournalHead = clock
    BY <1>1, <1>2, <1>3, <1>4
  <2> QED
    BY <1>1, <2>1 DEF ClockInv, NextSeq
<1>5. CASE clock = row.fold
  BY <1>1, <1>2, <1>3, <1>5 DEF NextSeq
<1> QED
  BY <1>4, <1>5 DEF ClockInv

\* What an append does.
LEMMA AppendIsNext ==
    ASSUME TypeInv, ClockInv, NEW o \in Op, Append(o)
    PROVE  /\ clock' = clock + 1
           /\ stamped' = [stamped EXCEPT ![o] = clock + 1]
           /\ journal' = journal \cup {[seq |-> clock + 1, op |-> o]}
           /\ Seqs' = Seqs \cup {clock + 1}
<1>1. clock \in Nat /\ NextSeq = clock + 1
  BY NextSeqIsNext DEF TypeInv, TypeOK
<1>2. /\ clock' = clock + 1
      /\ stamped' = [stamped EXCEPT ![o] = clock + 1]
      /\ journal' = journal \cup {[seq |-> clock + 1, op |-> o]}
  BY <1>1 DEF Append
<1>3. Seqs' = Seqs \cup {clock + 1}
  <2> DEFINE e == [seq |-> clock + 1, op |-> o]
  <2>1. e.seq = clock + 1 /\ journal' = journal \cup {e}
    BY <1>2
  <2> HIDE DEF e
  <2> QED
    BY <2>1 DEF Seqs
<1> QED
  BY <1>2, <1>3

\* Serving is an append for a good batch, and leaves the store alone otherwise.
LEMMA ServeKinds ==
    ASSUME TypeInv, NEW r \in Room, NEW c \in Client, Serve(r, c)
    PROVE  \/ /\ UNCHANGED <<journal, row, stamped, clock, acked>>
              /\ room'[r].doc = room[r].doc /\ room'[r].latest = room[r].latest
              /\ room'[r].gc = room[r].gc
              /\ \E v : /\ client' = [client EXCEPT ![c] = v]
                        /\ v.pc \in {"in", "out"} /\ client[c].pc # "served"
                        /\ v.op \in {client[c].op, None}
                        /\ v.sync \in {client[c].sync, 0} /\ v.head \in {client[c].head, 0}
           \/ /\ client[c].op \in Op /\ Append(client[c].op)
              /\ client[c].pc = "queued"
              /\ row' = row
              /\ room'[r].doc = room[r].doc \cup {client[c].op} /\ room'[r].latest = NextSeq
              /\ room'[r].gc = room[r].gc + 1
              /\ \E v : /\ client' = [client EXCEPT ![c] = v]
                        /\ v.sync \in {client[c].sync, 0} /\ v.head \in {client[c].head, 0}
                        /\ \/ v.pc \in {"in", "out"} /\ v.op = None
                              /\ acked' = acked \cup {client[c].op}
                           \/ v.pc = "served" /\ v.op = client[c].op /\ acked' = acked
<1> USE CanvasAssumption
<1>0. /\ room \in [Room -> RoomValue] /\ room[r] \in RoomValue
      /\ client[c] \in ClientValue /\ HoldsIt(c, client[c])
      /\ TypeOK
  BY DEF TypeInv, TypeOK, HoldsBatch
<1>1. /\ Absent.pc = "out" /\ Absent.op = None /\ Absent.sync = 0 /\ Absent.head = 0
      /\ Answered(c).pc \in {"in", "out"} /\ Answered(c).op = None
      /\ Answered(c).sync \in {client[c].sync, 0} /\ Answered(c).head \in {client[c].head, 0}
  BY <1>0 DEF Absent, Answered, ClientValue
<1>2. CASE RefuseSubmit(r, c)
  BY <1>1, <1>2 DEF RefuseSubmit, Waiting, storeVars, history
<1>3. CASE ServeJoin(r, c)
  <2> DEFINE y == [room[r] EXCEPT !.members = room[r].members \cup {c}]
             v == [client[c] EXCEPT !.pc = "in"]
  <2>1. /\ room' = [room EXCEPT ![r] = CancelIdle(y)] /\ client[c].pc = "joining"
        /\ client' = [client EXCEPT ![c] = v]
        /\ UNCHANGED <<journal, row, stamped, clock, acked>>
    BY <1>3 DEF ServeJoin, Waiting, storeVars, history
  <2>2. CancelIdle(y).doc = room[r].doc /\ CancelIdle(y).latest = room[r].latest
        /\ CancelIdle(y).gc = room[r].gc
    BY <1>0 DEF CancelIdle, RoomValue
  <2>3. v.pc = "in" /\ v.op = client[c].op /\ v.sync = client[c].sync /\ v.head = client[c].head
    BY <1>0 DEF ClientValue
  <2>4. room'[r].doc = room[r].doc /\ room'[r].latest = room[r].latest
        /\ room'[r].gc = room[r].gc
    BY <1>0, <2>1, <2>2
  <2> HIDE DEF v, y
  <2> QED
    BY <2>1, <2>3, <2>4
<1>4. CASE ServeMember(r, c)
  <2> DEFINE y == ArmTick(CancelIdle(Folded(room[r], client[c].op)))
  <2>1. /\ room' = [room EXCEPT ![r] = y] /\ client[c].pc = "queued"
        /\ client' = [client EXCEPT ![c] = Answered(c)]
        /\ Append(client[c].op) /\ row' = row /\ acked' = acked \cup {client[c].op}
    BY <1>4 DEF ServeMember, Waiting
  <2>2. y.doc = room[r].doc \cup {client[c].op} /\ y.latest = NextSeq
        /\ y.gc = room[r].gc + 1
    BY <1>0 DEF ArmTick, CancelIdle, Folded, RoomValue
  <2>3. client[c].op \in Op
    BY <1>0, <2>1 DEF HoldsIt, ClientValue
  <2> HIDE DEF y
  <2>4. room'[r] = y
    BY <1>0, <2>1
  <2> QED
    BY <1>1, <2>1, <2>2, <2>3, <2>4
<1>5. CASE ServePoster(r, c)
  <2> DEFINE y == [Folded(room[r], client[c].op)
                    EXCEPT !.loop = "ckpt", !.task = "submit", !.client = c]
             v == [client[c] EXCEPT !.pc = "served"]
  <2>1. /\ room' = [room EXCEPT ![r] = y] /\ client[c].pc = "queued"
        /\ client' = [client EXCEPT ![c] = v]
        /\ Append(client[c].op) /\ row' = row /\ acked' = acked
    BY <1>5 DEF ServePoster, Waiting
  <2>2. y.doc = room[r].doc \cup {client[c].op} /\ y.latest = NextSeq
        /\ y.gc = room[r].gc + 1
    BY <1>0 DEF Folded, RoomValue
  <2>3. client[c].op \in Op
    BY <1>0, <2>1 DEF HoldsIt, ClientValue
  <2>4. v.pc = "served" /\ v.op = client[c].op /\ v.sync = client[c].sync
        /\ v.head = client[c].head
    BY <1>0 DEF ClientValue
  <2> HIDE DEF y, v
  <2>5. room'[r] = y
    BY <1>0, <2>1
  <2> QED
    BY <2>1, <2>2, <2>3, <2>4, <2>5
<1>6. CASE ServeLeave(r, c)
  <2>1. /\ client' = [client EXCEPT ![c] = Absent] /\ client[c].pc = "leaving"
        /\ UNCHANGED <<journal, row, stamped, clock, acked>>
        /\ room'[r].doc = room[r].doc /\ room'[r].latest = room[r].latest
        /\ room'[r].gc = room[r].gc
    BY <1>0, <1>6 DEF ServeLeave, Waiting, RoomValue, storeVars, history
  <2> QED
    BY <1>1, <2>1
<1> QED
  BY <1>2, <1>3, <1>4, <1>5, <1>6 DEF Serve

\* The sync and head a handler reads are seqs that were given.
LEMMA HandlerReads ==
    ASSUME TypeInv, ClockInv, NEW c \in Client, Handler(c)
    PROVE  client'[c].sync <= clock /\ client'[c].head <= clock
<1>0. /\ client \in [Client -> ClientValue] /\ client[c] \in ClientValue
      /\ client[c].sync <= clock /\ client[c].head <= clock
      /\ clock \in Nat /\ row.sync <= clock
  BY DEF TypeInv, TypeOK, ClockInv
<1>1. JournalHead <= clock
  BY <1>0, HeadIsLast DEF TypeInv, ClockInv, JournalHead
<1>2. Absent.sync = 0 /\ Absent.head = 0
  BY DEF Absent
<1>3. CASE Lookup(c)
  <2>1. PICK o : \/ client' = [client EXCEPT ![c] = [@ EXCEPT !.pc = "have", !.op = o, !.room = hub]]
                 \/ client' = [client EXCEPT ![c] = [@ EXCEPT !.pc = "row", !.op = o]]
    BY <1>3 DEF Lookup
  <2> QED
    BY <1>0, <2>1 DEF ClientValue
<1>4. CASE LoadRow(c)
  BY <1>0, <1>2, <1>4 DEF LoadRow, ClientValue
<1>5. CASE LoadHead(c)
  BY <1>0, <1>1, <1>5 DEF LoadHead, ClientValue
<1>6. CASE LoadTail(c)
  <2> DEFINE d == client[c].doc \cup OpsAfter(client[c].sync)
  <2>1. client' = [client EXCEPT ![c] = [@ EXCEPT !.pc = "built", !.doc = d]]
    BY <1>6 DEF LoadTail
  <2> HIDE DEF d
  <2> QED
    BY <1>0, <2>1 DEF ClientValue
<1>7. CASE LoseRace(c)
  BY <1>0, <1>2, <1>7 DEF LoseRace, Have, ClientValue, Absent
<1>8. ASSUME NEW o, Submit(c, o) PROVE client'[c].sync <= clock /\ client'[c].head <= clock
  <2>1. Answered(c).sync \in {client[c].sync, 0} /\ Answered(c).head \in {client[c].head, 0}
    BY <1>0, <1>2 DEF Answered, ClientValue
  <2>2. \/ client' = [client EXCEPT ![c] = Answered(c)]
        \/ client' = [client EXCEPT ![c] = [@ EXCEPT !.pc = "queued", !.op = o]]
    BY <1>8 DEF Submit
  <2>3. CASE client' = [client EXCEPT ![c] = Answered(c)]
    BY <1>0, <2>1, <2>3
  <2>4. CASE client' = [client EXCEPT ![c] = [@ EXCEPT !.pc = "queued", !.op = o]]
    BY <1>0, <2>4 DEF ClientValue
  <2> QED
    BY <2>2, <2>3, <2>4
<1>9. CASE Join(c)
  <2>1. \/ client' = [client EXCEPT ![c] = Absent]
        \/ client' = [client EXCEPT ![c] = [@ EXCEPT !.pc = "joining"]]
    BY <1>9 DEF Join
  <2> QED
    BY <1>0, <1>2, <2>1 DEF ClientValue
<1>10. CASE Leave(c)
  <2>1. \/ client' = [client EXCEPT ![c] = Absent]
        \/ client' = [client EXCEPT ![c] = [@ EXCEPT !.pc = "leaving"]]
    BY <1>10 DEF Leave
  <2> QED
    BY <1>0, <1>2, <2>1 DEF ClientValue
<1>11. CASE UpgradeFails(c)
  BY <1>0, <1>2, <1>11 DEF UpgradeFails, ClientValue
<1> QED
  BY <1>3, <1>4, <1>5, <1>6, <1>7, <1>8, <1>9, <1>10, <1>11 DEF Handler, Post, MemberSubmits

\* ClockInv after a step that leaves store and history alone.
LEMMA ClockQuiet ==
    ASSUME ClockInv, UNCHANGED <<journal, row, stamped, clock>>,
           \A r \in Room :
              /\ room'[r].latest <= clock
              /\ room'[r].loop = "folded" =>
                    room[r].loop = "folded" /\ room'[r].latest = room[r].latest,
           \A c \in Client : client'[c].sync <= clock /\ client'[c].head <= clock
    PROVE  ClockInv'
<1>1. Seqs' = Seqs
  BY DEF Seqs
<1> QED
  BY <1>1 DEF ClockInv

\* The drain leaves every handler's reading, or an absent handler.
LEMMA DrainReads ==
    ASSUME TypeInv, NEW r \in Room, Drain(r), NEW c \in Client
    PROVE  \/ client'[c] = client[c]
           \/ /\ client'[c].op = None /\ client'[c].pc \in {"in", "out"}
              /\ client'[c].sync \in {client[c].sync, 0}
              /\ client'[c].head \in {client[c].head, 0}
              /\ client[c].pc \in {"queued", "joining", "leaving"}
<1>0. client[c] \in ClientValue
  BY DEF TypeInv, TypeOK
<1>1. /\ Absent.pc = "out" /\ Absent.op = None /\ Absent.sync = 0 /\ Absent.head = 0
      /\ Answered(c).pc \in {"in", "out"} /\ Answered(c).op = None
      /\ Answered(c).sync \in {client[c].sync, 0} /\ Answered(c).head \in {client[c].head, 0}
  BY <1>0 DEF Absent, Answered, ClientValue
<1>2. client'[c] = IF c \in Waiting(r, "queued") THEN Answered(c)
                   ELSE IF c \in Waiting(r, "joining") \cup Waiting(r, "leaving")
                   THEN Absent ELSE client[c]
  BY DEF Drain
<1> QED
  BY <1>1, <1>2 DEF Waiting

LEMMA ClockStep ==
    ASSUME TypeInv, ClockInv, Step
    PROVE  ClockInv'
<1> USE CanvasAssumption
<1>0. /\ room \in [Room -> RoomValue] /\ client \in [Client -> ClientValue]
      /\ stamped \in [Op -> Nat] /\ clock \in Nat /\ row \in RowValue
      /\ Seqs \subseteq Nat
      /\ row.live /\ row.fold <= clock /\ row.sync <= clock
      /\ clock = row.fold \/ clock \in Seqs
      /\ \A k \in Seqs : k <= clock
      /\ \A o \in Op : stamped[o] <= clock
      /\ \A r \in Room : room[r].latest <= clock
                         /\ (room[r].loop = "folded" => room[r].latest <= row.fold)
      /\ \A c \in Client : client[c].sync <= clock /\ client[c].head <= clock
  BY DEF TypeInv, TypeOK, ClockInv, Seqs
<1>1. ASSUME NEW c \in Client, Handler(c) PROVE ClockInv'
  <2>1. PICK v : HandlerMoves(c, v)
    BY <1>1, HandlerIsMove
  <2>2. UNCHANGED <<journal, row, stamped, clock, room>>
        /\ client' = [client EXCEPT ![c] = v]
    BY <2>1 DEF HandlerMoves, ClientMoves, storeVars, history
  <2>3. \A d \in Client : client'[d].sync <= clock /\ client'[d].head <= clock
    BY <1>0, <1>1, <2>2, HandlerReads
  <2> QED
    BY <1>0, <2>2, <2>3, ClockQuiet
<1>2. ASSUME NEW c \in Client, Register(c) PROVE ClockInv'
  <2>1. PICK r \in Room :
              /\ room'[r] = Born(client[c].doc, client[c].head)
              /\ \A q \in Room : q # r => room'[q] = room[q]
              /\ Have(c, r)
              /\ UNCHANGED <<storeVars, mutex, history>>
    BY <1>2, RegisterBirth
  <2>2. room'[r].latest = client[c].head /\ room'[r].loop = "select"
    BY <2>1 DEF Born
  <2>3. \A d \in Client : client'[d].sync <= clock /\ client'[d].head <= clock
    BY <1>0, <2>1 DEF Have, Absent
  <2> QED
    BY <1>0, <2>1, <2>2, <2>3, ClockQuiet DEF storeVars, history
<1>3. ASSUME NEW r \in Room, NEW c \in Client, Serve(r, c) PROVE ClockInv'
  <2>1. /\ \A q \in Room : q # r => room'[q] = room[q]
        /\ room'[r].loop # "folded"
    BY <1>3, ServeKeepsLife DEF KeepsLife
  <2>2. CASE /\ UNCHANGED <<journal, row, stamped, clock, acked>>
             /\ room'[r].latest = room[r].latest
             /\ \E v : /\ client' = [client EXCEPT ![c] = v]
                       /\ v.sync \in {client[c].sync, 0} /\ v.head \in {client[c].head, 0}
    <3>1. \A d \in Client : client'[d].sync <= clock /\ client'[d].head <= clock
      BY <1>0, <2>2
    <3> QED
      BY <1>0, <2>1, <2>2, <3>1, ClockQuiet
  <2>3. CASE /\ client[c].op \in Op /\ Append(client[c].op)
             /\ row' = row /\ room'[r].latest = NextSeq
             /\ \E v : /\ client' = [client EXCEPT ![c] = v]
                       /\ v.sync \in {client[c].sync, 0} /\ v.head \in {client[c].head, 0}
    <3>1. /\ clock' = clock + 1 /\ NextSeq = clock + 1
          /\ stamped' = [stamped EXCEPT ![client[c].op] = clock + 1]
          /\ Seqs' = Seqs \cup {clock + 1}
      BY <2>3, AppendIsNext, NextSeqIsNext
    <3>2. \A d \in Client : client'[d].sync <= clock' /\ client'[d].head <= clock'
      BY <1>0, <2>3, <3>1 DEF ClientValue
    <3>3. \A q \in Room : /\ room'[q].latest <= clock'
                          /\ room'[q].loop = "folded" => room'[q].latest <= row'.fold
      BY <1>0, <2>1, <2>3, <3>1 DEF RoomValue
    <3>4. row'.fold <= clock' /\ row'.sync <= clock' /\ row'.live
      BY <1>0, <2>3, <3>1 DEF RowValue
    <3>5. \A k \in Seqs' : k <= clock'
      BY <1>0, <3>1
    <3>6. \A o \in Op : stamped'[o] <= clock'
      BY <1>0, <3>1
    <3> QED
      BY <3>1, <3>2, <3>3, <3>4, <3>5, <3>6 DEF ClockInv
  <2> QED
    BY <1>3, <2>2, <2>3, ServeKinds
<1>4. ASSUME NEW r \in Room, LoopMoves(r) PROVE ClockInv'
  <2>1. UNCHANGED <<journal, row, stamped, clock, client>>
    BY <1>4 DEF LoopMoves, Timer, ServeTick, ServeDrop, CheckpointReads, AfterTick,
                AfterLeave, IdleFires, IdleDrops, TickFires, storeVars, history
  <2> QED
    BY <1>0, <1>4, <2>1, LoopKeepsLife, ClockQuiet DEF KeepsLife
<1>5. ASSUME NEW r \in Room, CheckpointWrites(r) PROVE ClockInv'
  <2>1. /\ row' = [live |-> TRUE, doc |-> room[r].doc, sync |-> room[r].latest,
                   fold |-> row.fold]
        /\ UNCHANGED <<journal, stamped, clock, client>>
        /\ room' = [room EXCEPT ![r].loop = "wrote"]
    BY <1>0, <1>5 DEF CheckpointWrites, history
  <2>2. Seqs' = Seqs
    BY <2>1 DEF Seqs
  <2>3. row'.live /\ row'.fold = row.fold /\ row'.sync = room[r].latest
    BY <2>1
  <2>4. \A q \in Room : room'[q].latest <= clock
                        /\ (room'[q].loop = "folded" => room'[q].latest <= row.fold)
    BY <1>0, <2>1 DEF RoomValue
  <2> QED
    BY <1>0, <2>1, <2>2, <2>3, <2>4 DEF ClockInv
<1>6. ASSUME NEW r \in Room, CheckpointFolds(r) PROVE ClockInv'
  <2> DEFINE n == IF room[r].latest > row.fold THEN room[r].latest ELSE row.fold
  <2>1. /\ row' = [row EXCEPT !.fold = n]
        /\ UNCHANGED <<journal, stamped, clock, client>>
        /\ room' = [room EXCEPT ![r].loop = "folded"]
    BY <1>0, <1>6 DEF CheckpointFolds, history
  <2>2. Seqs' = Seqs
    BY <2>1 DEF Seqs
  <2>3. room[r].latest \in Nat /\ row.fold \in Nat
    BY <1>0 DEF RoomValue, RowValue
  <2>4. n <= clock /\ n >= row.fold /\ n >= room[r].latest /\ n \in Nat
    BY <1>0, <2>3
  <2>5. clock = row.fold => clock = n
    BY <1>0, <2>3
  <2> HIDE DEF n
  <2>6. row'.live /\ row'.fold = n /\ row'.sync = row.sync
    BY <1>0, <2>1 DEF RowValue
  <2>7. \A q \in Room : room'[q].latest <= clock
                        /\ (room'[q].loop = "folded" => room'[q].latest <= n)
    BY <1>0, <2>1, <2>3, <2>4 DEF RoomValue
  <2> QED
    BY <1>0, <2>1, <2>2, <2>4, <2>5, <2>6, <2>7 DEF ClockInv
<1>7. ASSUME NEW r \in Room, CheckpointTrims(r) PROVE ClockInv'
  <2>1. /\ room[r].loop = "folded"
        /\ journal' \in {journal, {e \in journal : e.seq > room[r].latest}}
        /\ UNCHANGED <<row, stamped, clock, client>>
    BY <1>7 DEF CheckpointTrims, history
  <2>2. \A q \in Room : room'[q].latest = room[q].latest
                        /\ (room'[q].loop = "folded" => room[q].loop = "folded")
    <3>1. room'[r].loop = "done"
      BY <1>0, <1>7 DEF CheckpointTrims, RoomValue
    <3> QED
      BY <1>7, <3>1, StoreKeepsLife DEF KeepsLife
  <2>3. Seqs' \subseteq Seqs
    BY <2>1 DEF Seqs
  <2>4. clock = row.fold \/ clock \in Seqs'
    <3>1. ASSUME clock # row.fold PROVE clock \in Seqs'
      <4>1. PICK e \in journal : e.seq = clock
        BY <1>0, <3>1 DEF Seqs
      <4>2. room[r].latest <= row.fold /\ row.fold <= clock /\ room[r].latest \in Nat
            /\ row.fold \in Nat
        BY <1>0, <2>1 DEF RoomValue, RowValue
      <4>3. e.seq > room[r].latest
        BY <1>0, <3>1, <4>1, <4>2
      <4> QED
        BY <2>1, <4>1, <4>3 DEF Seqs
    <3> QED
      BY <3>1
  <2> QED
    BY <1>0, <2>1, <2>2, <2>3, <2>4 DEF ClockInv
<1>8. ASSUME NEW r \in Room, ReplyToPoster(r) PROVE ClockInv'
  <2>1. UNCHANGED <<journal, row, stamped, clock>>
        /\ client' = [client EXCEPT ![room[r].client] = Absent]
    BY <1>8 DEF ReplyToPoster, storeVars
  <2>2. \A d \in Client : client'[d].sync <= clock /\ client'[d].head <= clock
    BY <1>0, <2>1 DEF Absent
  <2> QED
    BY <1>0, <1>8, <2>1, <2>2, ReplyKeepsLife, ClockQuiet DEF KeepsLife
<1>9. ASSUME NEW r \in Room, Unregister(r) PROVE ClockInv'
  <2>1. UNCHANGED <<journal, row, stamped, clock, client>>
    BY <1>9 DEF Unregister, storeVars, history
  <2> QED
    BY <1>0, <1>9, <2>1, UnregisterEnds, ClockQuiet
<1>10. ASSUME NEW r \in Room, Drain(r) PROVE ClockInv'
  <2>1. UNCHANGED <<journal, row, stamped, clock>>
    BY <1>10 DEF Drain, storeVars, history
  <2>2. \A d \in Client : client'[d].sync <= clock /\ client'[d].head <= clock
    BY <1>0, <1>10, DrainReads
  <2>3. Off.latest = 0 /\ Off.loop = "off"
    BY DEF Off, Born
  <2> QED
    BY <1>0, <1>10, <2>1, <2>2, <2>3, DrainEnds, ClockQuiet
<1> QED
  BY <1>1, <1>2, <1>3, <1>4, <1>5, <1>6, <1>7, <1>8, <1>9, <1>10, StepKinds

LEMMA ClockInit == Init => ClockInv
<1>1. Off.latest = 0 /\ Off.loop = "off" /\ Absent.sync = 0 /\ Absent.head = 0
  BY DEF Off, Born, Absent
<1> QED
  BY <1>1 DEF Init, ClockInv, Seqs

LEMMA ClockCrash ==
    ASSUME TypeInv, ClockInv, Crash
    PROVE  ClockInv'
<1>1. Off.latest = 0 /\ Off.loop = "off" /\ Absent.sync = 0 /\ Absent.head = 0
  BY DEF Off, Born, Absent
<1>2. /\ UNCHANGED <<journal, row, stamped, clock>>
      /\ room' = [r \in Room |-> Off] /\ client' = [c \in Client |-> Absent]
  BY DEF Crash, storeVars, history
<1> QED
  BY <1>1, <1>2, ClockQuiet DEF TypeInv, TypeOK

LEMMA ClockUnchanged ==
    ASSUME ClockInv, UNCHANGED vars
    PROVE  ClockInv'
  BY DEF vars, ClockInv, Seqs

LEMMA ClockAlways == Spec => []ClockInv
<1>1. TypeInv /\ ClockInv /\ [Next]_vars => ClockInv'
  BY ClockStep, ClockCrash, ClockUnchanged DEF Next
<1> QED
  BY <1>1, ClockInit, TypeAlways, PTL DEF Spec

\* A seq is given once and upward: whatever was trimmed, folded or lost in a
\* crash, a newly stamped op lies above every op stamped before.
THEOREM ClockNeverRewindsAtAll == Spec => ClockNeverRewinds
<1>1. ASSUME TypeInv, ClockInv, Step
      PROVE  stamped' = stamped \/ \E o \in Op : stamped' = [stamped EXCEPT ![o] = clock + 1]
  <2>1. ASSUME NEW r \in Room, NEW c \in Client, Serve(r, c)
        PROVE  stamped' = stamped \/ \E o \in Op : stamped' = [stamped EXCEPT ![o] = clock + 1]
    BY <1>1, <2>1, ServeKinds, AppendIsNext
  <2>2. ASSUME NEW c \in Client, Handler(c) PROVE stamped' = stamped
    BY <1>1, <2>2, HandlerIsMove DEF HandlerMoves, ClientMoves, history
  <2>3. ASSUME NEW c \in Client, Register(c) PROVE stamped' = stamped
    BY <2>3 DEF Register, history
  <2>4. ASSUME NEW r \in Room,
               \/ LoopMoves(r) \/ CheckpointWrites(r) \/ CheckpointFolds(r)
               \/ CheckpointTrims(r) \/ ReplyToPoster(r) \/ Unregister(r) \/ Drain(r)
        PROVE  stamped' = stamped
    BY <2>4 DEF LoopMoves, Timer, ServeTick, ServeDrop, CheckpointReads, AfterTick,
                AfterLeave, IdleFires, IdleDrops, TickFires, CheckpointWrites, CheckpointFolds,
                CheckpointTrims, ReplyToPoster, Unregister, Drain, history
  <2> QED
    BY <1>1, <2>1, <2>2, <2>3, <2>4, StepKinds
<1>2. TypeInv /\ ClockInv /\ [Next]_vars =>
        [\A o, p \in Op : stamped[o] = 0 /\ stamped'[o] # 0 => stamped[p] < stamped'[o]]_vars
  <2> SUFFICES ASSUME TypeInv, ClockInv, Next, NEW o \in Op, NEW p \in Op,
                      stamped[o] = 0, stamped'[o] # 0
               PROVE  stamped[p] < stamped'[o]
    OBVIOUS
  <2>1. stamped \in [Op -> Nat] /\ clock \in Nat /\ stamped[p] <= clock
    BY DEF TypeInv, TypeOK, ClockInv
  <2>2. CASE Step
    BY <1>1, <2>1, <2>2
  <2>3. CASE Crash
    BY <2>3 DEF Crash, history
  <2> QED
    BY <2>2, <2>3 DEF Next
<1> QED
  BY <1>2, TypeAlways, ClockAlways, PTL DEF Spec, ClockNeverRewinds


-----------------------------------------------------------------------------
(* The pending batches *)

\* A batch that was not served is not stamped, a served one is, and no two
\* handlers hold the same.
PendingInv ==
    /\ \A c \in Client : client[c].op # None =>
          (client[c].pc = "served" <=> stamped[client[c].op] # 0)
    /\ \A c, d \in Client : c # d /\ client[c].op # None => client[c].op # client[d].op

\* A step that stamps nothing and hands out no batch.
LEMMA PendingQuiet ==
    ASSUME PendingInv, stamped' = stamped,
           \A c \in Client : \/ client'[c].op = None
                             \/ /\ client'[c].op = client[c].op
                                /\ client'[c].pc = "served" <=> client[c].pc = "served"
    PROVE  PendingInv'
  BY DEF PendingInv

LEMMA PendingStep ==
    ASSUME TypeInv, PendingInv, Step
    PROVE  PendingInv'
<1> USE CanvasAssumption
<1>0. client \in [Client -> ClientValue] /\ stamped \in [Op -> Nat]
  BY DEF TypeInv, TypeOK
<1>1. ASSUME NEW c \in Client, Handler(c) PROVE PendingInv'
  <2>1. PICK v : HandlerMoves(c, v)
    BY <1>1, HandlerIsMove
  <2>2. /\ client' = [client EXCEPT ![c] = v] /\ stamped' = stamped
        /\ v.pc # "served" /\ client[c].pc # "served"
        /\ v.op \in {client[c].op, None} \cup Fresh
    BY <2>1 DEF HandlerMoves, ClientMoves, history
  <2>3. CASE v.op \in {client[c].op, None}
    BY <1>0, <2>2, <2>3, PendingQuiet
  <2>4. CASE v.op \in Fresh
    <3>1. stamped[v.op] = 0 /\ \A d \in Client : client[d].op # v.op
      BY <2>4 DEF Fresh
    <3>2. client'[c] = v /\ \A d \in Client : d # c => client'[d] = client[d]
      BY <1>0, <2>2
    <3> QED
      BY <2>2, <3>1, <3>2 DEF PendingInv
  <2> QED
    BY <2>2, <2>3, <2>4
<1>2. ASSUME NEW c \in Client, Register(c) PROVE PendingInv'
  <2>1. PICK r \in Room : Have(c, r) /\ stamped' = stamped /\ client[c].pc = "built"
    BY <1>2, RegisterBirth DEF history
  <2>2. client'[c].op = client[c].op /\ client'[c].pc = "have"
        /\ \A d \in Client : d # c => client'[d] = client[d]
    BY <1>0, <2>1 DEF Have, Absent
  <2> QED
    BY <2>1, <2>2, PendingQuiet
<1>3. ASSUME NEW r \in Room, NEW c \in Client, Serve(r, c) PROVE PendingInv'
  <2>1. CASE /\ stamped' = stamped
             /\ \E v : /\ client' = [client EXCEPT ![c] = v]
                       /\ v.pc \in {"in", "out"} /\ client[c].pc # "served"
                       /\ v.op \in {client[c].op, None}
    BY <1>0, <2>1, PendingQuiet
  <2>2. CASE /\ client[c].op \in Op /\ Append(client[c].op)
             /\ \E v : /\ client' = [client EXCEPT ![c] = v]
                       /\ \/ v.pc \in {"in", "out"} /\ v.op = None
                          \/ v.pc = "served" /\ v.op = client[c].op
    <3>1. NextSeq # 0 /\ stamped' = [stamped EXCEPT ![client[c].op] = NextSeq]
      BY <2>2, NextSeqType DEF Append, TypeInv
    <3>2. /\ client'[c].op = None \/ (client'[c].op = client[c].op /\ client'[c].pc = "served")
          /\ \A d \in Client : d # c => client'[d] = client[d]
      BY <1>0, <2>2
    <3>3. \A d \in Client : d # c => client[d].op # client[c].op
      BY <2>2 DEF PendingInv
    <3>4. \A o \in Op : o # client[c].op => stamped'[o] = stamped[o]
      BY <1>0, <3>1
    <3>5. stamped'[client[c].op] # 0
      BY <1>0, <2>2, <3>1
    <3>6. \A d \in Client : client[d].op \in Op \cup {None}
      BY <1>0 DEF ClientValue
    <3> QED
      BY <2>2, <3>2, <3>3, <3>4, <3>5, <3>6 DEF PendingInv
  <2> QED
    BY <1>3, <2>1, <2>2, ServeKinds
<1>4. ASSUME NEW r \in Room,
             \/ LoopMoves(r) \/ CheckpointWrites(r) \/ CheckpointFolds(r)
             \/ CheckpointTrims(r) \/ Unregister(r)
      PROVE  PendingInv'
  <2>1. UNCHANGED <<client, stamped>>
    BY <1>4 DEF LoopMoves, Timer, ServeTick, ServeDrop, CheckpointReads, AfterTick,
                AfterLeave, IdleFires, IdleDrops, TickFires, CheckpointWrites, CheckpointFolds,
                CheckpointTrims, Unregister, history
  <2> QED
    BY <2>1, PendingQuiet
<1>5. ASSUME NEW r \in Room, ReplyToPoster(r) PROVE PendingInv'
  <2>1. stamped' = stamped /\ client' = [client EXCEPT ![room[r].client] = Absent]
        /\ Absent.op = None
    BY <1>5 DEF ReplyToPoster, Absent
  <2> QED
    BY <1>0, <2>1, PendingQuiet
<1>6. ASSUME NEW r \in Room, Drain(r) PROVE PendingInv'
  <2>1. stamped' = stamped
    BY <1>6 DEF Drain, history
  <2> QED
    BY <1>6, <2>1, DrainReads, PendingQuiet
<1> QED
  BY <1>1, <1>2, <1>3, <1>4, <1>5, <1>6, StepKinds

LEMMA PendingInit == Init => PendingInv
<1>1. Absent.op = None
  BY DEF Absent
<1> QED
  BY <1>1 DEF Init, PendingInv

LEMMA PendingCrash ==
    ASSUME PendingInv, Crash
    PROVE  PendingInv'
<1>1. Absent.op = None
  BY DEF Absent
<1> QED
  BY <1>1, PendingQuiet DEF Crash, history

LEMMA PendingAlways == Spec => []PendingInv
<1>1. PendingInv /\ UNCHANGED vars => PendingInv'
  BY PendingQuiet DEF vars
<1>2. TypeInv /\ PendingInv /\ [Next]_vars => PendingInv'
  BY <1>1, PendingStep, PendingCrash DEF Next
<1> QED
  BY <1>2, PendingInit, TypeAlways, PTL DEF Spec

-----------------------------------------------------------------------------
(* The docs, as long as no load outlives a room.  With SlowLoads a load can *)
(* register a doc that predates acknowledged ops, so that hypothesis is    *)
(* needed.                                                                 *)

\* The journal has every op stamped past n.
Complete(n) == \A o \in Op : stamped[o] > n => \E e \in journal : e.op = o /\ e.seq = stamped[o]

\* What the row and the journal hold between them.
StoreInv ==
    /\ StampTellsTheDoc
    /\ Complete(row.sync)
    /\ \A e \in journal : e.seq > 0 /\ stamped[e.op] = e.seq
    /\ row.fold <= row.sync
    /\ \A o \in acked : stamped[o] > 0

\* The registered room's doc is current, and so is the row once its checkpoint
\* has written it.
CurrentInv ==
    hub # None =>
        /\ room[hub].doc = Prefix(clock) /\ room[hub].latest = clock
        /\ ~room[hub].voided
        /\ room[hub].loop \in {"wrote", "folded", "done"} => row.sync = clock

\* What a load has read so far.
LoadOk(v) ==
    /\ v.pc \in {"head", "tail"} => v.doc = Prefix(v.sync) /\ Complete(v.sync)
    /\ v.pc = "head" => clock = v.sync \/ clock \in Seqs
    /\ v.pc \in {"tail", "built"} => v.head = clock
    /\ v.pc = "built" => v.doc = Prefix(clock)

\* It is still true of the store as long as nobody has registered a room.
LoadsInv == hub = None => \A c \in Client : LoadOk(client[c])

DocInv == StoreInv /\ CurrentInv /\ LoadsInv

\* A tail folded onto the doc of its seq gives the doc of the clock.
LEMMA TailCompletes ==
    ASSUME TypeInv, ClockInv, StoreInv, NEW n \in Nat, Complete(n)
    PROVE  Prefix(n) \cup OpsAfter(n) = Prefix(clock)
<1>0. /\ journal \in SUBSET [seq : Nat, op : Op] /\ stamped \in [Op -> Nat] /\ clock \in Nat
      /\ \A o \in Op : stamped[o] <= clock
      /\ \A e \in journal : e.seq > 0 /\ stamped[e.op] = e.seq
  BY DEF TypeInv, TypeOK, ClockInv, StoreInv
<1>1. ASSUME NEW o \in Prefix(n) \cup OpsAfter(n) PROVE o \in Prefix(clock)
  BY <1>0, <1>1 DEF Prefix, OpsAfter
<1>2. ASSUME NEW o \in Prefix(clock), o \notin Prefix(n) PROVE o \in OpsAfter(n)
  <2>1. o \in Op /\ stamped[o] > n
    BY <1>0, <1>2 DEF Prefix
  <2>2. PICK e \in journal : e.op = o /\ e.seq = stamped[o]
    BY <2>1 DEF Complete
  <2> QED
    BY <2>1, <2>2 DEF OpsAfter
<1> QED
  BY <1>1, <1>2

\* A load that nobody overtook reads one state of the store, statement by
\* statement.
LEMMA LoadReads ==
    ASSUME TypeInv, ClockInv, StoreInv, NEW c \in Client, hub = None,
           LoadOk(client[c]), Handler(c)
    PROVE  LoadOk(client'[c])
<1>0. /\ client \in [Client -> ClientValue] /\ client[c] \in ClientValue
      /\ clock \in Nat /\ row \in RowValue /\ room \in [Room -> RoomValue]
      /\ Seqs \subseteq Nat
  BY DEF TypeInv, TypeOK, Seqs
<1>1. /\ row.sync <= clock /\ row.fold <= row.sync /\ (clock = row.fold \/ clock \in Seqs)
      /\ \A k \in Seqs : k <= clock /\ k <= JournalHead
      /\ JournalHead \in Nat /\ JournalHead <= clock
      /\ client[c].sync <= clock
  <2>1. /\ JournalHead \in Nat /\ (journal # {} => JournalHead \in Seqs)
        /\ \A k \in Seqs : k <= JournalHead
    BY HeadIsLast DEF TypeInv
  <2>2. journal = {} => JournalHead = 0
    BY DEF JournalHead
  <2> QED
    BY <1>0, <2>1, <2>2 DEF ClockInv, StoreInv
<1>2. ASSUME NEW v, v.pc \notin {"head", "tail", "built"} PROVE LoadOk(v)
  BY <1>2 DEF LoadOk
<1>3. Absent.pc = "out"
  BY DEF Absent
<1>4. CASE Lookup(c)
  <2>1. client'[c].pc = "row"
    <3>1. PICK o : client' = [client EXCEPT ![c] = [@ EXCEPT !.pc = "row", !.op = o]]
      BY <1>4 DEF Lookup
    <3> QED
      BY <1>0, <3>1 DEF ClientValue
  <2> QED
    BY <1>2, <2>1
<1>5. CASE LoadRow(c)
  <2> DEFINE v == [client[c] EXCEPT !.pc = "head", !.doc = row.doc, !.sync = row.sync]
  <2>1. row.live /\ client'[c] = v
    BY <1>0, <1>5 DEF LoadRow, ClockInv
  <2>2. v.pc = "head" /\ v.doc = row.doc /\ v.sync = row.sync
    BY <1>0 DEF ClientValue
  <2>3. row.doc = Prefix(row.sync) /\ Complete(row.sync)
    BY DEF StoreInv, StampTellsTheDoc
  <2>4. clock = row.sync \/ clock \in Seqs
    BY <1>0, <1>1 DEF RowValue
  <2> HIDE DEF v
  <2> QED
    BY <2>1, <2>2, <2>3, <2>4 DEF LoadOk
<1>6. CASE LoadHead(c)
  <2>1. /\ client[c].doc = Prefix(client[c].sync) /\ Complete(client[c].sync)
        /\ clock = client[c].sync \/ clock \in Seqs
    BY <1>6 DEF LoadHead, LoadOk
  <2>2. CASE JournalHead > client[c].sync
    <3> DEFINE v == [client[c] EXCEPT !.pc = "tail", !.head = JournalHead]
    <3>1. client'[c] = v /\ v.pc = "tail" /\ v.head = JournalHead
          /\ v.doc = client[c].doc /\ v.sync = client[c].sync
      BY <1>0, <1>6, <2>2 DEF LoadHead, ClientValue
    <3>2. JournalHead = clock
      BY <1>0, <1>1, <2>1, <2>2 DEF ClientValue
    <3> HIDE DEF v
    <3> QED
      BY <2>1, <3>1, <3>2 DEF LoadOk
  <2>3. CASE ~(JournalHead > client[c].sync)
    <3> DEFINE v == [client[c] EXCEPT !.pc = "built", !.head = client[c].sync]
    <3>1. client'[c] = v /\ v.pc = "built" /\ v.head = client[c].sync
          /\ v.doc = client[c].doc
      BY <1>0, <1>6, <2>3 DEF LoadHead, ClientValue
    <3>2. client[c].sync = clock
      BY <1>0, <1>1, <2>1, <2>3 DEF ClientValue
    <3> HIDE DEF v
    <3> QED
      BY <2>1, <3>1, <3>2 DEF LoadOk
  <2> QED
    BY <2>2, <2>3
<1>7. CASE LoadTail(c)
  <2> DEFINE d == client[c].doc \cup OpsAfter(client[c].sync)
             v == [client[c] EXCEPT !.pc = "built", !.doc = d]
  <2>1. client[c].doc = Prefix(client[c].sync) /\ Complete(client[c].sync)
        /\ client[c].head = clock
    BY <1>7 DEF LoadTail, LoadOk
  <2>2. d = Prefix(clock)
    BY <1>0, <2>1, TailCompletes DEF ClientValue
  <2>3. client' = [client EXCEPT ![c] = v]
    BY <1>7 DEF LoadTail
  <2> HIDE DEF d
  <2>4. v.pc = "built" /\ v.doc = d /\ v.head = client[c].head
    BY <1>0 DEF ClientValue
  <2>5. client'[c] = v
    BY <1>0, <2>3
  <2> HIDE DEF v
  <2> QED
    BY <2>1, <2>2, <2>4, <2>5 DEF LoadOk
<1>8. ASSUME NEW o, Submit(c, o) PROVE LoadOk(client'[c])
  <2>1. Answered(c).pc \in {"in", "out"}
    BY <1>0, <1>3 DEF Answered, ClientValue
  <2>2. client' = [client EXCEPT ![c] = Answered(c)]
        \/ client' = [client EXCEPT ![c] = [@ EXCEPT !.pc = "queued", !.op = o]]
    BY <1>8 DEF Submit
  <2>3. client'[c].pc \in {"in", "out", "queued"}
    <3>1. CASE client' = [client EXCEPT ![c] = Answered(c)]
      BY <1>0, <2>1, <3>1
    <3>2. CASE client' = [client EXCEPT ![c] = [@ EXCEPT !.pc = "queued", !.op = o]]
      BY <1>0, <3>2 DEF ClientValue
    <3> QED
      BY <2>2, <3>1, <3>2
  <2> QED
    BY <1>2, <2>3
<1>9. CASE Join(c)
  <2>1. client' = [client EXCEPT ![c] = Absent]
        \/ client' = [client EXCEPT ![c] = [@ EXCEPT !.pc = "joining"]]
    BY <1>9 DEF Join
  <2>2. client'[c].pc \in {"out", "joining"}
    BY <1>0, <1>3, <2>1 DEF ClientValue
  <2> QED
    BY <1>2, <2>2
<1>10. CASE Leave(c)
  <2>1. client' = [client EXCEPT ![c] = Absent]
        \/ client' = [client EXCEPT ![c] = [@ EXCEPT !.pc = "leaving"]]
    BY <1>10 DEF Leave
  <2>2. client'[c].pc \in {"out", "leaving"}
    BY <1>0, <1>3, <2>1 DEF ClientValue
  <2> QED
    BY <1>2, <2>2
<1>11. ~LoseRace(c)
  BY DEF LoseRace
<1>12. CASE UpgradeFails(c)
  <2>1. client'[c] = Absent
    BY <1>0, <1>12 DEF UpgradeFails
  <2> QED
    BY <1>2, <1>3, <2>1
<1> QED
  BY <1>4, <1>5, <1>6, <1>7, <1>8, <1>9, <1>10, <1>11, <1>12 DEF Handler, Post, MemberSubmits

\* The docs after a step that leaves the store and the stamps alone.
LEMMA DocQuiet ==
    ASSUME DocInv, UNCHANGED <<journal, row, stamped, clock>>,
           \A o \in acked' : stamped[o] > 0,
           hub' # None =>
              /\ hub' = hub
              /\ room'[hub].doc = room[hub].doc /\ room'[hub].latest = room[hub].latest
              /\ room'[hub].voided = room[hub].voided
              /\ room'[hub].loop \in {"wrote", "folded", "done"} => row.sync = clock,
           hub' = None => \A c \in Client : LoadOk(client'[c])
    PROVE  DocInv'
<1>1. StoreInv'
  BY DEF DocInv, StoreInv, StampTellsTheDoc, Complete, Prefix
<1>2. CurrentInv'
  <2> SUFFICES ASSUME hub' # None
               PROVE  /\ room'[hub'].doc = Prefix(clock)' /\ room'[hub'].latest = clock'
                      /\ ~room'[hub'].voided
                      /\ room'[hub'].loop \in {"wrote", "folded", "done"} => row'.sync = clock'
    BY DEF CurrentInv
  <2>1. Prefix(clock)' = Prefix(clock)
    BY DEF Prefix
  <2> QED
    BY <2>1 DEF DocInv, CurrentInv
<1>3. LoadsInv'
  <2> SUFFICES ASSUME hub' = None, NEW c \in Client PROVE LoadOk(client[c])'
    BY DEF LoadsInv
  <2>1. LoadOk(client'[c])
    OBVIOUS
  <2> QED
    BY <2>1 DEF LoadOk, Prefix, Complete, Seqs
<1> QED
  BY <1>1, <1>2, <1>3 DEF DocInv

\* A handler the drain answers, or nobody's, has loaded nothing.
LEMMA NoLoad ==
    ASSUME NEW v, v.pc \notin {"head", "tail", "built"}
    PROVE  LoadOk(v)
  BY DEF LoadOk

\* The op just appended is the registered room's newest and the journal's last.
LEMMA DocAppend ==
    ASSUME TypeInv, ClockInv, DocInv, NEW o \in Op, Append(o), stamped[o] = 0,
           hub # None, hub' = hub, row' = row,
           room'[hub].doc = room[hub].doc \cup {o}, room'[hub].latest = NextSeq,
           room'[hub].voided = room[hub].voided,
           room'[hub].loop \in {"select", "ckpt"},
           acked' \in {acked, acked \cup {o}}
    PROVE  DocInv'
<1>0. /\ clock \in Nat /\ stamped \in [Op -> Nat] /\ row.sync \in Nat
      /\ \A p \in Op : stamped[p] <= clock
      /\ row.sync <= clock
      /\ journal \in SUBSET [seq : Nat, op : Op] /\ acked \subseteq Op
  BY DEF TypeInv, TypeOK, RowValue, ClockInv
<1>1. /\ clock' = clock + 1 /\ NextSeq = clock + 1
      /\ stamped' = [stamped EXCEPT ![o] = clock + 1]
      /\ journal' = journal \cup {[seq |-> clock + 1, op |-> o]}
  BY AppendIsNext, NextSeqIsNext
<1>2. stamped'[o] = clock + 1 /\ \A p \in Op : p # o => stamped'[p] = stamped[p]
  BY <1>0, <1>1
<1>3. Prefix(row.sync)' = Prefix(row.sync)
  BY <1>0, <1>2 DEF Prefix
<1>4. Prefix(clock)' = Prefix(clock) \cup {o}
  <2>1. Prefix(clock)' = {p \in Op : 0 < stamped'[p] /\ stamped'[p] <= clock + 1}
    BY <1>1 DEF Prefix
  <2> QED
    BY <1>0, <1>2, <2>1 DEF Prefix
<1>5. StoreInv'
  <2> DEFINE new == [seq |-> clock + 1, op |-> o]
  <2>1. new.seq = clock + 1 /\ new.op = o /\ journal' = journal \cup {new}
    BY <1>1
  <2> HIDE DEF new
  <2>2. Complete(row.sync)'
    <3> SUFFICES ASSUME NEW p \in Op, stamped'[p] > row.sync
                 PROVE  \E e \in journal' : e.op = p /\ e.seq = stamped'[p]
      BY DEF Complete
    <3>1. CASE p = o
      BY <1>2, <2>1, <3>1
    <3>2. CASE p # o
      BY <1>2, <2>1, <3>2 DEF DocInv, StoreInv, Complete
    <3> QED
      BY <3>1, <3>2
  <2>3. \A e \in journal' : e.seq > 0 /\ stamped'[e.op] = e.seq
    <3> SUFFICES ASSUME NEW e \in journal' PROVE e.seq > 0 /\ stamped'[e.op] = e.seq
      OBVIOUS
    <3>1. CASE e = new
      BY <1>0, <1>2, <2>1, <3>1
    <3>2. CASE e \in journal
      <4>1. e.op \in Op /\ e.seq > 0 /\ stamped[e.op] = e.seq
        BY <1>0, <3>2 DEF DocInv, StoreInv
      <4>2. e.op # o
        BY <4>1
      <4> QED
        BY <1>2, <4>1, <4>2
    <3> QED
      BY <2>1, <3>1, <3>2
  <2>4. \A p \in acked' : stamped'[p] > 0
    <3> SUFFICES ASSUME NEW p \in acked' PROVE stamped'[p] > 0
      OBVIOUS
    <3>1. CASE p = o
      BY <1>0, <1>2, <3>1
    <3>2. CASE p # o
      BY <1>0, <1>2, <3>2 DEF DocInv, StoreInv
    <3> QED
      BY <3>1, <3>2
  <2>5. row'.doc = Prefix(row.sync)'
    BY <1>3 DEF DocInv, StoreInv, StampTellsTheDoc
  <2> QED
    BY <2>2, <2>3, <2>4, <2>5 DEF DocInv, StoreInv, StampTellsTheDoc
<1>6. CurrentInv'
  <2>1. room[hub].doc = Prefix(clock) /\ ~room[hub].voided
    BY DEF DocInv, CurrentInv
  <2> QED
    BY <1>1, <1>4, <2>1 DEF CurrentInv
<1>7. LoadsInv'
  BY DEF LoadsInv
<1> QED
  BY <1>5, <1>6, <1>7 DEF DocInv

\* A living room is the registered one.
LEMMA LiveIsHub ==
    ASSUME WriterInv, NEW r \in Room, Live(r)
    PROVE  hub = r /\ hub # None
  BY CanvasAssumption DEF WriterInv, OneWriter

\* What is served: the registered room appends, or nothing is stamped.
LEMMA ServeDocs ==
    ASSUME TypeInv, WriterInv, ClockInv, PendingInv, DocInv,
           NEW r \in Room, NEW c \in Client, Serve(r, c)
    PROVE  DocInv'
<1> USE CanvasAssumption
<1>1. /\ KeepsLife(r) /\ hub = r /\ hub # None /\ hub' = hub
      /\ room'[r].voided = room[r].voided /\ room'[r].loop \in {"select", "ckpt"}
  BY ServeKeepsLife, LiveIsHub DEF KeepsLife
<1>2. CASE /\ UNCHANGED <<journal, row, stamped, clock, acked>>
           /\ room'[r].doc = room[r].doc /\ room'[r].latest = room[r].latest
  BY <1>1, <1>2, DocQuiet DEF DocInv, StoreInv
<1>3. CASE /\ client[c].op \in Op /\ Append(client[c].op) /\ client[c].pc = "queued"
           /\ row' = row
           /\ room'[r].doc = room[r].doc \cup {client[c].op} /\ room'[r].latest = NextSeq
           /\ acked' \in {acked, acked \cup {client[c].op}}
  <2>1. stamped[client[c].op] = 0
    BY <1>3 DEF PendingInv
  <2> QED
    BY <1>1, <1>3, <2>1, DocAppend
<1> QED
  BY <1>2, <1>3, ServeKinds

\* The statements of a checkpoint.
LEMMA CheckpointDocs ==
    ASSUME TypeInv, WriterInv, ClockInv, DocInv, NEW r \in Room,
           CheckpointWrites(r) \/ CheckpointFolds(r) \/ CheckpointTrims(r)
    PROVE  DocInv'
<1> USE CanvasAssumption
<1>0. /\ room \in [Room -> RoomValue] /\ room[r] \in RoomValue /\ row \in RowValue
      /\ clock \in Nat /\ stamped \in [Op -> Nat]
      /\ \A o \in Op : stamped[o] <= clock
      /\ row.live /\ row.fold <= clock
  BY DEF TypeInv, TypeOK, ClockInv
<1>1. /\ hub = r /\ hub # None /\ hub' = hub
      /\ room'[r].doc = room[r].doc /\ room'[r].latest = room[r].latest
      /\ room'[r].voided = room[r].voided
  BY StoreKeepsLife, LiveIsHub DEF KeepsLife
<1>2. /\ room[r].doc = Prefix(clock) /\ room[r].latest = clock /\ ~room[r].voided
      /\ room[r].loop \in {"wrote", "folded", "done"} => row.sync = clock
      /\ row.doc = Prefix(row.sync) /\ row.fold <= row.sync
      /\ \A e \in journal : e.seq > 0 /\ stamped[e.op] = e.seq
      /\ \A o \in acked : stamped[o] > 0
  BY <1>1 DEF DocInv, StoreInv, CurrentInv, StampTellsTheDoc
<1>3. UNCHANGED <<stamped, clock, acked>>
  BY DEF CheckpointWrites, CheckpointFolds, CheckpointTrims, history
<1>4. ASSUME row'.sync = clock, row'.doc = Prefix(clock), row'.fold <= clock,
             journal' \subseteq journal
      PROVE  DocInv'
  <2>1. Prefix(clock)' = Prefix(clock) /\ Prefix(row.sync)' = Prefix(row'.sync)
    BY <1>3 DEF Prefix
  <2>2. Complete(row.sync)'
    BY <1>0, <1>3, <1>4 DEF Complete
  <2>3. StoreInv'
    BY <1>2, <1>3, <1>4, <2>1, <2>2 DEF StoreInv, StampTellsTheDoc
  <2>4. CurrentInv'
    BY <1>1, <1>2, <1>3, <1>4, <2>1 DEF CurrentInv
  <2>5. LoadsInv'
    BY <1>1 DEF LoadsInv
  <2> QED
    BY <2>3, <2>4, <2>5 DEF DocInv
<1>5. CASE CheckpointWrites(r)
  <2>1. /\ row' = [live |-> TRUE, doc |-> room[r].doc, sync |-> room[r].latest,
                   fold |-> row.fold]
        /\ journal' = journal
    BY <1>0, <1>5 DEF CheckpointWrites
  <2> QED
    BY <1>0, <1>2, <1>4, <2>1
<1>6. CASE CheckpointFolds(r)
  <2> DEFINE n == IF room[r].latest > row.fold THEN room[r].latest ELSE row.fold
  <2>1. row' = [row EXCEPT !.fold = n] /\ journal' = journal /\ room[r].loop = "wrote"
    BY <1>0, <1>6 DEF CheckpointFolds
  <2>2. n <= clock
    BY <1>0, <1>2
  <2> HIDE DEF n
  <2>3. row'.fold = n /\ row'.sync = row.sync /\ row'.doc = row.doc
    BY <1>0, <2>1 DEF RowValue
  <2> QED
    BY <1>2, <1>4, <2>1, <2>2, <2>3
<1>7. CASE CheckpointTrims(r)
  <2>1. row' = row /\ journal' \subseteq journal /\ room[r].loop = "folded"
    BY <1>7 DEF CheckpointTrims
  <2> QED
    BY <1>0, <1>2, <1>4, <2>1
<1> QED
  BY <1>5, <1>6, <1>7

LEMMA DocStep ==
    ASSUME ~SlowLoads, TypeInv, WriterInv, ClockInv, PendingInv, DocInv, Step
    PROVE  DocInv'
<1> USE CanvasAssumption
<1>0. /\ hub \in Room \cup {None} /\ room \in [Room -> RoomValue]
      /\ client \in [Client -> ClientValue] /\ row.live
      /\ \A o \in acked : stamped[o] > 0
      /\ hub = None => \A c \in Client : LoadOk(client[c])
      /\ hub # None => /\ ~room[hub].voided /\ Live(hub)
                       /\ room[hub].loop \in {"wrote", "folded", "done"} => row.sync = clock
  BY DEF TypeInv, TypeOK, ClockInv, DocInv, StoreInv, CurrentInv, LoadsInv, WriterInv
<1>1. ASSUME NEW c \in Client, Handler(c) PROVE DocInv'
  <2>1. PICK v : HandlerMoves(c, v)
    BY <1>1, HandlerIsMove
  <2>2. /\ UNCHANGED <<journal, row, stamped, clock, acked, hub, room>>
        /\ client' = [client EXCEPT ![c] = v]
    BY <2>1 DEF HandlerMoves, ClientMoves, storeVars, history
  <2>3. hub = None => \A d \in Client : LoadOk(client'[d])
    BY <1>0, <1>1, <2>2, LoadReads DEF DocInv
  <2> QED
    BY <1>0, <2>2, <2>3, DocQuiet
<1>2. ASSUME NEW c \in Client, Register(c) PROVE DocInv'
  <2>1. PICK r \in Room :
              /\ hub = None /\ hub' = r
              /\ room'[r] = Born(client[c].doc, client[c].head)
              /\ client[c].pc = "built"
              /\ UNCHANGED <<storeVars, mutex, history>>
    BY <1>2, RegisterBirth
  <2>2. UNCHANGED <<journal, row, stamped, clock, acked>>
    BY <2>1 DEF storeVars, history
  <2>3. client[c].doc = Prefix(clock) /\ client[c].head = clock
    BY <1>0, <2>1 DEF LoadOk
  <2>4. /\ room'[r].doc = Prefix(clock) /\ room'[r].latest = clock
        /\ ~room'[r].voided /\ room'[r].loop = "select"
    BY <2>1, <2>3 DEF Born
  <2>5. StoreInv'
    BY <2>2 DEF DocInv, StoreInv, StampTellsTheDoc, Complete, Prefix
  <2>6. Prefix(clock)' = Prefix(clock)
    BY <2>2 DEF Prefix
  <2>7. CurrentInv'
    BY <2>1, <2>2, <2>4, <2>6 DEF CurrentInv
  <2>8. LoadsInv'
    BY <2>1 DEF LoadsInv
  <2> QED
    BY <2>5, <2>7, <2>8 DEF DocInv
<1>3. ASSUME NEW r \in Room, LoopMoves(r) PROVE DocInv'
  <2>1. UNCHANGED <<journal, row, stamped, clock, client, acked>>
    BY <1>3 DEF LoopMoves, Timer, ServeTick, ServeDrop, CheckpointReads, AfterTick,
                AfterLeave, IdleFires, IdleDrops, TickFires, storeVars, history
  <2>2. /\ hub' = hub
        /\ \A q \in Room : q # r => room'[q] = room[q]
        /\ room'[r].voided = room[r].voided
        /\ room'[r].doc = room[r].doc /\ room'[r].latest = room[r].latest
        /\ room'[r].loop \in {"wrote", "folded", "done"} =>
              room[r].loop = room'[r].loop \/ room[r].voided
    BY <1>0, <1>3, LoopKeepsLife DEF KeepsLife
  <2> QED
    BY <1>0, <2>1, <2>2, DocQuiet
<1>4. ASSUME NEW r \in Room, ReplyToPoster(r) PROVE DocInv'
  <2> DEFINE c == room[r].client
  <2>1. /\ UNCHANGED <<journal, row, stamped, clock>> /\ acked' = acked \cup {client[c].op}
        /\ room[r].task = "submit"
    BY <1>4 DEF ReplyToPoster, storeVars
  <2>2. /\ hub = r /\ hub # None /\ hub' = hub
        /\ room'[r].doc = room[r].doc /\ room'[r].latest = room[r].latest
        /\ room'[r].voided = room[r].voided /\ room'[r].loop = "select"
    BY <1>4, ReplyKeepsLife, LiveIsHub DEF KeepsLife
  <2>3. c \in Client /\ client[c].pc = "served" /\ client[c].op \in Op
    BY <2>1 DEF TypeInv, TypeOK, ServesPoster, HoldsBatch, HoldsIt, Client, ClientValue
  <2>4. stamped[client[c].op] > 0
    BY <2>3 DEF PendingInv, TypeInv, TypeOK
  <2> QED
    BY <1>0, <2>1, <2>2, <2>4, DocQuiet
<1>5. ASSUME NEW r \in Room, Unregister(r) PROVE DocInv'
  <2>1. UNCHANGED <<journal, row, stamped, clock, acked, client>>
        /\ \A c \in Client : client[c].pc \notin {"head", "tail", "built"}
    BY <1>5 DEF Unregister, Loading, storeVars, history
  <2>2. hub' = None
    <3>1. Live(r)
      BY <1>5, UnregisterEnds DEF Live
    <3> QED
      BY <1>5, <3>1, LiveIsHub, UnregisterEnds
  <2> QED
    BY <1>0, <2>1, <2>2, NoLoad, DocQuiet
<1>6. ASSUME NEW r \in Room, Drain(r) PROVE DocInv'
  <2>1. UNCHANGED <<journal, row, stamped, clock, acked>>
    BY <1>6 DEF Drain, storeVars, history
  <2>2. /\ hub' = hub /\ hub # r
        /\ \A q \in Room : q # r => room'[q] = room[q]
    BY <1>0, <1>6, DrainEnds
  <2>3. ASSUME NEW c \in Client, LoadOk(client[c]) PROVE LoadOk(client'[c])
    <3>1. CASE client'[c] = client[c]
      BY <2>3, <3>1
    <3>2. CASE client'[c].pc \in {"in", "out"}
      BY <3>2, NoLoad
    <3> QED
      BY <1>6, <3>1, <3>2, DrainReads
  <2> QED
    BY <1>0, <2>1, <2>2, <2>3, DocQuiet
<1> QED
  BY <1>1, <1>2, <1>3, <1>4, <1>5, <1>6, StepKinds, ServeDocs, CheckpointDocs

LEMMA DocInit == Init => DocInv
<1> SUFFICES ASSUME Init PROVE DocInv
  OBVIOUS
<1>1. \A c \in Client : LoadOk(client[c])
  BY NoLoad DEF Init, Absent
<1>2. StoreInv
  BY DEF Init, StoreInv, StampTellsTheDoc, Prefix, Complete
<1> QED
  BY <1>1, <1>2 DEF DocInv, CurrentInv, LoadsInv, Init

LEMMA DocCrash ==
    ASSUME DocInv, Crash
    PROVE  DocInv'
<1>1. /\ UNCHANGED <<journal, row, stamped, clock, acked>> /\ hub' = None
      /\ \A c \in Client : client'[c] = Absent
  BY DEF Crash, storeVars, history
<1>2. Absent.pc = "out"
  BY DEF Absent
<1> QED
  BY <1>1, <1>2, NoLoad, DocQuiet DEF DocInv, StoreInv

LEMMA DocUnchanged ==
    ASSUME DocInv, UNCHANGED vars
    PROVE  DocInv'
  BY DocQuiet DEF vars, DocInv, StoreInv, CurrentInv, LoadsInv

LEMMA DocAlways == ASSUME ~SlowLoads PROVE Spec => []DocInv
<1>1. TypeInv /\ WriterInv /\ ClockInv /\ PendingInv /\ DocInv /\ [Next]_vars => DocInv'
  BY DocStep, DocCrash, DocUnchanged DEF Next
<1> QED
  BY <1>1, DocInit, TypeAlways, WriterAlways, ClockAlways, PendingAlways, PTL DEF Spec

\* The row's stamp tells exactly what the row holds, at every point of every
\* checkpoint, trim, crash and reload.
THEOREM StampAlwaysTells == ASSUME ~SlowLoads PROVE Spec => []StampTellsTheDoc
<1>1. DocInv => StampTellsTheDoc
  BY DEF DocInv, StoreInv
<1> QED
  BY <1>1, DocAlways, PTL

\* The registered room's doc holds every op ever stamped, whichever load it
\* was built from.
THEOREM RoomAlwaysCurrent == ASSUME ~SlowLoads PROVE Spec => []RoomHoldsTheDoc
<1>1. DocInv => RoomHoldsTheDoc
  BY DEF DocInv, CurrentInv, RoomHoldsTheDoc
<1> QED
  BY <1>1, DocAlways, PTL

\* No acknowledged op is lost: it is in the row, or in the journal where the
\* next load folds it again.
THEOREM NothingAckedIsLost == ASSUME ~SlowLoads PROVE Spec => []AckedIsRecoverable
<1>1. ASSUME TypeInv, DocInv PROVE AckedIsRecoverable
  <2>1. /\ row.doc = Prefix(row.sync) /\ Complete(row.sync)
        /\ \A o \in acked : stamped[o] > 0
        /\ acked \subseteq Op /\ stamped \in [Op -> Nat] /\ row.sync \in Nat
    BY <1>1 DEF DocInv, StoreInv, StampTellsTheDoc, TypeInv, TypeOK, RowValue
  <2> SUFFICES ASSUME NEW o \in acked, o \notin row.doc PROVE o \in OpsAfter(row.sync)
    BY DEF AckedIsRecoverable
  <2>2. o \in Op /\ stamped[o] > row.sync
    BY <2>1 DEF Prefix
  <2>3. PICK e \in journal : e.op = o /\ e.seq = stamped[o]
    BY <2>1, <2>2 DEF Complete
  <2> QED
    BY <2>2, <2>3 DEF OpsAfter
<1> QED
  BY <1>1, TypeAlways, DocAlways, PTL

-----------------------------------------------------------------------------
(* The last checkpoint, however slow the loads *)

\* Once its checkpoint has written, the row holds what the room holds.
FlushedInv ==
    \A r \in Room : room[r].loop \in {"wrote", "folded", "done"} /\ ~room[r].voided
                       => row.doc = room[r].doc

LEMMA FlushedStep ==
    ASSUME TypeInv, WriterInv, ClockInv, FlushedInv, Step
    PROVE  FlushedInv'
<1>0. row \in RowValue /\ row.live /\ room \in [Room -> RoomValue]
  BY DEF TypeInv, TypeOK, ClockInv
<1>1. ASSUME NEW c \in Client, Handler(c) PROVE FlushedInv'
  BY <1>1, HandlerIsMove DEF HandlerMoves, ClientMoves, storeVars, FlushedInv
<1>2. ASSUME NEW c \in Client, Register(c) PROVE FlushedInv'
  <2>1. PICK r \in Room :
              /\ room'[r] = Born(client[c].doc, client[c].head)
              /\ \A q \in Room : q # r => room'[q] = room[q]
              /\ row' = row
    BY <1>2, RegisterBirth DEF storeVars
  <2>2. room'[r].loop = "select"
    BY <2>1 DEF Born
  <2> QED
    BY <2>1, <2>2 DEF FlushedInv
<1>3. ASSUME NEW r \in Room, \A q \in Room : q # r => room'[q] = room[q], row'.doc = row.doc,
             room'[r].loop \in {"wrote", "folded", "done"} =>
                /\ room[r].loop \in {"wrote", "folded", "done"}
                /\ room'[r].doc = room[r].doc /\ room'[r].voided = room[r].voided
      PROVE  FlushedInv'
  BY <1>3 DEF FlushedInv
<1>4. ASSUME NEW r \in Room, NEW c \in Client, Serve(r, c) PROVE FlushedInv'
  <2>1. row' = row
    BY <1>4, ServeKinds
  <2> QED
    BY <1>3, <1>4, <2>1, ServeKeepsLife DEF KeepsLife
<1>5. ASSUME NEW r \in Room, LoopMoves(r) PROVE FlushedInv'
  <2>1. row' = row
    BY <1>5 DEF LoopMoves, Timer, ServeTick, ServeDrop, CheckpointReads, AfterTick,
                AfterLeave, IdleFires, IdleDrops, TickFires, storeVars
  <2> QED
    BY <1>0, <1>5, <2>1, LoopKeepsLife DEF KeepsLife, FlushedInv
<1>6. ASSUME NEW r \in Room, CheckpointWrites(r) PROVE FlushedInv'
  <2>1. row'.doc = room[r].doc
    BY <1>6 DEF CheckpointWrites
  <2>2. /\ Live(r) /\ room'[r].doc = room[r].doc
        /\ \A q \in Room : q # r => room'[q] = room[q]
    BY <1>6, StoreKeepsLife DEF KeepsLife
  <2>3. \A q \in Room : q # r => ~Live(q)
    BY <2>2 DEF WriterInv, OneWriter
  <2> QED
    BY <2>1, <2>2, <2>3 DEF FlushedInv, Live
<1>7. ASSUME NEW r \in Room, CheckpointFolds(r) \/ CheckpointTrims(r) PROVE FlushedInv'
  <2>1. row'.doc = row.doc
    BY <1>0, <1>7 DEF CheckpointFolds, CheckpointTrims, RowValue
  <2>2. room[r].loop \in {"wrote", "folded"}
    BY <1>7 DEF CheckpointFolds, CheckpointTrims
  <2>3. /\ room'[r].doc = room[r].doc /\ room'[r].voided = room[r].voided
        /\ \A q \in Room : q # r => room'[q] = room[q]
    BY <1>7, StoreKeepsLife DEF KeepsLife
  <2> QED
    BY <1>3, <2>1, <2>2, <2>3
<1>8. ASSUME NEW r \in Room, ReplyToPoster(r) PROVE FlushedInv'
  <2>1. row' = row
    BY <1>8 DEF ReplyToPoster, storeVars
  <2> QED
    BY <1>3, <1>8, <2>1, ReplyKeepsLife DEF KeepsLife
<1>9. ASSUME NEW r \in Room, Unregister(r) PROVE FlushedInv'
  <2>1. row' = row
    BY <1>9 DEF Unregister, storeVars
  <2> QED
    BY <1>3, <1>9, <2>1, UnregisterEnds
<1>10. ASSUME NEW r \in Room, Drain(r) PROVE FlushedInv'
  <2>1. row' = row /\ Off.loop = "off"
    BY <1>10 DEF Drain, storeVars, Off, Born
  <2> QED
    BY <1>3, <1>10, <2>1, DrainEnds
<1> QED
  BY <1>1, <1>2, <1>4, <1>5, <1>6, <1>7, <1>8, <1>9, <1>10, StepKinds

LEMMA FlushedAlways == Spec => []FlushedInv
<1>0. Off.loop = "off"
  BY DEF Off, Born
<1>1. Init => FlushedInv
  BY <1>0 DEF Init, FlushedInv
<1>2. TypeInv /\ WriterInv /\ ClockInv /\ FlushedInv /\ [Next]_vars => FlushedInv'
  <2>1. ASSUME Crash PROVE FlushedInv'
    BY <1>0, <2>1 DEF Crash, FlushedInv
  <2>2. ASSUME FlushedInv, UNCHANGED vars PROVE FlushedInv'
    BY <2>2 DEF vars, FlushedInv
  <2> QED
    BY <2>1, <2>2, FlushedStep DEF Next
<1> QED
  BY <1>1, <1>2, TypeAlways, WriterAlways, ClockAlways, PTL DEF Spec

\* A room that dies of itself leaves nothing behind that the row lacks, even
\* one whose load was overtaken.
THEOREM DeadRoomAlwaysFlushed == Spec => DeadRoomIsFlushed
<1>1. TypeInv /\ FlushedInv /\ [Next]_vars =>
        [\A r \in Room :
           room[r].loop = "done" /\ room'[r].loop = "draining" /\ ~room[r].voided
              => room[r].doc \subseteq row.doc]_vars
  BY DEF FlushedInv
<1> QED
  BY <1>1, TypeAlways, FlushedAlways, PTL DEF Spec, DeadRoomIsFlushed

-----------------------------------------------------------------------------
(* The members, as long as the leaves channel has room for every connection. *)
(* A departure that finds it full is lost, and the member stays a phantom.  *)

\* A room that was told to drop has let its members go, and is not served
\* again.
MembersInv ==
    /\ NoPhantomMember
    /\ \A r \in Room :
          /\ room[r].loop = "select" => room[r].task # "drop"
          /\ room[r].loop = "draining" => room[r].task = "drop"
          /\ room[r].loop = "off" \/ room[r].task = "drop" => room[r].members = {}

RoomForLeaves == IsFiniteSet(Member) /\ Cardinality(Member) <= LeaveBuffer

\* A member that goes finds a place in the channel.
LEMMA LeaveFits ==
    ASSUME RoomForLeaves, TypeInv, NEW c \in Client, NEW r \in Room,
           client[c].pc = "in", client[c].room = r
    PROVE  ~(Cardinality(Waiting(r, "leaving")) >= LeaveBuffer)
<1> USE BoundsAssumption
<1> DEFINE L == Waiting(r, "leaving")
<1>1. c \in Member /\ c \notin L
  BY DEF TypeInv, HoldsBatch, HoldsIt, Client, Waiting
<1>2. L \subseteq Member
  BY DEF TypeInv, HoldsBatch, HoldsIt, Client, Waiting
<1> HIDE DEF L
<1>3. L \subseteq Member \ {c} /\ IsFiniteSet(Member \ {c})
      /\ Cardinality(Member \ {c}) = Cardinality(Member) - 1
  BY <1>1, <1>2, FS_RemoveElement DEF RoomForLeaves
<1>4. Cardinality(L) <= Cardinality(Member \ {c}) /\ IsFiniteSet(L)
  BY <1>3, FS_Subset
<1>5. Cardinality(L) \in Nat /\ Cardinality(Member) \in Nat
  BY <1>4, FS_CardinalityType DEF RoomForLeaves
<1>6. ~(Cardinality(L) >= LeaveBuffer)
  BY <1>3, <1>4, <1>5 DEF RoomForLeaves
<1> QED
  BY <1>6 DEF L

\* What the step of a handler that is in a room makes of it.
LEMMA MemberMoves ==
    ASSUME RoomForLeaves, TypeInv, MembersInv, NEW c \in Client, Handler(c),
           NEW r \in Room, c \in room[r].members
    PROVE  client'[c].room = r /\ client'[c].pc \in {"in", "queued", "leaving"}
<1> USE CanvasAssumption
<1>0. /\ client \in [Client -> ClientValue] /\ client[c] \in ClientValue
      /\ c \in Member /\ c \notin Poster
      /\ client[c].room = r
      /\ client[c].pc \in {"in", "queued", "leaving"}
      /\ room[r].loop # "off"
  BY DEF TypeInv, TypeOK, MembersInv, NoPhantomMember, RoomValue
<1>1. client[c].pc = "in"
  <2>1. PICK v : HandlerMoves(c, v)
    BY HandlerIsMove
  <2> QED
    BY <1>0, <2>1 DEF HandlerMoves
<1>2. MemberSubmits(c) \/ Leave(c)
  BY <1>1 DEF Handler, Lookup, LoadRow, LoadHead, LoadTail, LoseRace, Post, Join,
                UpgradeFails
<1>3. CASE MemberSubmits(c)
  <2>1. PICK o \in Fresh : Submit(c, o)
    BY <1>3 DEF MemberSubmits
  <2>2. CASE client' = [client EXCEPT ![c] = Answered(c)]
    BY <1>0, <2>2 DEF Answered, ClientValue
  <2>3. CASE client' = [client EXCEPT ![c] = [@ EXCEPT !.pc = "queued", !.op = o]]
    BY <1>0, <2>3 DEF ClientValue
  <2> QED
    BY <2>1, <2>2, <2>3 DEF Submit
<1>4. CASE Leave(c)
  <2>1. client' = [client EXCEPT ![c] = [@ EXCEPT !.pc = "leaving"]]
    BY <1>0, <1>1, <1>4, LeaveFits DEF Leave
  <2> QED
    BY <1>0, <2>1 DEF ClientValue
<1> QED
  BY <1>2, <1>3, <1>4

\* What a step of the loop makes of the members and of its task.
LEMMA LoopMembers ==
    ASSUME TypeInv, MembersInv, NEW r \in Room, LoopMoves(r)
    PROVE  /\ \A q \in Room : q # r => room'[q] = room[q]
           /\ client' = client
           /\ room'[r].members \subseteq room[r].members
           /\ room'[r].loop = "select" => room'[r].task # "drop"
           /\ room'[r].loop = "draining" => room'[r].task = "drop"
           /\ room'[r].loop = "off" \/ room'[r].task = "drop" => room'[r].members = {}
<1>0. /\ room \in [Room -> RoomValue] /\ room[r] \in RoomValue
      /\ room[r].loop = "select" => room[r].task # "drop"
      /\ room[r].loop = "draining" => room[r].task = "drop"
      /\ room[r].loop = "off" \/ room[r].task = "drop" => room[r].members = {}
  BY DEF TypeInv, TypeOK, MembersInv
<1>1. CASE ServeTick(r)
  BY <1>0, <1>1 DEF ServeTick, RoomValue, Selecting
<1>2. CASE ServeDrop(r)
  BY <1>0, <1>2 DEF ServeDrop, RoomValue, Selecting
<1>3. CASE CheckpointReads(r)
  BY <1>0, <1>3 DEF CheckpointReads, RoomValue
<1>4. CASE AfterTick(r)
  BY <1>0, <1>4 DEF AfterTick, Resume, RoomValue
<1>5. CASE AfterLeave(r)
  BY <1>0, <1>5 DEF AfterLeave, Resume, RoomValue
<1>6. CASE IdleFires(r)
  BY <1>0, <1>6 DEF IdleFires, RoomValue
<1>7. CASE IdleDrops(r)
  BY <1>0, <1>7 DEF IdleDrops, RoomValue
<1>8. CASE TickFires(r)
  BY <1>0, <1>8 DEF TickFires, RoomValue
<1> QED
  BY <1>1, <1>2, <1>3, <1>4, <1>5, <1>6, <1>7, <1>8 DEF LoopMoves, Timer

\* One room moves: what the invariant asks of it.
LEMMA MembersMove ==
    ASSUME MembersInv, NEW r \in Room, \A q \in Room : q # r => room'[q] = room[q],
           room'[r].loop = "select" => room'[r].task # "drop",
           room'[r].loop = "draining" => room'[r].task = "drop",
           room'[r].loop = "off" \/ room'[r].task = "drop" => room'[r].members = {},
           \A q \in Room : \A m \in room'[q].members :
               client'[m].room = q /\ client'[m].pc \in {"in", "queued", "leaving"}
    PROVE  MembersInv'
  BY DEF MembersInv, NoPhantomMember

LEMMA ServeMembers ==
    ASSUME TypeInv, MembersInv, NEW r \in Room, NEW c \in Client, Serve(r, c)
    PROVE  MembersInv'
<1> USE CanvasAssumption
<1>0. /\ room \in [Room -> RoomValue] /\ room[r] \in RoomValue
      /\ client \in [Client -> ClientValue]
      /\ client[c] \in ClientValue /\ HoldsIt(c, client[c])
      /\ room[r].loop = "select" => room[r].task # "drop"
      /\ \A q \in Room : \A m \in room[q].members :
             /\ m \in Member /\ m \in Client
             /\ client[m].room = q /\ client[m].pc \in {"in", "queued", "leaving"}
  BY DEF TypeInv, TypeOK, HoldsBatch, MembersInv, NoPhantomMember, RoomValue, Client
<1>1. /\ \A q \in Room : q # r => room'[q] = room[q]
      /\ room[r].loop = "select" /\ room[r].task # "drop"
  BY <1>0, ServeKeepsLife DEF KeepsLife
<1>2. ASSUME NEW x, room' = [room EXCEPT ![r] = x],
             x.loop \in {"select", "ckpt"}, x.task # "drop",
             x.members \subseteq room[r].members \cup {c},
             \A m \in x.members : client'[m].room = r
                                  /\ client'[m].pc \in {"in", "queued", "leaving"},
             \A d \in Client : d # c => client'[d] = client[d],
             \A q \in Room : q # r => c \notin room[q].members
      PROVE  MembersInv'
  <2>1. room'[r] = x
    BY <1>0, <1>2
  <2> QED
    BY <1>0, <1>1, <1>2, <2>1, MembersMove
<1>3. client[c].room = r => \A q \in Room : q # r => c \notin room[q].members
  BY <1>0
<1>4. c \in Member => Answered(c).room = client[c].room /\ Answered(c).pc = "in"
  BY <1>0 DEF Answered, ClientValue
<1>5. c \in Poster => c \notin room[r].members
  BY <1>0
<1>6. CASE RefuseSubmit(r, c)
  <2>1. /\ room' = room /\ client[c].room = r
        /\ client' = [client EXCEPT ![c] = Answered(c)]
    BY <1>6 DEF RefuseSubmit, Waiting
  <2>2. /\ client'[c] = Answered(c)
        /\ \A d \in Client : d # c => client'[d] = client[d]
    BY <1>0, <2>1
  <2>3. \A q \in Room : \A m \in room'[q].members :
            client'[m].room = q /\ client'[m].pc \in {"in", "queued", "leaving"}
    BY <1>0, <1>3, <1>4, <2>1, <2>2
  <2> QED
    BY <2>1, <2>3, MembersMove DEF MembersInv
<1>7. CASE ServeJoin(r, c)
  <2> DEFINE y == [room[r] EXCEPT !.members = room[r].members \cup {c}]
             x == CancelIdle(y)
  <2>1. /\ room' = [room EXCEPT ![r] = x] /\ client[c].room = r
        /\ client' = [client EXCEPT ![c].pc = "in"]
    BY <1>7 DEF ServeJoin, Waiting
  <2>2. /\ x.loop = room[r].loop /\ x.task = room[r].task
        /\ x.members = room[r].members \cup {c}
    BY <1>0 DEF CancelIdle, RoomValue
  <2> HIDE DEF x
  <2>3. /\ client'[c].pc = "in" /\ client'[c].room = r
        /\ \A d \in Client : d # c => client'[d] = client[d]
    BY <1>0, <2>1 DEF ClientValue
  <2>4. \A m \in x.members : client'[m].room = r
                             /\ client'[m].pc \in {"in", "queued", "leaving"}
    BY <1>0, <2>2, <2>3
  <2> QED
    BY <1>1, <1>2, <1>3, <2>1, <2>2, <2>3, <2>4
<1>8. CASE ServeMember(r, c)
  <2> DEFINE x == ArmTick(CancelIdle(Folded(room[r], client[c].op)))
  <2>1. /\ room' = [room EXCEPT ![r] = x] /\ client[c].room = r
        /\ client' = [client EXCEPT ![c] = Answered(c)] /\ c \in Member
    BY <1>8 DEF ServeMember, Waiting
  <2>2. x.loop = room[r].loop /\ x.task = room[r].task /\ x.members = room[r].members
    BY <1>0 DEF ArmTick, CancelIdle, Folded, RoomValue
  <2> HIDE DEF x
  <2>3. /\ client'[c] = Answered(c)
        /\ \A d \in Client : d # c => client'[d] = client[d]
    BY <1>0, <2>1
  <2>4. \A m \in x.members : client'[m].room = r
                             /\ client'[m].pc \in {"in", "queued", "leaving"}
    BY <1>0, <1>4, <2>1, <2>2, <2>3
  <2> QED
    BY <1>1, <1>2, <1>3, <2>1, <2>2, <2>3, <2>4
<1>9. CASE ServePoster(r, c)
  <2> DEFINE x == [Folded(room[r], client[c].op)
                    EXCEPT !.loop = "ckpt", !.task = "submit", !.client = c]
  <2>1. /\ room' = [room EXCEPT ![r] = x] /\ client[c].room = r
        /\ \A d \in Client : d # c => client'[d] = client[d]
        /\ c \in Poster
    BY <1>0, <1>9 DEF ServePoster, Waiting
  <2>2. x.loop = "ckpt" /\ x.task = "submit" /\ x.members = room[r].members
    BY <1>0 DEF Folded, RoomValue
  <2> HIDE DEF x
  <2>3. \A m \in x.members : client'[m].room = r
                             /\ client'[m].pc \in {"in", "queued", "leaving"}
    BY <1>0, <1>5, <2>1, <2>2
  <2> QED
    BY <1>2, <1>3, <2>1, <2>2, <2>3
<1>10. CASE ServeLeave(r, c)
  <2> DEFINE left == room[r].members \ {c}
             x == IF c \in room[r].members /\ left = {}
                  THEN [room[r] EXCEPT !.members = left, !.loop = "ckpt", !.task = "leave"]
                  ELSE [room[r] EXCEPT !.members = left]
  <2>1. /\ room' = [room EXCEPT ![r] = x] /\ client[c].room = r
        /\ \A d \in Client : d # c => client'[d] = client[d]
    BY <1>0, <1>10 DEF ServeLeave, Waiting
  <2>2. /\ x.loop \in {"select", "ckpt"} /\ x.task # "drop"
        /\ x.members = room[r].members \ {c}
    BY <1>0, <1>1 DEF RoomValue
  <2> HIDE DEF x
  <2>3. \A m \in x.members : client'[m].room = r
                             /\ client'[m].pc \in {"in", "queued", "leaving"}
    BY <1>0, <2>1, <2>2
  <2> QED
    BY <1>2, <1>3, <2>1, <2>2, <2>3
<1> QED
  BY <1>6, <1>7, <1>8, <1>9, <1>10 DEF Serve

LEMMA MembersStep ==
    ASSUME RoomForLeaves, TypeInv, MembersInv, Step
    PROVE  MembersInv'
<1> USE CanvasAssumption
<1>0. /\ room \in [Room -> RoomValue] /\ client \in [Client -> ClientValue]
      /\ \A q \in Room :
            /\ room[q].loop = "select" => room[q].task # "drop"
            /\ room[q].loop = "draining" => room[q].task = "drop"
            /\ room[q].loop = "off" \/ room[q].task = "drop" => room[q].members = {}
            /\ \A m \in room[q].members :
                  /\ m \in Member /\ m \in Client
                  /\ client[m].room = q /\ client[m].pc \in {"in", "queued", "leaving"}
  BY DEF TypeInv, TypeOK, MembersInv, NoPhantomMember, RoomValue, Client
<1>1. ASSUME NEW c \in Client, Handler(c) PROVE MembersInv'
  <2>1. PICK v : HandlerMoves(c, v)
    BY <1>1, HandlerIsMove
  <2>2. room' = room /\ \A d \in Client : d # c => client'[d] = client[d]
    BY <1>0, <2>1 DEF HandlerMoves, ClientMoves
  <2>3. \A q \in Room : \A m \in room'[q].members :
            client'[m].room = q /\ client'[m].pc \in {"in", "queued", "leaving"}
    BY <1>0, <1>1, <2>2, MemberMoves
  <2> QED
    BY <2>2, <2>3 DEF MembersInv, NoPhantomMember
<1>2. ASSUME NEW c \in Client, Register(c) PROVE MembersInv'
  <2>1. PICK r \in Room :
              /\ room'[r] = Born(client[c].doc, client[c].head)
              /\ \A q \in Room : q # r => room'[q] = room[q]
              /\ client[c].pc = "built"
              /\ Have(c, r)
    BY <1>2, RegisterBirth
  <2>2. room'[r].loop = "select" /\ room'[r].task = "none" /\ room'[r].members = {}
    BY <2>1 DEF Born
  <2>3. \A d \in Client : d # c => client'[d] = client[d]
    BY <1>0, <2>1 DEF Have
  <2>4. \A q \in Room : \A m \in room'[q].members :
            client'[m].room = q /\ client'[m].pc \in {"in", "queued", "leaving"}
    BY <1>0, <2>1, <2>2, <2>3
  <2> QED
    BY <2>1, <2>2, <2>4, MembersMove
<1>3. ASSUME NEW r \in Room, LoopMoves(r) PROVE MembersInv'
  <2>1. \A q \in Room : \A m \in room'[q].members :
            client'[m].room = q /\ client'[m].pc \in {"in", "queued", "leaving"}
    BY <1>0, <1>3, LoopMembers
  <2> QED
    BY <1>3, <2>1, LoopMembers, MembersMove
<1>4. ASSUME NEW r \in Room, NEW l \in {"wrote", "folded", "done", "draining"},
             client' = client, room[r].loop \in Loop \ {"off"},
             \A q \in Room : q # r => room'[q] = room[q],
             room'[r].loop = l, room'[r].members = room[r].members,
             room'[r].task = room[r].task, l = "draining" => room[r].task = "drop"
      PROVE  MembersInv'
  <2>1. \A q \in Room : \A m \in room'[q].members :
            client'[m].room = q /\ client'[m].pc \in {"in", "queued", "leaving"}
    BY <1>0, <1>4
  <2> QED
    BY <1>0, <1>4, <2>1, MembersMove
<1>5. ASSUME NEW r \in Room, CheckpointWrites(r) PROVE MembersInv'
  BY <1>0, <1>4, <1>5 DEF CheckpointWrites, RoomValue
<1>6. ASSUME NEW r \in Room, CheckpointFolds(r) PROVE MembersInv'
  BY <1>0, <1>4, <1>6 DEF CheckpointFolds, RoomValue
<1>7. ASSUME NEW r \in Room, CheckpointTrims(r) PROVE MembersInv'
  <2> DEFINE kept == {e \in journal : e.seq > room[r].latest}
             g == IF room[r].gc >= GCThreshold /\ kept # journal THEN 0 ELSE room[r].gc
  <2>1. /\ room' = [room EXCEPT ![r] = [room[r] EXCEPT !.loop = "done", !.gc = g]]
        /\ client' = client /\ room[r].loop = "folded"
    BY <1>7 DEF CheckpointTrims
  <2> HIDE DEF g
  <2> QED
    BY <1>0, <1>4, <2>1 DEF RoomValue, Loop
<1>8. ASSUME NEW r \in Room, Unregister(r) PROVE MembersInv'
  BY <1>0, <1>4, <1>8 DEF Unregister, RoomValue
<1>9. ASSUME NEW r \in Room, ReplyToPoster(r) PROVE MembersInv'
  <2> DEFINE c == room[r].client
             y == IF room[r].members = {} THEN ArmIdle(room[r]) ELSE room[r]
  <2>1. /\ client' = [client EXCEPT ![c] = Absent] /\ room[r].task = "submit"
        /\ room' = [room EXCEPT ![r] = Resume(y)]
    BY <1>9 DEF ReplyToPoster
  <2>2. c \in Poster
    BY <2>1 DEF TypeInv, ServesPoster
  <2>3. y \in RoomValue /\ y.members = room[r].members
    BY <1>0 DEF ArmIdle, RoomValue
  <2> HIDE DEF y
  <2>4. Resume(y).loop = "select" /\ Resume(y).task = "none" /\ Resume(y).members = room[r].members
    BY <2>3 DEF Resume, RoomValue
  <2>5. room'[r] = Resume(y) /\ \A q \in Room : q # r => room'[q] = room[q]
    BY <1>0, <2>1
  <2>6. \A d \in Client : d # c => client'[d] = client[d]
    BY <1>0, <2>1
  <2>7. \A q \in Room : \A m \in room'[q].members :
            client'[m].room = q /\ client'[m].pc \in {"in", "queued", "leaving"}
    BY <1>0, <2>2, <2>4, <2>5, <2>6
  <2> QED
    BY <2>4, <2>5, <2>7, MembersMove
<1>10. ASSUME NEW r \in Room, Drain(r) PROVE MembersInv'
  <2>1. /\ room'[r] = Off /\ Off.loop = "off" /\ Off.members = {}
        /\ \A q \in Room : q # r => room'[q] = room[q]
    BY <1>10, DrainEnds DEF Off, Born
  <2>2. ASSUME NEW d \in Client, client[d].room # r PROVE client'[d] = client[d]
    BY <1>10, <2>2 DEF Drain, Waiting
  <2>3. \A q \in Room : \A m \in room'[q].members :
            client'[m].room = q /\ client'[m].pc \in {"in", "queued", "leaving"}
    BY <1>0, <2>1, <2>2
  <2> QED
    BY <2>1, <2>3, MembersMove
<1> QED
  BY <1>1, <1>2, <1>3, <1>5, <1>6, <1>7, <1>8, <1>9, <1>10, StepKinds, ServeMembers

\* Nobody is in a room without a connection, however members and the room
\* itself come and go, while the leaves channel holds every connection.
THEOREM NoPhantoms == ASSUME RoomForLeaves PROVE Spec => []NoPhantomMember
<1>0. Off.loop = "off" /\ Off.members = {} /\ Off.task = "none"
  BY DEF Off, Born
<1>1. Init => MembersInv
  BY <1>0 DEF Init, MembersInv, NoPhantomMember
<1>2. TypeInv /\ MembersInv /\ [Next]_vars => MembersInv'
  <2>1. ASSUME Crash PROVE MembersInv'
    BY <1>0, <2>1 DEF Crash, MembersInv, NoPhantomMember
  <2>2. ASSUME MembersInv, UNCHANGED vars PROVE MembersInv'
    BY <2>2 DEF vars, MembersInv, NoPhantomMember
  <2> QED
    BY <2>1, <2>2, MembersStep DEF Next
<1>3. MembersInv => NoPhantomMember
  BY DEF MembersInv
<1> QED
  BY <1>1, <1>2, <1>3, TypeAlways, PTL DEF Spec
=============================================================================
