---------------------------- MODULE CanvasClient ----------------------------
(***************************************************************************)
(* A guest of a shared canvas: web/collabcore.js (diffDocs, applyOpToDoc,  *)
(* CollabTransport, SharedDocSession) under the adapter of web/app.js.     *)
(*                                                                         *)
(* A doc maps each icon to its one value, or Absent.  The session derives  *)
(* ops from the distance between its world and its baseline, ships them    *)
(* over the socket or, while that is not open, over HTTP, and applies what *)
(* the others did.  The room is seen from outside: a journal that stamps,  *)
(* a doc that folds (CanvasRoom looks inside), and other devices that      *)
(* submit whatever they like.  The device is a guest, which never PUTs the *)
(* whole state.  Members, presence, the orbit dots and the doc's two       *)
(* scalar fields are left out.                                             *)
(***************************************************************************)
EXTENDS Integers, FiniteSets, SequencesExt

CONSTANTS
    Icon,          \* ids
    Val,           \* what an icon may hold
    Seed,          \* what the icons of the room hold at first
    Absent,
    MaxEdits,      \* bound: what the user does
    MaxOthers,     \* bound: ops of the other devices
    MaxBreaks,     \* bound: dropped sockets, lost requests, refused batches
    MaxPosts,      \* bound: POSTs in flight at once
    CanTrim        \* the room may garbage-collect the journal

ASSUME CanvasClientAssumption ==
    /\ IsFiniteSet(Icon)
    /\ Seed \in Val /\ Absent \notin Val
    /\ {MaxEdits, MaxOthers, MaxBreaks, MaxPosts} \subseteq Nat
    /\ CanTrim \in BOOLEAN

VARIABLES
    journal,   \* the ops the room has stamped: op i has seq i
    trim,      \* the journal rows up to this seq are gone
    doc,       \* the room's doc
    session,   \* the SharedDocSession
    world,     \* the live world of the page
    conn,      \* the transport: "none", "ladder", "connecting", "open"
    since,     \* the cursor in the URL of a connecting socket
    up, down,  \* the two directions of the socket
    posts,     \* POST /ops in flight
    read,      \* GET /doc or GET /ops in flight
    dirty,     \* icons touched since the last save (scheduleSave)
    edits, others, breaks,   \* counted against the bounds
    used,      \* history: ids the room has heard of
    typed,     \* history: the <<item, value>> pairs the user made
    seen,      \* history: seqs the session has adopted, applied or had acked
    wounds     \* history: what went wrong so far (see Wound)

roomVars == <<journal, trim, doc>>
wire == <<conn, since, up, down>>
history == <<used, typed, seen, wounds>>
vars == <<journal, trim, doc, session, world, conn, since, up, down, posts,
          read, dirty, edits, others, breaks, used, typed, seen, wounds>>

-----------------------------------------------------------------------------
(* Values *)

Doc == [Icon -> Val \cup {Absent}]
Void == [i \in Icon |-> Absent]

\* n is the opId of this device's ops; the others' are 0.  seq 0: not stamped.
OpValue == [kind : {"add", "set", "remove"}, item : Icon,
            val : Val \cup {Absent}, n : Nat, seq : Nat]

Wound == {"lost",      \* a batch never reached the room
          "refused",   \* the room refused a batch
          "late",      \* the room took a batch after a younger one of this device
          "unsent",    \* a save derived no op for an icon the user had touched
          "jumped",    \* an HTTP ack moved the cursor over ops not seen
          "stale",     \* an op was applied after a younger one
          "trimmed"}   \* the replay of a join lacked ops the journal had dropped

Born == [phase |-> "cold", cursor |-> 0, baseline |-> Void, pending |-> {},
         ids |-> {}, n |-> 0]

NoRead == [of |-> "none", doc |-> Void, seq |-> 0, ops |-> <<>>]

TypeOK ==
    /\ journal \in Seq(OpValue) /\ trim \in 0..Len(journal) /\ doc \in Doc
    /\ session \in [phase : {"cold", "live", "inert"}, cursor : 0..Len(journal),
                    baseline : Doc, pending : SUBSET OpValue, ids : SUBSET Nat, n : Nat]
    /\ world \in Doc
    /\ conn \in {"none", "ladder", "connecting", "open"}
    /\ since \in 0..Len(journal)
    /\ up \in Seq(Seq(OpValue))
    /\ down \in Seq([error : BOOLEAN, ops : Seq(OpValue)])
    /\ posts \in SUBSET [ops : Seq(OpValue), done : BOOLEAN]
    /\ read \in [of : {"none", "adopt", "ops", "doc", "gotAdopt", "gotOps", "gotDoc"},
                 doc : Doc, seq : Nat, ops : Seq(OpValue)]
    /\ dirty \subseteq Icon
    /\ edits \in 0..MaxEdits /\ others \in 0..MaxOthers /\ breaks \in 0..MaxBreaks
    /\ used \subseteq Icon /\ typed \subseteq Icon \X (Val \cup {Absent})
    /\ seen \subseteq 1..Len(journal) /\ wounds \subseteq Wound
    \* every pending op can still be told from a foreign one by its opId
    /\ {p.n : p \in session.pending} \subseteq session.ids

-----------------------------------------------------------------------------
(* The pure core: docs and ops *)

\* applyOpToDoc, FoldOp's twin: an add never doubles, a set never resurrects.
Apply(d, op) ==
    CASE op.kind = "add" /\ d[op.item] = Absent -> [d EXCEPT ![op.item] = op.val]
      [] op.kind = "set" /\ d[op.item] # Absent -> [d EXCEPT ![op.item] = op.val]
      [] op.kind = "remove" -> [d EXCEPT ![op.item] = Absent]
      [] OTHER -> d

\* The op that takes an item from one value to another.
Move(i, from, to, n) ==
    [kind |-> IF from = Absent THEN "add" ELSE IF to = Absent THEN "remove" ELSE "set",
     item |-> i, val |-> to, n |-> n, seq |-> 0]

\* diffDocs: the batch that takes doc a to doc b, numbered from n + 1.
Diff(a, b, n) ==
    LET moved == SetToSeq({i \in Icon : a[i] # b[i]})
    IN  [k \in DOMAIN moved |-> Move(moved[k], a[moved[k]], b[moved[k]], n + k)]

\* applyOpsToDoc.
ApplyAll(d, ops) ==
    LET after[k \in 0..Len(ops)] == IF k = 0 THEN d ELSE Apply(after[k - 1], ops[k])
    IN  after[Len(ops)]

-----------------------------------------------------------------------------
(* The world, as the session reaches it through the adapter *)

\* What the page holds, as one record the frames of a batch are folded over.
Page == [s |-> session, w |-> world, seen |-> seen, wounds |-> wounds]

Show(p) ==
    /\ session' = p.s
    /\ world' = p.w
    /\ seen' = p.seen
    /\ wounds' = p.wounds

\* adapter.applyOp: collabApplyOp keeps FoldOp's laws.
ToWorld(p, op) == [p EXCEPT !.w = Apply(@, op)]

-----------------------------------------------------------------------------
(* SharedDocSession: what arrives *)

Top(S) == IF S = {} THEN 0 ELSE CHOOSE k \in S : \A j \in S : j <= k

Later(a, b) == IF a < b THEN b ELSE a

\* incoming, when the op is one of this device's that waits for its ack.
Acked(p, op) ==
    [p EXCEPT !.s.cursor = Later(@, op.seq),
              !.s.ids = @ \ {op.n},
              !.s.pending = {q \in @ : q.n # op.n},
              !.seen = @ \cup {op.seq}]

\* Mutant: no skip law.
CoveredNever(pending, op) == FALSE

\* remoteWithoutPending: what this device is about to say of the item wins.
Covered(pending, op) ==
    \E q \in pending :
        /\ q.item = op.item
        /\ q.kind = op.kind \/ (op.kind = "set" /\ q.kind = "add")

\* incoming, for everyone else's op: the world takes it unless covered, the
\* baseline always does.
Foreign(p, op) ==
    LET heard == [p EXCEPT !.s.cursor = Later(@, op.seq),
                           !.s.baseline = Apply(@, op),
                           !.seen = @ \cup {op.seq}]
        shown == IF Covered(p.s.pending, op) THEN heard ELSE ToWorld(heard, op)
    IN  [shown EXCEPT !.wounds = @ \cup
            IF op.seq <= Top(p.seen) /\ shown.w # p.w THEN {"stale"} ELSE {}]

Incoming(p, op) == IF op.n \in p.s.ids THEN Acked(p, op) ELSE Foreign(p, op)

\* handleFrame's loop over the ops of a frame, and rebase's over the journal's.
IncomingAll(p, ops) ==
    LET after[k \in 0..Len(ops)] == IF k = 0 THEN p ELSE Incoming(after[k - 1], ops[k])
    IN  after[Len(ops)]

\* ackFrame: the walk over the answer of a POST.
AckFrame(p, op) ==
    LET heard == [p EXCEPT !.s.cursor = Later(@, op.seq),
                           !.seen = @ \cup {op.seq},
                           !.wounds = @ \cup IF (p.s.cursor + 1)..(op.seq - 1) \subseteq p.seen
                                             THEN {} ELSE {"jumped"}]
    IN  IF op.n \in p.s.ids THEN Acked(heard, op) ELSE heard

AckFrameAll(p, ops) ==
    LET after[k \in 0..Len(ops)] == IF k = 0 THEN p ELSE AckFrame(after[k - 1], ops[k])
    IN  after[Len(ops)]

-----------------------------------------------------------------------------
(* SharedDocSession: what leaves *)

\* submit: the socket if it is open, else the HTTP path.
Submit(ops) ==
    IF conn = "open"
    THEN up' = Append(up, ops) /\ UNCHANGED posts
    ELSE /\ Cardinality(posts) < MaxPosts
         /\ posts' = posts \cup {[ops |-> ops, done |-> FALSE]}
         /\ UNCHANGED up

\* saveNow and capture: the baseline takes the batch before it is sent.  The
\* body memo is no guard here: a pan changes the body.
Save ==
    /\ dirty' = {}
    /\ wounds' = wounds \cup
         IF session.phase = "live" /\ \E i \in dirty : world[i] = session.baseline[i]
         THEN {"unsent"} ELSE {}
    /\ LET ops == Diff(session.baseline, world, session.n)
       IN  IF session.phase # "live" \/ ops = <<>>
           THEN dirty # {} /\ UNCHANGED <<session, up, posts>>
           ELSE /\ session' = [session EXCEPT !.baseline = world, !.n = @ + Len(ops),
                                              !.pending = @ \cup Range(ops),
                                              !.ids = @ \cup {o.n : o \in Range(ops)}]
                /\ Submit(ops)
    /\ UNCHANGED <<roomVars, world, conn, since, down, read, edits, others,
                   breaks, used, typed, seen>>

-----------------------------------------------------------------------------
(* SharedDocSession: adoption and rebase *)

\* activate asks for the doc.
Activate ==
    /\ session.phase = "cold" /\ read.of = "none"
    /\ read' = [NoRead EXCEPT !.of = "adopt"]
    /\ UNCHANGED <<roomVars, session, world, wire, posts, dirty, edits,
                   others, breaks, history>>

\* The catch-up: the world is taken to the server's doc, op by op.
CaughtUp(p, target) == [p EXCEPT !.w = ApplyAll(@, Diff(@, target, 0))]

\* Mutant: the drift is taken from the world before the catch-up.
AdoptStaleDrift ==
    /\ read.of = "gotAdopt"
    /\ read' = NoRead
    /\ LET adopted == [Page EXCEPT !.s.phase = "live", !.s.cursor = read.seq,
                                   !.s.baseline = read.doc,
                                   !.seen = 1..read.seq]
           caught == CaughtUp(adopted, read.doc)
           drift == Diff(read.doc, world, session.n)
       IN  /\ Show([caught EXCEPT !.s.n = @ + Len(drift),
                                  !.s.ids = @ \cup {o.n : o \in Range(drift)}])
           /\ IF drift = <<>> THEN UNCHANGED <<up, posts>> ELSE Submit(drift)
           /\ conn' = "connecting"
           /\ since' = read.seq
    /\ UNCHANGED <<roomVars, down, dirty, edits, others, breaks, used, typed>>

\* activate goes on: adopt, catch up, submit the drift that is left, connect.
Adopt ==
    /\ read.of = "gotAdopt"
    /\ read' = NoRead
    /\ LET adopted == [Page EXCEPT !.s.phase = "live", !.s.cursor = read.seq,
                                   !.s.baseline = read.doc,
                                   !.seen = 1..read.seq]
           caught == CaughtUp(adopted, read.doc)
           drift == Diff(read.doc, caught.w, session.n)
       IN  /\ Show([caught EXCEPT !.s.n = @ + Len(drift),
                                  !.s.ids = @ \cup {o.n : o \in Range(drift)}])
           /\ IF drift = <<>> THEN UNCHANGED <<up, posts>> ELSE Submit(drift)
           /\ conn' = "connecting"
           /\ since' = read.seq
    /\ UNCHANGED <<roomVars, down, dirty, edits, others, breaks, used, typed>>

\* rebase, the journal serves the gap: each op as if it had just arrived,
\* then nothing is pending any more.
RebaseOps ==
    /\ read.of = "gotOps"
    /\ read' = NoRead
    /\ LET heard == IncomingAll(Page, read.ops)
       IN  Show([heard EXCEPT !.s.pending = {}, !.s.ids = {}])
    /\ UNCHANGED <<roomVars, wire, posts, dirty, edits, others, breaks, used, typed>>

\* rebase, the journal cannot: the doc is adopted whole.
RebaseSnapshot ==
    /\ read.of = "gotDoc"
    /\ read' = NoRead
    /\ Show(CaughtUp([Page EXCEPT !.s.cursor = IF read.seq = 0 THEN @ ELSE read.seq,
                                  !.s.baseline = read.doc,
                                  !.s.pending = {}, !.s.ids = {},
                                  !.seen = @ \cup 1..read.seq], read.doc))
    /\ UNCHANGED <<roomVars, wire, posts, dirty, edits, others, breaks, used, typed>>

\* GET /doc, GET /ops?since= (inclusive), or the redirect to the snapshot.
ServeRead ==
    /\ \/ /\ read.of \in {"adopt", "doc"}
          /\ read' = [NoRead EXCEPT !.of = IF read.of = "adopt" THEN "gotAdopt" ELSE "gotDoc",
                                    !.doc = doc, !.seq = Len(journal)]
       \/ /\ read.of = "ops"
          /\ read' =
               IF trim < Len(journal) /\ read.seq > 0 /\ read.seq <= trim
               THEN [NoRead EXCEPT !.of = "doc"]
               ELSE [NoRead EXCEPT !.of = "gotOps",
                        !.ops = SubSeq(journal, Later(read.seq, trim + 1), Len(journal))]
    /\ UNCHANGED <<roomVars, session, world, wire, posts, dirty, edits,
                   others, breaks, history>>

\* The GET fails: an adoption is over for good, a rebase leaves all as it was.
ReadFails ==
    /\ read.of \notin {"none"} /\ breaks < MaxBreaks
    /\ breaks' = breaks + 1
    /\ read' = NoRead
    /\ session' = IF read.of \in {"adopt", "gotAdopt"}
                  THEN [session EXCEPT !.phase = "inert"] ELSE session
    /\ UNCHANGED <<roomVars, world, wire, posts, dirty, edits, others, history>>

-----------------------------------------------------------------------------
(* The socket *)

\* Mutant: the room replays nothing.
JoinFromNow ==
    /\ conn = "connecting"
    /\ conn' = "open" /\ since' = 0
    /\ down' = <<>>
    /\ wounds' = wounds \cup IF since < trim THEN {"trimmed"} ELSE {}
    /\ UNCHANGED <<roomVars, session, world, up, posts, read, dirty,
                   edits, others, breaks, used, typed, seen>>

\* The upgrade, the room's handleJoin with its replay, and the hello.
Join ==
    /\ conn = "connecting"
    /\ conn' = "open" /\ since' = 0
    /\ LET replay == SubSeq(journal, Later(since, trim) + 1, Len(journal))
       IN  down' = IF replay = <<>> THEN <<>> ELSE <<[error |-> FALSE, ops |-> replay]>>
    /\ wounds' = wounds \cup IF since < trim THEN {"trimmed"} ELSE {}
    /\ UNCHANGED <<roomVars, session, world, up, posts, read, dirty,
                   edits, others, breaks, used, typed, seen>>

\* onclose, and scheduleReconnect.
Drop ==
    /\ conn \in {"connecting", "open"} /\ breaks < MaxBreaks
    /\ breaks' = breaks + 1
    /\ conn' = "ladder"
    /\ up' = <<>> /\ down' = <<>>
    /\ wounds' = wounds \cup IF up = <<>> THEN {} ELSE {"lost"}
    /\ UNCHANGED <<roomVars, session, world, since, posts, read, dirty,
                   edits, others, used, typed, seen>>

\* connect, from the ladder's timer.
LadderFires ==
    /\ conn = "ladder"
    /\ conn' = "connecting"
    /\ since' = session.cursor
    /\ UNCHANGED <<roomVars, session, world, up, down, posts, read, dirty,
                   edits, others, breaks, history>>

\* handleFrame.
Receive ==
    /\ down # <<>>
    /\ down' = Tail(down)
    /\ IF Head(down).error
       THEN /\ read.of = "none"     \* bound: one rebase at a time
            /\ read' = [NoRead EXCEPT !.of = "ops", !.seq = session.cursor]
            /\ UNCHANGED <<session, world, seen, wounds>>
       ELSE /\ Show(IncomingAll(Page, Head(down).ops))
            /\ UNCHANGED read
    /\ UNCHANGED <<roomVars, conn, since, up, posts, dirty, edits, others, breaks,
                   used, typed>>

-----------------------------------------------------------------------------
(* The room, from outside *)

\* handleSubmit refuses a batch whole: 400, or 413 when the doc would outgrow
\* its cap.
Refuse ==
    /\ breaks < MaxBreaks
    /\ breaks' = breaks + 1
    /\ wounds' = wounds \cup {"refused"}
    /\ UNCHANGED <<journal, doc, used>>

\* A batch is stamped, folded and broadcast, this member included.
Stamp(ops) == [k \in DOMAIN ops |-> [ops[k] EXCEPT !.seq = Len(journal) + k]]

Broadcast(frame) == down' = IF conn = "open" THEN Append(down, frame) ELSE down

TakeBatch(ops) ==
    /\ journal' = journal \o Stamp(ops)
    /\ doc' = ApplyAll(doc, ops)
    /\ Broadcast([error |-> FALSE, ops |-> Stamp(ops)])
    /\ wounds' = wounds \cup
         IF \E o \in Range(ops), j \in Range(journal) : j.n > o.n /\ o.n > 0
         THEN {"late"} ELSE {}
    /\ used' = used \cup {o.item : o \in Range(ops)}
    /\ UNCHANGED breaks

\* The read pump of the socket.
TakeFrame ==
    /\ up # <<>>
    /\ up' = Tail(up)
    /\ \/ TakeBatch(Head(up))
       \/ Refuse /\ Broadcast([error |-> TRUE, ops |-> <<>>])
    /\ UNCHANGED <<trim, session, world, conn, since, posts, read, dirty,
                   edits, others, typed, seen>>

\* POST /ops; a refusal is swallowed by the catch.
TakePost ==
    \E p \in posts :
        /\ ~p.done
        /\ \/ /\ posts' = (posts \ {p}) \cup {[ops |-> Stamp(p.ops), done |-> TRUE]}
              /\ TakeBatch(p.ops)
           \/ /\ Refuse
              /\ posts' = posts \ {p}
              /\ UNCHANGED down
        /\ UNCHANGED <<trim, session, world, conn, since, up, read, dirty,
                       edits, others, typed, seen>>

PostAnswered ==
    \E p \in posts :
        /\ p.done
        /\ posts' = posts \ {p}
        /\ Show(AckFrameAll(Page, p.ops))
        /\ UNCHANGED <<roomVars, wire, read, dirty, edits, others, breaks, used, typed>>

\* The request or its answer is lost.
PostFails ==
    /\ breaks < MaxBreaks
    /\ breaks' = breaks + 1
    /\ \E p \in posts :
        /\ posts' = posts \ {p}
        /\ wounds' = wounds \cup IF p.done THEN {} ELSE {"lost"}
    /\ UNCHANGED <<roomVars, session, world, wire, read, dirty, edits,
                   others, used, typed, seen>>

\* checkpointNow's garbage collection.
Trim ==
    /\ CanTrim /\ trim < Len(journal)
    /\ trim' = Len(journal)
    /\ UNCHANGED <<journal, doc, session, world, wire, posts, read, dirty,
                   edits, others, breaks, history>>

\* The ids this device has made up.
Minted == {t[1] : t \in typed}

\* Another device: it may speak of what is gone, but mints its own ids.
Others ==
    /\ others < MaxOthers
    /\ others' = others + 1
    /\ \E i \in Icon, v \in Val \cup {Absent} :
         LET op == [kind |-> IF i \notin used THEN "add"
                             ELSE IF v = Absent THEN "remove" ELSE "set",
                    item |-> i, val |-> v, n |-> 0, seq |-> 0]
         IN  /\ i \notin used => v # Absent /\ i \notin Minted
             /\ TakeBatch(<<op>>)
    /\ UNCHANGED <<trim, session, world, conn, since, up, posts, read, dirty,
                   edits, typed, seen>>

-----------------------------------------------------------------------------
(* The user *)

\* Add, change or remove an icon of the world.
Edit ==
    /\ edits < MaxEdits
    /\ edits' = edits + 1
    /\ \E i \in Icon, v \in Val \cup {Absent} :
         /\ v # world[i]
         /\ world[i] = Absent => i \notin used \cup Minted
         /\ world' = [world EXCEPT ![i] = v]
         /\ dirty' = dirty \cup {i}
         /\ typed' = typed \cup {<<i, v>>}
    /\ UNCHANGED <<roomVars, session, wire, posts, read, others, breaks,
                   used, seen, wounds>>

-----------------------------------------------------------------------------

Init ==
    /\ used \in SUBSET Icon
    /\ doc = [i \in Icon |-> IF i \in used THEN Seed ELSE Absent]
    /\ journal = <<>> /\ trim = 0
    /\ session = Born
    /\ world = Void
    /\ conn = "none" /\ since = 0 /\ up = <<>> /\ down = <<>>
    /\ posts = {} /\ read = NoRead
    /\ dirty = {}
    /\ edits = 0 /\ others = 0 /\ breaks = 0
    /\ typed = {} /\ seen = {} /\ wounds = {}

SessionNext ==
    Activate \/ Adopt \/ RebaseOps \/ RebaseSnapshot \/ LadderFires \/ Receive
        \/ PostAnswered \/ Save

RoomNext == ServeRead \/ Join \/ TakeFrame \/ TakePost \/ Trim \/ Others

Next == SessionNext \/ RoomNext \/ Edit \/ Drop \/ PostFails \/ ReadFails

Spec == Init /\ [][Next]_vars

-----------------------------------------------------------------------------
(* Properties *)

Settled ==
    /\ session.phase = "live" /\ dirty = {}
    /\ conn = "open" /\ up = <<>> /\ down = <<>> /\ posts = {} /\ read.of = "none"

\* When nothing is in flight and none of the seven known wounds was taken, the
\* icons of the page are the icons of the room: adoption, the skip law, the
\* acks, the reconnects and their replays lose and revert nothing.
Converges == Settled /\ wounds = {} => world = doc

\* Even if nothing is ever lost, refused or reordered: what the user did last
\* is what the room ends up with ("my ack will overwrite them", capture).
EditsReachTheRoom == Settled /\ wounds \subseteq {"unsent"} => world = doc

\* "remote-applied changes never echo back as my ops": whatever this device
\* had stamped about an icon, its own user once made.
IconsNeverEcho ==
    \A k \in DOMAIN journal :
        LET op == journal[k]
        IN  op.n > 0 /\ wounds = {} => <<op.item, op.val>> \in typed

\* The skip law makes an icon deaf to the others while an op of this device
\* waits for its ack.  Over however many sockets and lost answers, no op of an
\* unwounded session waits for an ack that will not come.
NoDeafIcon == Settled /\ wounds = {} => session.pending = {}

=============================================================================
