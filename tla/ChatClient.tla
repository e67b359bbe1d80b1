----------------------------- MODULE ChatClient -----------------------------
(***************************************************************************)
(* The life of one chat's socket and of the messages typed into it: the    *)
(* reconnect ladder, the resync and the frame queue of web/chatclient.js,  *)
(* the send, stop, queue and revive machinery of web/chatpanel.js, and the *)
(* turn lock of the engine that answers (server/chat.go).                  *)
(*                                                                         *)
(* The page is one JavaScript heap: a callback runs to its end, so every   *)
(* function of the source is an operator from a page to a page, and an     *)
(* action is one callback: a socket event, a timer, a tap.  A socket that  *)
(* resync closed reports its close late, under a client that may already   *)
(* use another one.  What the engine's rows say is ChatWire's subject:     *)
(* here only the terminals of a turn and the busy error come back.         *)
(***************************************************************************)
EXTENDS Integers, SequencesExt, FiniteSets

CONSTANTS
    Msg,          \* the messages the user types, each one once
    LongRungs,    \* rungs of the ladder while a turn is active (6)
    ShortRungs,   \* rungs of the idle ladder (3)
    MaxFrames,    \* bound: frames on a socket when the user taps again
    MaxBreaks,    \* bound: times the network fails
    MaxRegains    \* bound: returns of the page from the background

ASSUME ClientAssumption ==
    /\ LongRungs \in Nat /\ ShortRungs \in Nat
    /\ MaxFrames \in Nat /\ MaxBreaks \in Nat /\ MaxRegains \in Nat
    /\ "stop" \notin Msg

\* Sockets by number: the current one, and those that still close.  A return
\* leaves at most two of these: the one its resync closed, and the one that a
\* user closed who left a chat which a late resync had reopened.
Sock == 1..2 * MaxRegains + 1

VARIABLES
    page,      \* the heap: client, panel, timers, sockets and what they carry
    typed,     \* the messages the user has typed
    turn,      \* the engine's turn lock: free, running, ending (idle emitted, lock held)
    answered,  \* the engine's answer to each message: none, accepted, rejected
    feed,      \* terminal rows the page has not received
    net,       \* up, down, frozen (the WebSocket constructor throws)
    breaks,    \* bound: network failures so far
    regains    \* bound: returns so far

vars == <<page, typed, turn, answered, feed, net, breaks, regains>>

Frame == Msg \cup {"stop"}

Page ==
    [sock : [Sock -> {"none", "connecting", "open", "closing", "closed"}],
     out : [Sock -> Seq(Frame)], ws : {0} \cup Sock, muted : SUBSET Sock,
     connected : BOOLEAN, state : {"idle", "connecting", "open", "failed"},
     attempt : 0..LongRungs + ShortRungs, closedByUser : BOOLEAN,
     resyncing : BOOLEAN, turnActive : BOOLEAN, eventQueue : Seq(Msg),
     ladder : Nat, resyncs : Nat, replay : Nat,
     isStreaming : BOOLEAN, revive : BOOLEAN, hold : BOOLEAN,
     checks : SUBSET Msg, queue : Seq(Msg), reported : SUBSET Msg, flushed : SUBSET Msg]

TypeOK ==
    /\ page \in Page
    /\ typed \subseteq Msg /\ turn \in {"free", "running", "ending"}
    /\ answered \in [Msg -> {"none", "accepted", "rejected"}]
    /\ feed \in Seq({"idle", "error"})
    /\ net \in {"up", "down", "frozen"}
    /\ breaks \in 0..MaxBreaks /\ regains \in 0..MaxRegains

NewPage ==
    [sock |-> [s \in Sock |-> "none"], out |-> [s \in Sock |-> <<>>], ws |-> 0, muted |-> {},
     connected |-> FALSE, state |-> "idle", attempt |-> 0, closedByUser |-> FALSE,
     resyncing |-> FALSE, turnActive |-> FALSE, eventQueue |-> <<>>,
     ladder |-> 0, resyncs |-> 0, replay |-> 0,
     isStreaming |-> FALSE, revive |-> FALSE, hold |-> FALSE,
     checks |-> {}, queue |-> <<>>, reported |-> {}, flushed |-> {}]
-----------------------------------------------------------------------------
(* ChatClient.                                                             *)

Ready(p, states) == p.ws # 0 /\ p.sock[p.ws] \in states

\* client.onClose, wired by the panel: a stream keeps the revive poll armed.
OnClose(p) == [p EXCEPT !.revive = @ \/ p.isStreaming]

Rungs(p) == IF p.turnActive THEN LongRungs ELSE ShortRungs

\* mutant: an exhausted ladder ends in silence
ScheduleReconnectSilent(p) ==
    IF p.closedByUser THEN p
    ELSE IF p.attempt >= Rungs(p)
         THEN [p EXCEPT !.state = "failed", !.attempt = 0]
         ELSE [p EXCEPT !.attempt = @ + 1, !.state = "connecting", !.ladder = @ + 1]

\* The next rung, or the end: ws_state failed starts the panel's revive poll.
ScheduleReconnect(p) ==
    IF p.closedByUser THEN p
    ELSE IF p.attempt >= Rungs(p)
         THEN OnClose([p EXCEPT !.state = "failed", !.attempt = 0, !.revive = TRUE])
         ELSE [p EXCEPT !.attempt = @ + 1, !.state = "connecting", !.ladder = @ + 1]

\* mutant: a socket that is still connecting does not count
NeedsSocketUnlessOpen(p) == ~Ready(p, {"open"})

NeedsSocket(p) == ~Ready(p, {"connecting", "open"})

\* The constructor gives a socket, or throws and takes a rung.
Connect(p) ==
    LET s == CHOOSE n \in Sock : p.sock[n] \in {"none", "closed"} IN
    IF ~NeedsSocket(p) THEN p
    ELSE IF net = "frozen"
         THEN ScheduleReconnect([p EXCEPT !.closedByUser = FALSE, !.state = "failed"])
         ELSE [p EXCEPT !.closedByUser = FALSE, !.state = "connecting", !.ws = s,
                        !.sock[s] = "connecting", !.out[s] = <<>>, !.muted = @ \ {s}]

\* mutant: the flush does not take the frames off the queue
OnOpenKeeping(p, s) ==
    [p EXCEPT !.sock[s] = "open", !.connected = TRUE, !.state = "open", !.attempt = 0,
              !.revive = FALSE, !.replay = Len(feed),
              !.out[s] = @ \o p.eventQueue]

\* onopen: ws_state open stops the revive poll; the queued frames go out.
OnOpen(p, s) ==
    [p EXCEPT !.sock[s] = "open", !.connected = TRUE, !.state = "open", !.attempt = 0,
              !.revive = FALSE, !.replay = Len(feed),
              !.out[s] = @ \o p.eventQueue, !.eventQueue = <<>>]

\* The panel's error branch: the stream ends and the queue is parked.
PanelError(p) == [p EXCEPT !.isStreaming = FALSE, !.hold = TRUE]

\* onclose, whichever socket it is that closed.
OnClosed(p, s) ==
    LET wasOpen == p.connected
        q == [p EXCEPT !.sock[s] = "closed", !.out[s] = <<>>, !.connected = FALSE, !.replay = 0]
    IN  IF s \in p.muted THEN [p EXCEPT !.sock[s] = "closed", !.out[s] = <<>>]
        ELSE IF p.closedByUser \/ p.resyncing THEN [q EXCEPT !.state = "idle"]
        ELSE IF p.turnActive \/ wasOpen \/ p.attempt = 0 THEN ScheduleReconnect(q)
        ELSE OnClose(PanelError([q EXCEPT !.state = "failed"]))

\* resync: a socket that reads open is closed in silence and replaced.
Resync(p) ==
    IF p.closedByUser THEN p
    ELSE IF ~Ready(p, {"open"}) THEN Connect(p)
    ELSE [p EXCEPT !.resyncing = TRUE, !.attempt = 0, !.sock[p.ws] = "closing",
                   !.resyncs = @ + 1]

ClientSend(p, m) ==
    LET q == [p EXCEPT !.turnActive = TRUE]
        r == IF q.ws = 0 \/ Ready(q, {"closed"}) THEN Connect(q) ELSE q
    IN  IF Ready(q, {"open"})
        THEN [q EXCEPT !.out[q.ws] = Append(@, m)]
        ELSE [r EXCEPT !.eventQueue = Append(@, m)]

ClientStop(p) ==
    LET q == [p EXCEPT !.turnActive = FALSE] IN
    IF Ready(q, {"open"}) THEN [q EXCEPT !.out[q.ws] = Append(@, "stop")] ELSE q

\* close: the callback is suppressed, the socket left to close by itself.
Close(p) ==
    LET q == [p EXCEPT !.closedByUser = TRUE, !.connected = FALSE, !.state = "idle",
                       !.replay = 0]
    IN  IF p.ws = 0 THEN q
        ELSE [q EXCEPT !.ws = 0, !.muted = @ \cup {p.ws},
                       !.sock[p.ws] = IF @ = "closed" THEN "closed" ELSE "closing"]
-----------------------------------------------------------------------------
(* The panel.                                                              *)

Unreachable(p) == ~p.connected /\ p.state \notin {"connecting", "open"}

\* reviveClient, and the tick of the revive poll.
Revive(p) == IF Unreachable(p) THEN Connect(p) ELSE p

\* doSend: on a dead socket it kicks a connect and polls for the result.
DoSend(p, m) ==
    LET q == [p EXCEPT !.isStreaming = TRUE, !.hold = FALSE] IN
    IF p.connected THEN ClientSend(q, m)
    ELSE [Revive(q) EXCEPT !.checks = @ \cup {m}]

\* flushSendQueue at the end of a turn, one message.
Flush(p) ==
    IF p.queue = <<>> \/ p.isStreaming \/ p.hold THEN p
    ELSE DoSend([p EXCEPT !.queue = Tail(@), !.flushed = @ \cup {Head(p.queue)}], Head(p.queue))

\* Rows that still come tagged as replay.
ReplayLeft(p) == IF p.replay > 0 THEN p.replay - 1 ELSE 0

\* A terminal status: the live end of a turn of this panel flushes the queue.
OnTerminal(p, status) ==
    LET q == [p EXCEPT !.turnActive = FALSE, !.isStreaming = FALSE,
                       !.replay = ReplayLeft(p)]
    IN  IF status = "error" THEN PanelError(q)
        ELSE IF p.isStreaming /\ p.replay = 0 THEN Flush(q) ELSE q

\* sweepOnRegain.
Sweep(p) ==
    IF ~Unreachable(p)
    THEN IF p.isStreaming THEN Resync(p) ELSE p
    ELSE Revive(p)
-----------------------------------------------------------------------------
Become(p) == page' = p /\ UNCHANGED <<typed, turn, answered, feed, net, breaks, regains>>

Init ==
    /\ page = NewPage /\ typed = {}
    /\ turn = "free" /\ answered = [m \in Msg |-> "none"] /\ feed = <<>>
    /\ net = "up" /\ breaks = 0 /\ regains = 0
-----------------------------------------------------------------------------
(* The user.                                                               *)

\* The chat is open: a page that left it has closed its client.
Here == page # NewPage /\ ~(page.closedByUser /\ page.ws = 0)

\* Bound: the user does not tap into a congested socket.
MayTap == Here /\ \A s \in Sock : Len(page.out[s]) < MaxFrames

Typed(m, p) ==
    /\ MayTap /\ m \notin typed
    /\ typed' = typed \cup {m} /\ page' = p
    /\ UNCHANGED <<turn, answered, feed, net, breaks, regains>>

\* connectWS makes the client and connects it.
OpenChat == page = NewPage /\ Become(Connect(page))

\* The send button by its mode: send, or queue while the stream runs.
TapSend(m) == ~page.isStreaming /\ Typed(m, DoSend(page, m))

TapQueue(m) == page.isStreaming /\ Typed(m, [page EXCEPT !.queue = Append(@, m)])

\* The stop mode parks the queue.
TapStop ==
    /\ MayTap /\ page.isStreaming
    /\ Become(ClientStop([page EXCEPT !.hold = TRUE]))

\* A queued row: it stops the running turn and goes next, or is sent.
TapQueued(i) ==
    LET m == page.queue[i]
        others == RemoveAt(page.queue, i)
    IN  /\ MayTap
        /\ Become(IF page.isStreaming
                  THEN ClientStop([page EXCEPT !.queue = <<m>> \o others, !.hold = FALSE])
                  ELSE DoSend([page EXCEPT !.queue = others], m))

\* Another model is chosen in mid turn: stopTurnIfStreaming.
ChangeModel ==
    /\ MayTap /\ page.isStreaming
    /\ Become([ClientStop(page) EXCEPT !.isStreaming = FALSE, !.hold = TRUE])

Regain ==
    /\ Here /\ regains < MaxRegains
    /\ regains' = regains + 1 /\ page' = Sweep(page)
    /\ UNCHANGED <<typed, turn, answered, feed, net, breaks>>

\* The panel drops the client of a chat it leaves.
Leave == Here /\ Become([Close(page) EXCEPT !.checks = {}, !.revive = FALSE])
-----------------------------------------------------------------------------
(* The timers of the page.                                                 *)

LadderFires ==
    LET p == [page EXCEPT !.ladder = @ - 1] IN
    page.ladder > 0 /\ Become(IF page.closedByUser THEN p ELSE Connect(p))

ResyncFires ==
    /\ page.resyncs > 0
    /\ Become(Connect([page EXCEPT !.resyncs = @ - 1, !.resyncing = FALSE]))

ReviveTicks == page.revive /\ Unreachable(page) /\ Become(Connect(page))

\* doSend's poll: the socket is open, or its hundred tries are over.
CheckSends(m) ==
    /\ m \in page.checks /\ page.connected
    /\ Become(ClientSend([page EXCEPT !.checks = @ \ {m}], m))

CheckGivesUpQueueing(m) ==      \* mutant: the reported message stays queued
    /\ m \in page.checks /\ ~page.connected
    /\ Become([page EXCEPT !.checks = @ \ {m}, !.reported = @ \cup {m}, !.isStreaming = FALSE,
                           !.eventQueue = Append(@, m)])

CheckGivesUp(m) ==
    /\ m \in page.checks /\ ~page.connected
    /\ Become([page EXCEPT !.checks = @ \ {m}, !.reported = @ \cup {m}, !.isStreaming = FALSE])
-----------------------------------------------------------------------------
(* The sockets.                                                            *)

SocketOpens(s) == page.sock[s] = "connecting" /\ net = "up" /\ Become(OnOpen(page, s))

SocketFails(s) == page.sock[s] = "connecting" /\ net # "up" /\ Become(OnClosed(page, s))

\* The close of a socket the page closed arrives; what it still carried may
\* be lost.
SocketCloses(s) == page.sock[s] = "closing" /\ Become(OnClosed(page, s))

\* The network fails: an open socket is lost, and the engine, or the page's
\* own network stack, is away for a while.
Breaks(how) ==
    /\ breaks < MaxBreaks /\ net = "up"
    /\ breaks' = breaks + 1 /\ net' = how
    /\ page' = IF Ready(page, {"open"}) THEN OnClosed(page, page.ws) ELSE page
    /\ UNCHANGED <<typed, turn, answered, feed, regains>>

NetBack ==
    /\ net # "up" /\ net' = "up"
    /\ UNCHANGED <<page, typed, turn, answered, feed, breaks, regains>>
-----------------------------------------------------------------------------
(* The engine.                                                             *)

Tell(status) == feed' = Append(feed, status)

\* A frame arrives on the socket that carries it: handleTurn takes the lock
\* or answers busy, abortTurn ends a running turn.
Deliver(s) ==
    LET frame == Head(page.out[s]) IN
    /\ net = "up" /\ page.sock[s] \in {"open", "closing"} /\ page.out[s] # <<>>
    /\ page' = [page EXCEPT !.out[s] = Tail(@)]
    /\ \/ frame = "stop" /\ turn = "running" /\ turn' = "ending" /\ Tell("idle")
         /\ UNCHANGED answered
       \/ frame = "stop" /\ turn # "running" /\ UNCHANGED <<turn, feed, answered>>
       \/ frame # "stop" /\ turn = "free" /\ turn' = "running" /\ UNCHANGED feed
         /\ answered' = [answered EXCEPT ![frame] = "accepted"]
       \/ frame # "stop" /\ turn # "free" /\ Tell("error") /\ UNCHANGED turn
         /\ answered' = [answered EXCEPT ![frame] = "rejected"]
    /\ UNCHANGED <<typed, net, breaks, regains>>

\* The turn emits its terminal; its deferred release comes afterwards.
TurnEnds(status) ==
    /\ turn = "running" /\ turn' = "ending" /\ Tell(status)
    /\ UNCHANGED <<page, typed, answered, net, breaks, regains>>

Release ==
    /\ turn = "ending" /\ turn' = "free"
    /\ UNCHANGED <<page, typed, answered, feed, net, breaks, regains>>

Receive ==
    /\ Ready(page, {"open"}) /\ feed # <<>>
    /\ feed' = Tail(feed) /\ page' = OnTerminal(page, Head(feed))
    /\ UNCHANGED <<typed, turn, answered, net, breaks, regains>>
-----------------------------------------------------------------------------
User ==
    \/ OpenChat \/ TapStop \/ ChangeModel \/ Regain \/ Leave
    \/ \E m \in Msg : TapSend(m) \/ TapQueue(m)
    \/ \E i \in DOMAIN page.queue : TapQueued(i)

Timer ==
    \/ LadderFires \/ ResyncFires \/ ReviveTicks
    \/ \E m \in Msg : CheckSends(m) \/ CheckGivesUp(m)

Socket(s) == SocketOpens(s) \/ SocketFails(s) \/ SocketCloses(s)

Engine == Release \/ (\E status \in {"idle", "error"} : TurnEnds(status)) \/ \E s \in Sock : Deliver(s)

Next ==
    \/ User \/ Timer \/ (\E s \in Sock : Socket(s)) \/ Engine \/ Receive
    \/ (\E how \in {"down", "frozen"} : Breaks(how)) \/ NetBack

\* Timers fire, a handshake ends, a failed network returns.  Neither the
\* user nor the turn owes a step.
Fairness ==
    /\ WF_vars(LadderFires) /\ WF_vars(ResyncFires) /\ WF_vars(ReviveTicks)
    /\ \A s \in Sock : WF_vars(Socket(s))
    /\ WF_vars(NetBack)

Spec == Init /\ [][Next]_vars /\ Fairness
-----------------------------------------------------------------------------
(* Properties.                                                             *)

At(seq, m) == {i \in DOMAIN seq : seq[i] = m}

\* Where a message is on its way, or has come to.
Places(m) ==
    {<<"poll">> : x \in page.checks \cap {m}}
        \cup {<<"queue", i>> : i \in At(page.queue, m)}
        \cup {<<"frames", i>> : i \in At(page.eventQueue, m)}
        \cup (UNION {{<<"socket", s, i>> : i \in At(page.out[s], m)} : s \in Sock})
        \cup {<<"engine">> : x \in {answered[m]} \ {"none"}}

\* A message is in one place at a time, so the engine gets it at most once,
\* across resyncs, retries of the ladder, parked queues and frames left over
\* on a closing socket.
SentOnce == \A m \in Msg : Cardinality(Places(m)) <= 1

\* A message reported as not sent ("Still connecting to the engine") is not
\* sent later behind the user's back.
ReportedIsNotSent == \A m \in page.reported : Places(m) = {}

\* The chat has at most one socket that is connecting or open.
OneLiveSocket == Cardinality({s \in Sock : page.sock[s] \in {"connecting", "open"}}) <= 1

\* While the client counts a turn as active and its chat is open, a dead
\* connection always has its next attempt under way: a rung, a resync, the
\* revive poll, or a socket event that is still to come.
NeverStranded ==
    page.turnActive /\ ~page.closedByUser =>
        \/ page.ladder > 0 \/ page.resyncs > 0 \/ page.revive
        \/ \E s \in Sock \ page.muted : page.sock[s] \in {"connecting", "open", "closing"}

\* A frame queued behind a dead socket goes out, unless its turn is stopped
\* or the chat left.
QueuedFrameIsSent ==
    page.eventQueue # <<>> /\ page.turnActive
        ~> (page.eventQueue = <<>> \/ ~page.turnActive \/ page.closedByUser)

-----------------------------------------------------------------------------
(* What the comments promise and this model refutes: add one to a cfg.     *)

\* A failed client keeps being revived ("the forever-revive law holds on
\* every path").
FailedIsRevived == page.state = "failed" => page.revive

\* The state field tells the truth about the current socket.
StateTellsTheSocket == Ready(page, {"open"}) /\ ~page.resyncing => page.connected

\* A client that was closed stays closed.
ClosedStaysClosed == [][page.closedByUser => page'.closedByUser]_vars

\* A queued message that the panel sends at the end of a turn finds the
\* engine free ("the transports never see two turns at once").
FollowUpIsAccepted == \A m \in page.flushed : answered[m] # "rejected"
=============================================================================
