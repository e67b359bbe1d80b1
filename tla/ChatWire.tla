------------------------------ MODULE ChatWire ------------------------------
(***************************************************************************)
(* How the events of one chat reach the panel: the log and the live pipe   *)
(* of the engine (server/chat.go), the socket client's cursor and replay   *)
(* tag (web/chatclient.js), the panel's fold (web/chatpanel.js).           *)
(*                                                                         *)
(* Every emit is two steps, the append to the log and the write into the   *)
(* pipe its goroutine obtained earlier.  A connection obtains the          *)
(* session's pipe, takes it over, and only then reads the rows it must     *)
(* replay; rows, live frames and the replay_done marker share its socket.  *)
(* pipeFor creates a pipe when the map has none, and a dead connection's   *)
(* reaper deletes the map's entry, whoever holds the pipe it named.        *)
(*                                                                         *)
(* The panel keeps lastEventI and drops what is not above it; the client   *)
(* reconnects with since = lastSeq; a reloaded page starts from the newest *)
(* Window rows.  When a socket is opened, closed or retried, and a send    *)
(* refused, is ChatClient's subject: here a connection breaks and returns  *)
(* at any time, and one page talks to the chat.                            *)
(***************************************************************************)
EXTENDS Integers, SequencesExt

CONSTANTS
    Window,    \* rows of the bootstrap window (2500)
    MaxLog,    \* bound: rows of the log
    MaxWire,   \* bound: frames on their way; a further write blocks
    MaxConns,  \* bound: connections of a behaviour; the last one is not broken
    MaxPipes   \* bound: pipes somebody holds at a time

ASSUME WireAssumption ==
    /\ Window \in Nat \ {0} /\ MaxLog \in Nat /\ MaxWire \in Nat \ {0}
    /\ MaxConns \in Nat \ {0} /\ MaxPipes \in Nat \ {0}

Turn == {"turn", "auto"}       \* handleTurn; the sentinel's continuation
Emitter == Turn \cup {"side"}  \* ... and a settling job
Kind == {"user", "delta", "assistant", "idle", "job"}
Row == 1..MaxLog
Conn == 1..MaxConns
Pipe == 1..MaxPipes
Done == 0                      \* the replay_done marker among row numbers

VARIABLES
    log,       \* chat_events of the session; seq and i are the position
    emitter,   \* the goroutines that emit: their pipe, and the row appended
               \* and not yet written, or 0
    current,   \* chatPipes[session], or 0
    owner,     \* per pipe its ws, or 0
    handler,   \* per connection: handleChatWS, then its reapIdleChat
    wire,      \* per connection: frames written and not yet received
    client,    \* ChatClient: conn, lastSeq, the replay tag
    panel,     \* the chat's state: the rows folded, lastEventI, isStreaming
    raced,     \* history: a frame overtook rows that had to come first
    orphaned   \* history: a pipe left the map while somebody held it

engine == <<log, emitter, current>>
vars == <<log, emitter, current, owner, handler, wire, client, panel, raced, orphaned>>

Nobody == [state |-> "no", pipe |-> 0, row |-> 0]

\* A handler with a pipe and no replay on its hands.
Handling(phase, p) == [phase |-> phase, pipe |-> p, next |-> 0, last |-> 0]

Absent == Handling("none", 0)
Gone == Handling("gone", 0)

Holding == {"bound", "owner", "replaying", "live"}
Reaping == {"reap", "idle", "dead"}

TypeOK ==
    /\ log \in Seq(Kind) /\ Len(log) <= MaxLog
    /\ emitter \in [Emitter -> [state : {"no", "asked", "runs", "ends"},
                                pipe : 0..MaxPipes, row : 0..MaxLog]]
    /\ current \in 0..MaxPipes
    /\ owner \in [Pipe -> 0..MaxConns]
    /\ handler \in [Conn -> [phase : {"none", "upgraded", "gone"} \cup Holding \cup Reaping,
                             pipe : 0..MaxPipes, next : 0..MaxLog + 1, last : 0..MaxLog]]
    /\ wire \in [Conn -> Seq(0..MaxLog)]
    /\ client \in [conn : 0..MaxConns, used : 0..MaxConns, lastSeq : 0..MaxLog,
                   replaying : BOOLEAN, arrived : BOOLEAN]
    /\ panel \in [shown : Seq(Row), lastEventI : 0..MaxLog, isStreaming : BOOLEAN,
                  terminalSeen : {"undefined", "no", "yes"}]
    /\ raced \in BOOLEAN /\ orphaned \in BOOLEAN

FreshPanel == [shown |-> <<>>, lastEventI |-> 0, isStreaming |-> FALSE,
               terminalSeen |-> "undefined"]

Init ==
    /\ log = <<>> /\ emitter = [e \in Emitter |-> Nobody]
    /\ current = 0 /\ owner = [p \in Pipe |-> 0]
    /\ handler = [c \in Conn |-> Absent] /\ wire = [c \in Conn |-> <<>>]
    /\ client = [conn |-> 0, used |-> 0, lastSeq |-> 0, replaying |-> FALSE, arrived |-> FALSE]
    /\ panel = FreshPanel /\ raced = FALSE /\ orphaned = FALSE
-----------------------------------------------------------------------------
(* The panel.                                                              *)

\* The text of an assistant row: the deltas of its round, or its own.
Segment(n) ==
    LET deltas == {d \in 1..n - 1 : /\ log[d] = "delta"
                                    /\ \A k \in d..n - 1 : log[k] \in {"delta", "job"}}
    IN  IF deltas = {} THEN {n} ELSE deltas

Message(role, text, complete) == [role |-> role, text |-> text, complete |-> complete]

Replies(ms) == {j \in DOMAIN ms : ms[j].role = "assistant"}

\* A delta extends the last message when that is an open reply, and opens a
\* reply otherwise.
DeltaMessage(ms, n) ==
    IF Replies(ms) # {} /\ Len(ms) \in Replies(ms) /\ ~Last(ms).complete
    THEN [ms EXCEPT ![Len(ms)].text = @ \cup {n}]
    ELSE Append(ms, Message("assistant", {n}, FALSE))

\* roundFlowApply: the segment's own row closes the newest reply when that
\* has exactly its text, and is a new reply otherwise.
RoundFlow(ms, n) ==
    LET newest == Max(Replies(ms)) IN
    IF Replies(ms) # {} /\ ms[newest].text = Segment(n)
    THEN [ms EXCEPT ![newest].complete = TRUE]
    ELSE Append(ms, Message("assistant", Segment(n), TRUE))

\* The messages a row makes of the transcript; a terminal status closes all.
Told(ms, n) ==
    CASE log[n] = "delta" -> DeltaMessage(ms, n)
      [] log[n] = "assistant" -> RoundFlow(ms, n)
      [] log[n] = "idle" -> [j \in DOMAIN ms |-> [ms[j] EXCEPT !.complete = TRUE]]
      [] OTHER -> Append(ms, Message(log[n], {n}, TRUE))

\* The transcript, row by row.
Messages(shown) ==
    LET told[k \in 0..Len(shown)] ==
            IF k = 0 THEN <<>> ELSE Told(told[k - 1], shown[k])
    IN  told[Len(shown)]

AnyRow(p, n) == p = p /\ n = n      \* mutant: no dedupe

IsNew(p, n) == n > p.lastEventI

\* handleEvent of a persisted row.  A row at or below lastEventI is dropped;
\* an untagged delta re-arms the streaming state, a terminal ends it.
Folded(p, n, tagged) ==
    IF ~IsNew(p, n) THEN p
    ELSE [shown |-> Append(p.shown, n),
          lastEventI |-> n,
          isStreaming |-> CASE log[n] = "idle" -> FALSE
                            [] log[n] = "delta" /\ ~tagged -> TRUE
                            [] OTHER -> p.isStreaming,
          terminalSeen |-> CASE log[n] = "idle" -> "yes"
                             [] log[n] = "user" -> "no"
                             [] OTHER -> p.terminalSeen]

\* The tail of the transcript reads as the middle of a turn: anything but a
\* complete reply.
MidTurn(shown) ==
    LET ms == Messages(shown) IN
    ms # <<>> /\ ~(Last(ms).role = "assistant" /\ Last(ms).complete)

\* mutant: the tail alone arms the stream
AtReplayDoneByTail(p) == [p EXCEPT !.isStreaming = @ \/ MidTurn(p.shown)]

\* The truth arm at replay_done: a backlog without a terminal after its user
\* row, whose tail is the middle of a turn, is a turn that still runs.
AtReplayDone(p) ==
    [p EXCEPT !.isStreaming = \/ @
                              \/ p.terminalSeen = "no" /\ MidTurn(p.shown)]

\* bootstrapHistory into a new page: the rows from first on, all tagged.
Bootstrapped(first) ==
    LET marks == {n \in first..Len(log) : log[n] \in {"idle", "user"}} IN
    [shown |-> [j \in 1..Len(log) - first + 1 |-> first + j - 1],
     lastEventI |-> Len(log),
     isStreaming |-> FALSE,
     terminalSeen |-> CASE marks = {} -> "undefined"
                        [] marks # {} /\ log[Max(marks)] = "idle" -> "yes"
                        [] OTHER -> "no"]
-----------------------------------------------------------------------------
(* The pipes of the session.                                               *)

\* A pipe nobody can reach any more may be the next new one.
Spare == {p \in Pipe : /\ p # current
                       /\ \A e \in Emitter : emitter[e].pipe # p
                       /\ \A c \in Conn : handler[c].pipe # p}

\* pipeFor: the map's entry, created on demand.
PipeFor == IF current # 0 THEN current ELSE CHOOSE p \in Spare : TRUE
ObtainPipe == (current # 0 \/ Spare # {}) /\ current' = PipeFor

\* Somebody will still write into p, or wait at it for the live feed.
HeldPipe(p) ==
    \/ \E e \in Emitter : emitter[e].pipe = p
    \/ \E c \in Conn : handler[c].pipe = p /\ handler[c].phase \in Holding

\* swap closed this socket when a later one took the pipe; a handler that is
\* gone has closed its own.
Shut(c) ==
    \/ handler[c].phase \in Reaping \cup {"gone"}
    \/ handler[c].phase \in Holding \ {"bound"} /\ owner[handler[c].pipe] # c

Dead(c) == client.conn # c \/ Shut(c)

\* pipe.send into a socket the client has left vanishes, if it does not fail.
Written(p, frame) ==
    LET c == owner[p] IN
    IF c # 0 /\ ~Dead(c)
    THEN Len(wire[c]) < MaxWire /\ wire' = [wire EXCEPT ![c] = Append(@, frame)]
    ELSE wire' = wire
-----------------------------------------------------------------------------
(* The engine's emitters.                                                  *)

AppendRow(e, kind, state) ==
    /\ emitter[e].row = 0 /\ Len(log) < MaxLog
    /\ log' = Append(log, kind)
    /\ emitter' = [emitter EXCEPT ![e] = [@ EXCEPT !.state = state, !.row = Len(log) + 1]]
    /\ UNCHANGED <<current, owner, handler, wire, client, panel, raced, orphaned>>

\* This panel's send on a live socket: doSend arms the stream itself; the
\* turn's goroutine is given the handler's pipe.
SendHere ==
    /\ emitter["turn"] = Nobody
    /\ client.conn # 0 /\ handler[client.conn].phase = "live" /\ ~panel.isStreaming
    /\ panel' = [panel EXCEPT !.isStreaming = TRUE]
    /\ emitter' = [emitter EXCEPT !["turn"] =
                      [Nobody EXCEPT !.state = "asked", !.pipe = handler[client.conn].pipe]]
    /\ UNCHANGED <<log, current, owner, handler, wire, client, raced, orphaned>>

\* Only then it takes the turn lock, and emits the user row.
TurnBegins == emitter["turn"].state = "asked" /\ AppendRow("turn", "user", "runs")

\* sessionBusy: the lock is held until the terminal row is written.
Busy == emitter["turn"].state \in {"runs", "ends"}

\* autoContinue of a chat whose turn has ended: it looks at the lock ...
AutoLooks ==
    /\ emitter["auto"] = Nobody /\ ~Busy /\ \E n \in DOMAIN log : log[n] = "idle"
    /\ emitter' = [emitter EXCEPT !["auto"].state = "asked"]
    /\ UNCHANGED <<log, current, owner, handler, wire, client, panel, raced, orphaned>>

\* ... obtains a pipe, and continues without taking the lock.
AutoBinds ==
    /\ emitter["auto"].state = "asked"
    /\ ObtainPipe
    /\ emitter' = [emitter EXCEPT !["auto"] = [@ EXCEPT !.state = "runs", !.pipe = PipeFor]]
    /\ UNCHANGED <<log, owner, handler, wire, client, panel, raced, orphaned>>

TurnRow(e, kind) == emitter[e].state = "runs" /\ AppendRow(e, kind, "runs")

EndTurn(e) == emitter[e].state = "runs" /\ AppendRow(e, "idle", "ends")

\* A settled job: an emit of another goroutine, during a turn or after it.
\* pipeFor is its argument, evaluated before the append.
SideBinds ==
    /\ emitter["side"] = Nobody /\ log # <<>>
    /\ ObtainPipe
    /\ emitter' = [emitter EXCEPT !["side"] = [@ EXCEPT !.state = "asked", !.pipe = PipeFor]]
    /\ UNCHANGED <<log, owner, handler, wire, client, panel, raced, orphaned>>

SideAppends == emitter["side"].state = "asked" /\ AppendRow("side", "job", "ends")

\* The second half of emit: pipe.send, its error dropped.  It overtakes when
\* the owner of the pipe has not finished its replay, or an older row is
\* still unwritten.  After its last row the goroutine lets the pipe go.
EmitSend(e) ==
    LET p == emitter[e].pipe
        n == emitter[e].row
    IN  /\ n # 0
        /\ emitter' = [emitter EXCEPT ![e] =
                          IF @.state = "ends" THEN Nobody ELSE [@ EXCEPT !.row = 0]]
        /\ Written(p, n)
        /\ raced' = \/ raced
                    \/ owner[p] # 0 /\ handler[owner[p]].phase # "live"
                    \/ \E o \in Emitter : emitter[o].row # 0 /\ emitter[o].row < n
        /\ UNCHANGED <<log, current, owner, handler, client, panel, orphaned>>
-----------------------------------------------------------------------------
(* handleChatWS.                                                           *)

BindPipe(c) ==
    /\ handler[c].phase = "upgraded"
    /\ ObtainPipe
    /\ handler' = [handler EXCEPT ![c] = [@ EXCEPT !.phase = "bound", !.pipe = PipeFor]]
    /\ UNCHANGED <<log, emitter, owner, wire, client, panel, raced, orphaned>>

\* pipe.swap: the pipe's live feed belongs to c from here on.
Swap(c) ==
    LET p == handler[c].pipe IN
    /\ handler[c].phase = "bound" /\ owner[p] # MaxConns
    /\ owner' = [owner EXCEPT ![p] = c]
    /\ handler' = [handler EXCEPT ![c].phase = "owner"]
    /\ UNCHANGED <<engine, wire, client, panel, raced, orphaned>>

\* ListEvents: the rows from since on, as the log is now.
ListRows(c) ==
    /\ handler[c].phase = "owner"
    /\ handler' = [handler EXCEPT ![c].phase = "replaying", ![c].last = Len(log)]
    /\ UNCHANGED <<engine, owner, wire, client, panel, raced, orphaned>>

\* One row, or the marker after the last.  pipe.send writes into whatever
\* connection owns the pipe by now.
Replay(c) ==
    LET p == handler[c].pipe
        more == handler[c].next <= handler[c].last
        frame == IF more THEN handler[c].next ELSE Done
    IN  /\ handler[c].phase = "replaying" /\ owner[p] # 0
        /\ Written(p, frame)
        /\ handler' = IF more THEN [handler EXCEPT ![c].next = @ + 1]
                              ELSE [handler EXCEPT ![c] = Handling("live", p)]
        /\ raced' = (raced \/ owner[p] # c)
        /\ UNCHANGED <<engine, owner, client, panel, orphaned>>

ClearedAlways(c) == 0 * c    \* mutant: a late handler empties its successor's pipe

\* pipe.clear: only the generation that owns the pipe empties it.
Cleared(c) == IF owner[handler[c].pipe] = c THEN 0 ELSE owner[handler[c].pipe]

\* A write of the replay fails, and the handler returns; or the read loop
\* fails, and the handler leaves a reaper behind.
HandlerGone(c) ==
    LET p == handler[c].pipe IN
    /\ \/ /\ handler[c].phase = "replaying" /\ (owner[p] # 0 => Dead(owner[p]))
          /\ handler' = [handler EXCEPT ![c] = Gone]
       \/ /\ handler[c].phase = "live" /\ Dead(c)
          /\ handler' = [handler EXCEPT ![c] = Handling("reap", p)]
    /\ owner' = [owner EXCEPT ![p] = Cleared(c)]
    /\ UNCHANGED <<engine, wire, client, panel, raced, orphaned>>

\* reapIdleChat: no turn holds the lock; ...
ReapLooks(c) ==
    /\ handler[c].phase = "reap"
    /\ handler' = [handler EXCEPT ![c] = IF Busy THEN Gone ELSE [@ EXCEPT !.phase = "idle"]]
    /\ UNCHANGED <<engine, owner, wire, client, panel, raced, orphaned>>

\* ... nobody has taken the pipe over; ...
ReapSees(c) ==
    /\ handler[c].phase = "idle"
    /\ handler' = [handler EXCEPT ![c] =
                      IF owner[@.pipe] # 0 THEN Gone ELSE [@ EXCEPT !.phase = "dead"]]
    /\ UNCHANGED <<engine, owner, wire, client, panel, raced, orphaned>>

\* ... the map's entry goes, if it still is this pipe.
ReapDeletes(c) ==
    LET p == handler[c].pipe IN
    /\ handler[c].phase = "dead"
    /\ handler' = [handler EXCEPT ![c] = Gone]
    /\ current' = IF current = p THEN 0 ELSE current
    /\ orphaned' = (orphaned \/ (current = p /\ HeldPipe(p)))
    /\ UNCHANGED <<log, emitter, owner, wire, client, panel, raced>>
-----------------------------------------------------------------------------
(* The client.                                                             *)

SinceLate == client.lastSeq + 2    \* mutant: the cursor is counted twice

\* The first row of the replay: the client has the rows up to its cursor.
Since == client.lastSeq + 1

\* ChatClient.connect up to the upgrade: since = lastSeq, the tag is armed.
Connect ==
    LET c == client.used + 1 IN
    /\ client.conn = 0 /\ c \in Conn
    /\ client' = [client EXCEPT !.conn = c, !.used = c, !.replaying = TRUE, !.arrived = FALSE]
    /\ handler' = [handler EXCEPT ![c] = [@ EXCEPT !.phase = "upgraded", !.next = Since]]
    /\ UNCHANGED <<engine, owner, wire, panel, raced, orphaned>>

\* The socket breaks, or its server side is shut: what was on the way is lost.
Drop ==
    /\ client.conn # 0 /\ client.conn # MaxConns
    /\ wire' = [wire EXCEPT ![client.conn] = <<>>]
    /\ client' = [client EXCEPT !.conn = 0, !.replaying = FALSE, !.arrived = FALSE]
    /\ UNCHANGED <<engine, owner, handler, panel, raced, orphaned>>

\* onclose of a socket the engine shut.
Closed == client.conn # 0 /\ Shut(client.conn) /\ Drop

\* _tagReplay: while the burst drains a row is tagged, until a quiet gap
\* (a choice) that began at an earlier arrival ends the tag.
Tagged(quiet) == client.replaying /\ ~(quiet /\ client.arrived)

\* onmessage of a row, and the panel's handler.
Receive(quiet) ==
    LET c == client.conn
        n == Head(wire[c])
    IN  /\ c # 0 /\ wire[c] # <<>> /\ n # Done
        /\ wire' = [wire EXCEPT ![c] = Tail(@)]
        /\ client' = [client EXCEPT !.lastSeq = IF n > @ THEN n ELSE @,
                                    !.replaying = Tagged(quiet), !.arrived = Tagged(quiet)]
        /\ panel' = Folded(panel, n, Tagged(quiet))
        /\ UNCHANGED <<engine, owner, handler, raced, orphaned>>

\* onmessage of ws_state replay_done: _stopReplayTag, then the truth arm.
ReceiveDone ==
    LET c == client.conn IN
    /\ c # 0 /\ wire[c] # <<>> /\ Head(wire[c]) = Done
    /\ wire' = [wire EXCEPT ![c] = Tail(@)]
    /\ client' = [client EXCEPT !.replaying = FALSE, !.arrived = FALSE]
    /\ panel' = AtReplayDone(panel)
    /\ UNCHANGED <<engine, owner, handler, raced, orphaned>>

\* The page is loaded anew: the bootstrap hands its last seq to a new client.
Reload ==
    LET first == IF Len(log) > Window THEN Len(log) - Window + 1 ELSE 1 IN
    /\ client.conn # MaxConns
    /\ panel' = Bootstrapped(first)
    /\ wire' = [c \in Conn |-> <<>>]
    /\ client' = [client EXCEPT !.conn = 0, !.lastSeq = Len(log), !.replaying = FALSE,
                                !.arrived = FALSE]
    /\ UNCHANGED <<engine, owner, handler, raced, orphaned>>
-----------------------------------------------------------------------------
Handle(c) ==
    \/ BindPipe(c) \/ Swap(c) \/ ListRows(c) \/ Replay(c) \/ HandlerGone(c)
    \/ ReapLooks(c) \/ ReapSees(c) \/ ReapDeletes(c)

Arrive == ReceiveDone \/ \E quiet \in BOOLEAN : Receive(quiet)

EngineNext ==
    \/ SendHere \/ TurnBegins \/ AutoLooks \/ AutoBinds \/ SideBinds \/ SideAppends
    \/ \E e \in Turn : TurnRow(e, "delta") \/ TurnRow(e, "assistant") \/ EndTurn(e)
    \/ \E e \in Emitter : EmitSend(e)
    \/ \E c \in Conn : Handle(c)

ClientNext == Connect \/ Drop \/ Arrive \/ Reload

Next == EngineNext \/ ClientNext

\* Every goroutine that has something to do goes on, the page processes its
\* messages, notices a socket the engine closed, and reconnects.  No turn
\* need produce a row, no socket break, no page be reloaded.
Fairness ==
    /\ \A e \in Emitter : WF_vars(EmitSend(e))
    /\ \A c \in Conn : WF_vars(Handle(c))
    /\ WF_vars(Connect) /\ WF_vars(Closed) /\ WF_vars(Arrive)

Spec == Init /\ [][Next]_vars /\ Fairness
-----------------------------------------------------------------------------
(* Properties.                                                             *)

\* No row is shown twice or out of order, whatever the replays of several
\* handlers, the live feed and the reloads deliver (the dedupe of
\* handleEvent, chatpanel.js).
InOrderOnce ==
    \A j, k \in DOMAIN panel.shown : j < k => panel.shown[j] < panel.shown[k]

\* As long as no frame has overtaken rows that had to come first and no pipe
\* was reaped from under its holders, the panel has every row from its first
\* one to its newest: dropped connections, reloads, fresh pipes and since
\* cursors lose nothing.
NoHoleUnlessRaced ==
    ~raced /\ ~orphaned => \A j \in DOMAIN panel.shown : panel.shown[j] = panel.shown[1] + j - 1

\* The promise without the proviso: what a reconnecting client is sent fills
\* the gap.
NoHole ==
    \A j \in DOMAIN panel.shown : panel.shown[j] = panel.shown[1] + j - 1

\* Nothing is on its way between the log and the panel.
Settled ==
    /\ client.conn # 0 /\ ~Shut(client.conn) /\ wire[client.conn] = <<>>
    /\ \A c \in Conn : handler[c].phase \in {"none", "live", "gone"} \cup Reaping
    /\ \A e \in Emitter : emitter[e].row = 0

\* A turn has been asked for, or a goroutine works on one.
Turning == \E e \in Turn : emitter[e].state \in {"asked", "runs"}

\* When all is settled, nothing raced and no pipe was orphaned, the button
\* tells the truth: it reads Stop only while a turn runs or is asked for, and
\* it does read Stop when the turn's own rows, its user row among them, end
\* in an open reply.
ButtonTellsTheTurn ==
    Settled /\ ~raced /\ ~orphaned =>
        /\ panel.isStreaming => Turning
        /\ panel.terminalSeen = "no" /\ Last(log) = "delta" => panel.isStreaming

\* The panel comes to the newest row of the log, whatever broke before, unless
\* a pipe is reaped from under its holders.
CatchesUp == <>[](orphaned \/ panel.lastEventI = Len(log))

\* The reaper as documented (chat.go "NEVER reaped while a turn runs - a
\* running turn holds its pipe reference and a resume must swap into THAT SAME
\* pipe"): the pipe of a running turn is the one the next connection obtains.
TurnKeepsItsPipe ==
    \A e \in Turn : emitter[e].state = "runs" => emitter[e].pipe = current
=============================================================================
