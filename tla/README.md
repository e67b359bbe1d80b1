# Verification of doomalay

TLA+ models, TLC runs and TLAPS proofs for the concurrent core of doomalay: the
Go engine (`engine/internal`) and the web client it serves
(`engine/internal/server/web`). Seven subsystems are modelled: the background-job
layer under every tool call, the shared canvas on the engine (rooms, hub,
journal, row, PUT and DELETE), the guest that edits it in a page, the ledger of
worlds that saves a page's canvases, the live feed that carries a chat's events
to its panel, the socket client that carries the user's messages back, and the
retry sentinel that continues the turns a lost signal interrupted. The rest is
inventoried and planned below.

## 1. The system

The engine is one Go process with a SQLite store. It serves a web client over
HTTP and WebSocket, runs chat turns against model providers, dispatches the
model's tool calls through an in-process MCP bus, and hosts live shared
canvases. The client is one page of JavaScript: a canvas of icons, a chat panel
per icon, and the machinery that keeps both in step with the engine.

| component | state it keeps | operations | interacts with |
|---|---|---|---|
| job lanes (`jobmgr`, `mcpbus/jobwrap.go`) | jobs, per-chat counter, settled ring | wrap a call, Begin, Settle, Kill, Status, List, DrainSettled | bus middleware in, event sink to the chat store, round boundaries of turns |
| canvas rooms (`collab/room.go`) | doc, latestSeq, members, timers, channels | Submit, Join, Leave, EvictDevice, Drop, DropVoid, checkpoint | hub, store, doors |
| hub (`collab/hub.go`) | canvas -> room | Room, Drop, Get, Snapshot | doors, row handlers, `onDrop` callback |
| journal and row (`store/collab.go`, `store/canvases.go`) | `canvas_ops`, `canvases` | append, list, head, trim, watermark, upsert, delete | rooms, row handlers |
| row handlers (`server/canvases.go`) | none | PUT (gate, void, write, watermark), DELETE | `collabMu`, hub, store |
| doors (`server/collablive.go`, `collabapi.go`) | connection | join, ops, leave, replay | hub, rooms |
| op fold (`collab/op.go`, `doc.go`, `codec.go`; twin in `collabcore.js`) | none (pure) | validate, fold, frame | rooms, client |
| canvas client (`web/collabcore.js`, adapter in `web/app.js`) | doc, baseline, pending ops, cursor, transport | activate, capture, submit, ack, replay, adopt, rebase, reconnect | doors |
| ledger of worlds (`web/worlds.js`, `worldsmanager.js`, `app.js`) | active world, dirty slot, timer, scratch and pointer in localStorage | boot, save, flush, flushNow, switch, create | row handlers |
| live feed (`server/chat.go` pipe, `store/events.go`, `web/chatpanel.js`) | event log, map of pipes, their owners, cursor, transcript | emit, swap, replay, clear, reap, fold, bootstrap | turns, continuations, jobs, socket client |
| chat socket client (`web/chatclient.js`, send machinery of `chatpanel.js`) | socket, ladder, queues, timers | connect, send, stop, resync, close, revive, flush | engine's turn lock |
| enrolment (`collab/enroll.go`, `server/collabpair.go`, `store/collabstore.go`) | invites, devices, members | mint, pair, approve, deny, poll, revoke | doors, `EvictDevice` |
| chat turns (`server/chat.go`, `ocserveturn.go`, `llm/*`) | busy flag, turn FSM | send, stop, continue | providers, store, lanes |
| cooldown and retries (`llm/cooldown.go`, `netx/retry.go`) | per-provider windows | acquire, report, back off | turns |
| retry sentinel (`server/retrysentinel.go`) | one timer per signal with its listeners, a durability row per chat | arm, probe, recover, auto-continue, disarm, boot scan | turns, store, feed |
| termux phoenix (`server/termuxphoenix.go`) | health gauge, single flight | observe, convict, revive, keepalive | Android bridge |
| serve manager (`ocserve`), hub/archive/OTA/secrets/forge/pm/surgeon | various | mostly I/O, formats, sequential logic | server |
| canvas page, panels, browsers and editors (rest of `web/`) | DOM | draw, gesture, forms | the modules above |
| Android shell, python brain, scripts | - | - | outside |

What is hard:

* *Goroutines and locks.* A tool call involves three goroutines and a timer;
  `Kill` has two critical sections with an unlocked gap; `NewRoom` reads the
  store with no lock held; the row has two writers (checkpoint, PUT) under
  `collabMu` and one (DELETE) without it.
* *Order.* A canvas op is journalled, folded, broadcast, acknowledged, and only
  later in the row; the job's context must die before its state says cancelled.
* *Order over a socket.* Rows, live frames, an older handler's replay and a
  marker share a connection that may be replaced at any time, and the pipe under
  it is deleted and made anew while turns hold the old one; a canvas op of one
  device crosses another's on the wire.
* *Late callbacks.* A closed socket reports its close when the next one is open;
  a PUT ends after the page switched to another world; a poll of a message ends
  after the ladder delivered it.
* *Crash.* The checkpoint is three statements (row, watermark, trim); a page may
  die with a save neither in localStorage nor at the engine.
* *Timers.* Grace window against finish; idle drop against submit; calm tick
  against drop; ladder, resync, revive poll and regain all call connect.
* *Two locks and a row.* The sentinel's registry is guarded by one mutex, each
  timer by another; a chat may join, leave, recover and be parked again at once,
  and an engine that dies leaves only rows.
* *Limits.* Lane guard; submit, join and leave channels; the seq clock after a
  full trim.

Correctness, in short. Lanes: each outcome told once, each settled job one chat
row, a terminal state never changes, the counter never drifts. Rooms: one
writer, an acknowledged op is never lost, the seq never rewinds, the row's stamp
tells what the row holds, nobody waits for ever, unused rooms end. Row handlers:
no stale overwrite, no write of a voided doc, no interleaved read-modify-write.
Feed: no row twice, out of order or missing, and the stop button tells the truth.
Socket client: a message is sent at most once and never after it was reported
unsent; an active turn never loses its connection for good. Guest: page and room
agree once all is quiet, and nothing of the others comes back as one's own.
Worlds: a row holds its own world, and a saved edit is always somewhere.
Sentinel: a parked chat is never dropped and in the end continued, one timer per
signal, and none that nobody waits for.

## 2. The modules

| module | models |
|---|---|
| `CallLedger` | abstract: what the job layer promises per call (new, refused, open, answered, ticket, settled, heard) |
| `JobLanes` | detailed: `withGrace`, `jobmgr`, `job_kill`; implements `CallLedger` |
| `JobLanes_proofs` | the proofs about `JobLanes` |
| `CanvasRoom` | one canvas: hub, rooms, store, HTTP posters, WebSocket members, crash |
| `CanvasRoom_proofs` | the proofs about `CanvasRoom` |
| `CanvasHost` | extends `CanvasRoom` with the whole-state PUT and the DELETE |
| `CanvasHost_proofs` | the proofs about `CanvasHost`, over those about `CanvasRoom` |
| `CanvasClient` | a guest's page against a room seen from outside |
| `CanvasClient_proofs` | the proofs about `CanvasClient` |
| `ChatWire` | one chat's event log, pipe, handlers, sockets and panel |
| `ChatWire_proofs` | the proofs about `ChatWire` |
| `ChatClient` | one chat's socket client and the messages typed into its panel |
| `ChatClient_proofs` | the proofs about `ChatClient` |
| `Worlds` | the ledger of worlds of one page, with the engine's rows |
| `Worlds_proofs` | the proofs about `Worlds` |
| `RetrySentinel` | the sentinel between the turns of the chats, with restarts |
| `RetrySentinel_proofs` | the proofs about `RetrySentinel` |
| `MCJobLanes`, `MCCanvasRoom`, `MCCanvasHost`, `MCChatClient`, `MCRetrySentinel` | constants and symmetry for TLC |

### JobLanes

`phase[c]` is the program counter of the caller's goroutine in `withGrace`:
`waiting` at the select, `expired` after the timer arm, `arming` after the empty
drain, then `plain`, `ticketed` or `refused`. `work[c]` is that of the call's
own goroutine and, once it has sent, of the settler. `job`, `running` and `ring`
are `manager.jobs` (state only), `running` and `settled`. `sinkOwner[c]` holds
the goroutine that won a settle and still has to call the sink, which `Settle`
does after its unlock. `job_kill` is a call like any other, because the wrap
treats it so; inside it `KillLooks`, `KillCancels`, `KillSettles`, `KillAnswers`
are the steps of `manager.Kill`, with `FireSink` in between if it won.

| action | code |
|---|---|
| `Refuse`, `Dispatch` | `jobwrap.go:28-49` |
| `TakeDone`, `GraceExpires`, `DrainDone`, `DrainEmpty`, `Begin` | `jobwrap.go:50-78`, `jobmgr.go:162-173` |
| `Finish` | the tool's work, `jobwrap.go:39-49` (result, error, recovered panic) |
| `SettlerTakes`, `SettlerSettles`, `FireSink` | `jobwrap.go:79-92`, `jobmgr.go:180-204` |
| `KillLooks` ... `KillAnswers` | `jobmgr.go:226-247` |
| `DrainSettled` | `jobmgr.go:272-278`, called at `nativetools.go:265` and `ocserveturn.go:568` |

Abstracted: result texts, durations, arguments, the two renderings of the ring.
A failed call and a panic are both `err`. A job id is its call. A call is
dispatched at most once. The limit of a chat is a constant: `SetMaxPerSession`
(`jobmgr.go:134-141`) is announced as a tool of the model, but its one caller,
`runJobSetMax` (`localtools.go:880`), is called from nowhere and no tool definition
names `job_set_max`, so no reachable state has a changed limit.

### CanvasRoom

A *batch* is one op and the *doc* the set of ops folded in; the doc plane has
four keys in the code that are written together, so one set stands for it. The
loop of `Room.Run` is `room[r].loop`: `select`, then, for every checkpoint,
`ckpt` (before the lock), `read`, `wrote`, `folded`, `done`, and `draining`
after the loop was left. `task` says which handler the checkpoint belongs to.
`dropped`, `voided`, `latest`, `gc`, `members` are the fields of `Room`; `idle`
and `tick` the two timer goroutines. The channels are not separate variables: a
request waits in its client (`queued`, `joining`, `leaving`), and their number
is compared with the channel's capacity. `client[c].pc` is the handler's place,
with the loads of `NewRoom` (`row`, `head`, `tail`, `built`) statement by
statement. `journal` and `row` survive a `Crash`; nothing else does.

`Room` is a set of *slots*: a `Room` value whose loop has returned and that no
handler refers to is reused, so a behaviour may have any number of room
lifetimes.

A member that has its room joins it, or its WebSocket upgrade fails
(`UpgradeFails`, `collablive.go:88-98`): the handler returns without a join, and
the room it obtained, perhaps created, is registered with nobody in it.

`stamped`, `clock` and `acked` are history variables: the code never reads them.

`SlowLoads` separates two worlds. With `FALSE` a room does not finish dying
(`Unregister`) while some creator is inside `NewRoom`: a load takes a few
statements and a dying room at least as many, usually a 2 s timer more. With
`TRUE` nothing bounds a load; section 6 says what follows.

### CanvasHost

`host` is the one request of the owner in flight. A PUT carries the state as it
was at any earlier seq `n` (`doc = Prefix(n)`), stamped with `n` or bare.
`PutEnters` to `PutFolds` is the critical section of `collabMu`; the room's
`ServeMember` and `ServePoster` append without that lock, as in the code. A
room's slot stays taken while the request refers to it (`KeepsSlot`), as the
handler's pointer does.

### ChatWire

`log` is the session's `chat_events` (only the kind of a row; `seq` and `i` are
its position). `current` is the session's entry in `chatPipes` and `owner[p]` the
socket of pipe `p`; `handler[c]` is the goroutine of `handleChatWS` of connection
`c`, with the pipe it obtained, and after its read loop failed its `reapIdleChat`.
`wire[c]` are the frames of its socket, `client` the fields of `ChatClient` that
replay needs, `panel` the chat's folded rows, `lastEventI`, `isStreaming` and
`_terminalSeen`.

`emitter[e]` is a goroutine that emits: its pipe, and the row between the two
halves of an emit, because `AppendEvent` and `pipe.send` are two statements with
no lock around both. There are three. `turn` is `handleTurn`: `asked` from the
frame on, with the pipe of the handler that read it, `runs` once it has the turn
lock. `auto` is the sentinel's continuation: it looks at the lock, obtains a pipe
and runs without the lock. `side` is a job that settles beside them; its pipe is
an argument, evaluated before the append. Everybody keeps the pipe it obtained,
and a pipe nobody can reach any more may be the next new one (`Spare`), so a
behaviour may have any number of pipes.

| action | code |
|---|---|
| `SendHere`, `TurnBegins`, `TurnRow`, `EndTurn` (`AppendRow`) | `chatpanel.js:7366-7461`, `chat.go:1487-1569`, `2882-2920`, `1772-1788`, `store/events.go:27-62` |
| `AutoLooks`, `AutoBinds` | `retrysentinel.go:522-557` |
| `SideBinds`, `SideAppends` | `server.go:237-239` |
| `EmitSend` | `chat.go:3274-3405`, `130-140` |
| `BindPipe`, `Swap`, `ListRows`, `Replay`, `HandlerGone` | `chat.go:118-128`, `158-182`, `990-1061`, `events.go:66-85` |
| `ReapLooks`, `ReapSees`, `ReapDeletes` | `chat.go:926-942`, with `Busy` for `sessionBusy` (899-917) |
| `Connect`, `Drop`, `Receive`, `ReceiveDone` | `chatclient.js:109-242` |
| `Folded`, `AtReplayDone`, `Bootstrapped` | `chatpanel.js:4504-4633`, `3825-3856` |
| `Reload` | `chatpanel.js:3969-3994` |

`Messages` folds the rows into bubbles as `handleEvent` and `roundFlowApply` do;
it is there because the truth arm reads the last bubble. Two variables are
history. `raced`: a frame was written while older rows had still to go first.
`orphaned`: a reaper deleted the map's entry while somebody held that pipe, to
write into it or to wait at it. They split the promises into what holds
(`NoHoleUnlessRaced` and `ButtonTellsTheTurn`, proved, and `CatchesUp`) and what
does not (`NoHole`, `TurnKeepsItsPipe`, section 6). A reaper that finds a pipe
nobody holds is not `orphaned`: fresh pipes alone lose nothing.

### ChatClient

The page is a single JavaScript heap and a callback runs to its end, so each
function of the source is an operator from a page to a page (`Connect`,
`OnOpen`, `OnClosed`, `ScheduleReconnect`, `Resync`, `ClientSend`, `ClientStop`,
`Close`, `DoSend`, `Flush`, `OnTerminal`, `Sweep`), and an action is one
callback: a tap (`TapSend`, `TapQueue`, `TapStop`, `TapQueued`, `ChangeModel`,
`Leave`, `Regain`), a timer (`LadderFires`, `ResyncFires`, `ReviveTicks`,
`CheckSends`, `CheckGivesUp`), an event of a socket (`SocketOpens`,
`SocketFails`, `SocketCloses`, `Receive`) or a step of the engine (`Deliver`,
`TurnEnds`, `Release`: the terminal row goes out before the deferred unlock,
`chat.go:1547-1569`). `page.sock[s]` keeps sockets the client has forgotten,
because their close still arrives; `muted` are those whose handlers `close()`
removed. `ladder` and `resyncs` count timers that are set. The network is up,
down, or frozen (the constructor throws). Sockets are `1..2 * MaxRegains + 1`: a
closed socket's number is used again, and a page never needs more at once, which
`ChatClient_proofs` shows (`SpareNow`), so that no connect fails for want of a
number. A queued row is tapped by its index (`TapQueued(i)`), as in the code.

### CanvasClient

`session` is the `SharedDocSession` (phase, cursor, baseline, pending, ids), and
`world` what the page shows. `Diff` is `diffDocs` and `Apply` is `applyOpToDoc`,
per icon, with the laws for add, set and remove; `Foreign` holds the skip law
(`collabcore.js:423-470`), `Acked` and `AckFrame` the two ways an ack comes. The
loops over a batch (`ApplyAll`, `IncomingAll`, `AckFrameAll`) are recursive
functions from the number of ops walked to what the walk has made. The room is what `CanvasRoom` has inside: a journal that stamps, a doc that folds;
here its batches are taken in one step and it may trim. `Others` are devices
that submit what they like. Requests are in flight as records (`posts`, `read`)
and land late or fail.

The properties are about an unwounded session. A *wound* names one event, at its
place in the code, after which page and room may differ for good: a batch lost
with its socket, refused, or overtaken by a younger one; a save that derived no
op; an HTTP ack that moved the cursor over ops not seen; an op applied after a
younger one; a replay that lacked trimmed ops. `Converges` says there is no
eighth, and is proved (section 5). Each wound was found as a counterexample, and a
mutant of each protecting law shows that the property notices.

### Worlds

`row` are the engine's canvases, `scratch` and `pointer` the page's
localStorage, `tab` the page (active world, content, last saved body `memo`, the
debounce `due`, the `dirty` slot, the calm `timer`), `get` and `puts` requests in
flight. A content is the set of its edits, each tagged with its world, so that a
row tells which edits it has and whose they are.

| action | code |
|---|---|
| `Edit`, `SaveTimer` (`SaveNow`, `WorldsSave`) | `app.js:3005-3068`, `worlds.js:217-223` |
| `Flush`, `PutLands`, `PutAnswered`, `CalmFails`, `NowFails` | `worlds.js:225-283`, `canvases.go:133-250` |
| `Hidden`, `Close`, `Kill`, `Evict` | `app.js:2982-2991`; the browser |
| `BootHeals`, `BootFromRow`, `BootOffline`, `BootMigrates` | `worlds.js:52-76`, `176-207` |
| `Restore`, `Create`, `SwitchStart`, `SwitchLands`, `SwitchFails` | `app.js:3570-3733`, `worldsmanager.js:277-303` |

PUTs land in any order, once or, if they fail, perhaps not at all. `Kill` is the
page that dies without its teardown handlers. The ten wounds of `SavedIsKept` are
the events that lose a saved edit. One, `blank`, is a boot that cannot reach the
engine and finds no scratch, with a row there or a PUT to it still in flight; two
(`overwritten`, `stranger`) cross worlds, and only `stranger` puts one world's
content into another's row.

### RetrySentinel

`timers` is `rs.timers`; `timer[t]` is a `retryTimer` (its signal `key`,
`listeners`, `stopped`, and `closed` for the state of its stop channel) with the
place of its loop: `new` until `Arm` starts the goroutine, `wait`, `probe`, then
`unlist`, `close`, `fan` after a recovery or `list`, `pace` after a failed probe.
`thread` has one entry per chat for the turn its user started, and one per
continuation goroutine; `key` is the signal it parks on or continues, `made` the
timer its `Arm` has still to start. `row[c]` is the durability row
`retry.sentinel.<sid>`, `tail[c]` the last row of the chat's log, which the boot
scan looks at, and `open[c]` whether that log lacks a terminal row, which the
boot's healing looks at. `rs.mu` is held for the whole of `Disarm` and is
`disarm.by`; other sections under a mutex are one step. Timers and continuations
are objects that are reused when free, so any number may live in a behaviour.

| action | code (`retrysentinel.go` unless named) |
|---|---|
| `ArmLocks`, `ArmSaves` | 161-232 |
| `UserStarts`, `DisarmVisits`, `DisarmPeeks`, `DisarmKills`, `DisarmReturns`, `DisarmPills` | 294-324, called by `chat.go:1428-1433` |
| `TurnRuns`, `TurnEnds`, `TurnFails`, `TurnParks`, `TurnArms`, `TurnCloses` | `chat.go:1262-1361`, `3150-3231`, `llm/chat.go:484-502` |
| `AutoLooks`, `AutoRearms`, `AutoContinues` | 522-557 |
| `LoopWakes` ... `LoopWaits` | 352-438 |
| `Restarted`, `ScanLists`, `ScanChecks`, `ScanArms`, `ScanEnds` | `server.go:390-431`, 577-639 |

Abstracted: delays, intervals and attempt counts (a timer may fire at any time);
the probe's request (it answers either way); the wording of pills; the setting
that switches the sentinel off; a deleted chat; one `Disarm` at a time per chat,
as one user sends. `parked`, `lost`, `panicked` and `used` are history: `parked`
are the chats whose newest turn parked, `lost` those a restart left without a
timer, which is a finding (section 6) and not an excuse: the properties say what
holds of all others.

## 3. The runs

| run | question | bounds | result |
|---|---|---|---|
| `JobLanes` | all lane properties and the refinement, with liveness | 1 chat, 1 tool, 2 kills, guard 2, 2 callers | pass, 82,132 states |
| `JobLanesTwoChats` | how far may the guard be overrun, whose counter | 3 tools + 1 kill in 2 chats, guard 1, 2 callers | pass, 1.6 M states |
| `CanvasRoom` | safety with crashes | 1 member, 1 poster, 3 ops + 1 refused, trim after 2, 2 slots | pass, 0.5 M states |
| `CanvasRoomLive` | liveness | 1 member, 1 poster, 2 ops + 1 refused, failing upgrades, no crash | pass, 33,466 states |
| `CanvasHost` | PUT of any age and DELETE against rooms | 1 request, no trim by checkpoints, crashes | pass, 3.8 M states |
| `ChatWire` | order, holes, the stop button, catching up | window 2, 3 rows, 2 frames per socket, 2 connections, 2 pipes | pass, 541,105 states |
| `ChatClient` | sent once, one socket, never stranded | 2 messages, 2 + 1 rungs, 1 frame, 2 failures, 1 regain | pass, 1.0 M states |
| `CanvasClient` | convergence, no echo, no deaf icon | 2 icons, 2 values, 2 edits, 1 foreign op, 1 break, 2 POSTs, trim | pass, 4.1 M states |
| `CanvasUnsent` | does the user's last word reach the room (`collabcore.js:418-419`) | 1 icon | violated |
| `Worlds` | own world, saved is kept, scheduled | 2 worlds, 2 edits, 2 switches, 2 boots, 1 fault | pass, 3.2 M states |
| `RetrySentinel` | parked is held, one timer per signal, none unheard | 2 chats, 1 signal, 2 timers, 2 continuations, 2 parks, 3 user turns | pass, 2.3 M states |
| `RetrySentinelLive` | is a parked chat continued | 1 chat, 1 signal, 3 timers, 2 continuations, 1 park, 2 user turns, 1 crash | pass, 0.19 M states |

Why the bounds are enough to be interesting. Two kills and one tool give every
race on one job: kill against finish, kill against kill, kill of a kill that is
a lane itself. Three ops with a trim after two make a full trim followed by an
append, the case the clock law is about; two clients make a raced creation, a
full submit queue (`SubmitBuffer = 1`) and a request queued at a drop; two
slots hold a dying room and its successor at once. `CanvasHost` sets the
threshold of the trim above the number of ops, because with the trim the gate is
open (section 6): the pass says what holds without it.

`ChatWire`: three rows with a window of two let a bootstrap start in the middle
of a turn; two connections are a takeover, with the older handler still
replaying, or a connection beside the reaper of the one before; two pipes are the
one that was reaped and its successor; two frames are enough to hold a row, a live frame behind it and a
blocked third. What the numbers would hide is proved for all of them (section
5). `ChatClient`: the ladder of two rungs ends within one outage, so that failed
and revive happen; two failures make an outage during the recovery of another;
one regain gives an old socket that closes under a new one; two messages give a
queue with an order. `CanvasClient`: the shapes that matter are an own op and a
foreign op on one icon, and the same on another icon to see that nothing leaks;
two edits give an edit, and an edit back. `Worlds`: two worlds are all a switch
can confuse, two boots a death and the heal after it; two edits of one world
tell the younger PUT from the older.

`RetrySentinel`: two chats on one signal are a shared timer, with one listener
leaving while the other stays, joins or is recovered; two timers hold one that
was stopped and the fresh one of the same signal; three turns of the users make
a disarm after a park and again after a continuation. `RetrySentinelLive` has a
third timer: with one park and one crash the chat can hold at most a stopped
timer that has not left, a fresh one, and that of a second arm, so a liveness
counterexample cannot come from the bound on objects. `ParkedIsHeld` holds in
that instance, with its crash, as well.

Symmetry is used in safety runs only, over slots, posters, members and good
ops, none of which any definition tells apart.

`CHECK_DEADLOCK FALSE` is set where the system may really stop: calls are a
finite set, a deleted canvas leaves nothing to do, and a page whose user is done
and whose requests have ended rests.

Every type invariant is proved (section 5), for all instances; the runs spend
their time on the properties above instead.

Properties worth a comment:

* `ExactlyOneVoice` is the code's once-delivery law over all channels at once;
  the drain at `jobwrap.go:72` is what it hangs on.
* `CapacityWithinCallers` is the guard the code really has: it is read at
  dispatch and the lane is registered a window later, so a chat may exceed it
  by the callers let in meanwhile.
* `AckedIsRecoverable` relates the answer an author got to the two durable
  tables, at every crash point: row, or journal beyond the row's stamp, which
  is exactly what `NewRoom` reads.
* `StampTellsTheDoc` is what makes load, replay and PUT gate correct.
* `NoPhantomMember` depends on the leave channel's capacity: a full channel
  loses the departure (`room.go:344`). The runs have room for every leaver, as
  16 slots have in the code unless many leave at once.
* `VacatedRoomEnds` is about rooms that were used: one that serves a batch without
  members, or the leave of its last member, ends unless somebody joins, whatever
  refused batches, failed upgrades and late requests come in between. A room that
  only a refused batch or a failed upgrade ever saw does not end (`UnheldRoomEnds`,
  refuted, section 6).
* `NoHoleUnlessRaced`, `ButtonTellsTheTurn` and `CatchesUp` exempt behaviours in
  which a held pipe was reaped. That is a bug of its own (section 6), and after it
  all three do fail; before it they cover reapers that delete idle pipes.
* `ButtonTellsTheTurn` is about the guess at replay_done: the panel sees rows, not
  the turn, and a settled job may stand between them.
* `SentOnce` counts the places of a message over the poll of `doSend`, the panel's
  queue, the client's frame queue, every socket, and the engine's answer. A place
  in a sequence is an index, so the same message twice on one socket is two.
* `ParkedIsHeld` says at every step where a parked chat is: with a timer, in a
  recovery's hands, in a goroutine's, or still to be visited by the boot scan.
* `NeverStranded` is an invariant, not a leads-to: at every moment something is
  pending that will try again, which is stronger and easier to refute.

## 4. Fairness

`JobLanes`: weak fairness of the caller's, settler's, sink's and killer's steps:
these goroutines only run straight code, a timer and a channel that is ready.
None on `Finish` (a tool may run for ever), `Dispatch` or `DrainSettled`.
`LaneEndsAsRow` therefore starts from a lane whose work has ended or that
somebody stops. The refinement's liveness needs `GraceEnabled`.

`CanvasRoom`: weak fairness of loads, requests, checkpoints, finishing and
timers; strong fairness of each case of the room's select, because Go's select
chooses uniformly among ready cases and a case that is ready again and again is
served. Strong, since a checkpoint leaves the select in between. A connection
closes only when its room has closed it (`Disconnected`); members may stay for
ever, and nobody has to call.

`ChatWire`: weak fairness of each emitter's write, each handler and its reaper,
the client's connect and its reading, and of noticing a socket the engine closed.
None on turns, broken sockets or reloads. A frame that cannot be written waits
for the reader (`MaxWire`), as a blocked socket write does. `ChatClient`: weak fairness
of the timers that are set, of socket events, and of the network's return (an
outage ends; nothing is said of a network that is down for ever). None on the
user or the turn. `RetrySentinel`: weak fairness of every goroutine, of `Disarm`
and of the scan, which run straight code between a mutex and a timer; a turn
ends. Strong fairness of `LoopRecovers`: a signal that is probed again and again
clears in the end, as without it nothing can be promised. None on the user or on
crashes. `CanvasClient` and `Worlds` state no fairness: their properties
are safety, `NoDeafIcon` and `PayloadIsScheduled` standing for what would
otherwise be liveness.

## 5. Proofs

Each proof module extends the module it is about and names its theorems as the
tables do. Every theorem is for all values of the constants under the module's
named assumption; a further hypothesis is part of the theorem's statement.

`JobLanes_proofs` proves for every set of calls, kills, chats and every limit:

| theorem | says |
|---|---|
| `TypeCorrect` | `Spec => []TypeOK` |
| `NeverTransitionHolds` | terminal jobs never change |
| `OneRow` | `Spec => []ExactlyOneRow` |
| `RunningCounts` | `Spec => []RunningCountsWorking` |
| `CapacityHolds` | `Spec => []CapacityWithinCallers` |
| `OneVoice` | `Spec => []ExactlyOneVoice` |
| `ContextHolds` | `Spec => []ContextFollowsLane` |
| `LanesImplementLedger` | `Spec => Ledger!LedgerSafety` under `entries` |

Assumptions: `CallsAssumption` (a finite set of calls, kills among them) and
`LimitsAssumption`. The argument: `TypeOK` is inductive; `KillAims` (a killer
holds a registered target) and `NoPhantomLane` (a lane exists exactly for a
ticketed call) complete it to `RegInv`, which each further invariant uses: a
settle only ever touches a working job, and it makes exactly one ring entry,
one decrement and one sink owner. `ExactlyOneVoice` needs how many entries of a
job a ring holds, which `OccurrencesAppend` counts under `Append`; capacity needs
the strengthening `CapacityInv`, lanes plus calls in flight, because the guard
is read before a call is in flight and the lane registered after. That a context
dies of its own outcome or of a kill only needs `CancelsFirst` (a killer that is
about to settle has cancelled) and `FreshIsIdle`; what released a lane goes
forward only, so it stays released. The refinement
maps a call to its ledger entry and shows each action to be one ledger move or a
stutter (`CallerSimulates`, `SettleSimulates`, `DrainSimulates`).

`CanvasRoom_proofs` proves for every set of rooms, members, posters and batches,
every channel size and trim threshold, and any number of crashes
(`CanvasAssumption`, `BoundsAssumption`):

| theorem | says |
|---|---|
| `TypeCorrect` | `Spec => []TypeOK` |
| `OneWriterAtATime` | `Spec => []OneWriter` |
| `ClockNeverRewindsAtAll` | `Spec => ClockNeverRewinds` |
| `StampAlwaysTells` | `Spec => []StampTellsTheDoc` under `~SlowLoads` |
| `RoomAlwaysCurrent` | `Spec => []RoomHoldsTheDoc` under `~SlowLoads` |
| `NothingAckedIsLost` | `Spec => []AckedIsRecoverable` under `~SlowLoads` |
| `DeadRoomAlwaysFlushed` | `Spec => DeadRoomIsFlushed` |
| `NoPhantoms` | `Spec => []NoPhantomMember` under `RoomForLeaves` |

The invariants come in layers, each stepped over the ones before it. `TypeInv`
adds to the types that the journal has a last entry and that a room serves a
poster that is there. `WriterInv`: the registered room's loop is alive, and no
other is. `ClockInv`: nothing claims a seq past the clock, and the clock stands in
the journal or in the row's watermark; an append takes the higher of the two,
hence its successor, also after a trim that left the journal empty. `PendingInv`:
a batch is stamped when it is served and in one hand only. `DocInv` is what makes
an acknowledgement durable, and has three parts that need each other: row and
journal hold every stamped op between them (`StoreInv`), the registered room's
doc is the prefix up to the clock (`CurrentInv`), and what a load has read so far
is still true of the store as long as nobody has registered (`LoadsInv`). The
last is false when a load may outlive a dying room, which is the finding of
section 6; so the three theorems that use it assume `~SlowLoads`, and the others do
not. `FlushedInv` is the part of a last checkpoint that survives slow loads.
`MembersInv` needs `RoomForLeaves`, a leave channel with a place for every member:
a full one loses a departure.

`CanvasHost_proofs` extends it by the owner's row requests. The rooms' steps keep
what they kept, and only the statements of a PUT and a DELETE are new:

| theorem | says |
|---|---|
| `HostTypeCorrect` | `HostSpec => []HostTypeOK` |
| `OrphansAreVoided` | `HostSpec => []OrphanIsVoided` |
| `StampAlwaysSurvives` | `HostSpec => []StampSurvivesPuts` under `~SlowLoads`, `NoTrim` |
| `AcceptedAlwaysFresh` | `HostSpec => []AcceptedPutIsFresh` under `~SlowLoads`, `NoTrim` |

`RowInv` is the room's layers as long as nothing was voided, with `MutexInv` (who
is in `collabMu`), `PutInv` (a PUT carries a prefix of the doc, and past its gate
one that is no older than the row) and `CountInv`. The last says that the journal
keeps the clock's own op, which is where the gate reads the head; it holds for
fewer ops than the threshold (`NoTrim`), and a full trim does open the gate
(section 6).

`ChatWire_proofs` proves for every window, log, socket buffer and number of
connections and pipes (`WireAssumption`: they are naturals, and positive where the code
needs one):

| theorem | says |
|---|---|
| `TypeCorrect` | `Spec => []TypeOK` |
| `ShownInOrder` | `Spec => []InOrderOnce` |
| `DeliveryHolds` | `Spec => []Delivery` |
| `NoHoleWithoutRace` | `Spec => []NoHoleUnlessRaced` |
| `ButtonAlwaysTells` | `Spec => []ButtonTellsTheTurn` |

Rows reach the panel through whichever pipe their emitter obtained, so the first
question is who holds which. `Bound` answers it: who emits or waits has a pipe
(`Equipped`); a pipe's owner is a handler that holds this pipe, hence no other
(`Owned`); and as long as no held pipe was reaped, every holder's pipe is the map's
entry (`OnePipe`). `pipeFor` keeps the last because a fresh pipe is only made when
the map has none, and then nobody holds any; a reaper keeps it because deleting the
entry of a held pipe is what `orphaned` records. Under `OnePipe` the live feed has
one owner, `feed`, and the rest of the argument speaks of it.

`InOrderOnce` follows from `Ascending`: the rows shown ascend and none exceeds
`lastEventI`. That a transcript has no hole is not inductive: one has to say
where the rows are that the panel does not show yet. `Delivery` says it. The
client's cursor is the panel's; only the client's own socket carries frames; and
as long as nothing raced and no held pipe was reaped (`Calm`), a frame's predecessor is folded or ahead of it on the
socket (`Stepwise`), the client has every row before the next one of its
handler's replay (`Behind`), rows the replay did not read are in their
emitters' hands (`Ahead`), and after the replay every row has reached the client
or is about to be written (`Caught`). A written frame keeps this because its
predecessor was `Got` (`Appended`), a received one because it is the next
(`Taken`), a connect because `since = lastSeq` asks for exactly what is missing,
a reload because the bootstrap ends at the newest row. The two ways to break it
with one pipe, a write while the pipe's owner is still replaying and a write past
an older unwritten row, are `raced`; the third, a second pipe, is `orphaned`.

`ButtonTellsTheTurn` speaks of a quiet moment, so its invariant says what is still
to come at every other one. `Ended`: what a turn writes is followed by its end, or
the turn runs. `EndComes`: a panel that reads Stop, or would at a marker, has that
end before it. `ArmComes`: an open reply that was folded from a replay (`Mute`) has
a marker before it on its connection, on the wire or in the handler's replay, and
`Got` of the delivery invariant says that nothing before the marker is lost. What
the arm reads is the last bubble, and `Messages` is a recursive function of the
rows; that an open bubble means a row of a turn in progress (`DeltaIsMidTurn`)
follows from its unfolding and the principle that a nonempty set of naturals has
a least element.

`ChatClient_proofs` proves for any messages, ladders, failures and returns of the
page (`ClientAssumption`):

| theorem | says |
|---|---|
| `TypeCorrect` | `Spec => []TypeOK` |
| `OneSocketAtATime` | `Spec => []OneLiveSocket` |
| `AttemptAlwaysAhead` | `Spec => []NeverStranded` |
| `SentAtMostOnce` | `Spec => []SentOnce` |
| `ReportedNeverSent` | `Spec => []ReportedIsNotSent` |

The functions of the page are operators, so each has a lemma that says what its
result has of its argument (`ConnectKeeps`, `ClosedKeeps`, `SendKeeps`, ...), and an
action composes them. `Current`: only the client's own socket connects or is
open, and nobody muted it. `Budget` counts: closing sockets and resync timers are
at most two for each return of the page, and one more when the chat was left, so
a connect always finds a number (`SpareNow`). Without that, `Connect` would have
no socket to take and nothing could be said of it; the count also showed that an
earlier bound on `Sock` was too small for two returns. `OnceInv`: the page carries a
message in one place at most (`Once`), and in none before it was typed, after it
was reported, and once the engine has answered it; each operator is `Tame`, it
makes no second place. `TryInv`: a client that counts as connected has a socket
that will still report its close, one that is resyncing has the timer that ends
it (`Linked`), and an active turn has its next attempt (`Retries`).

`Worlds_proofs` proves for every set of worlds and all bounds
(`WorldsAssumption`):

| theorem | says |
|---|---|
| `TypeCorrect` | `Spec => []TypeOK`, one calm PUT at a time included |
| `RowsKeepTheirWorld` | `Spec => []OwnWorldUnlessCrossed` |
| `PayloadsAreScheduled` | `Spec => []PayloadIsScheduled` |
| `SavedAlwaysKept` | `Spec => []SavedIsKept` |

The inductive invariant `IInv` has five parts: the types; `OneCalm`, since
`syncing` admits one calm PUT; `Scheduled`; `PageOwn`, that until a boot crossed
worlds the page, its dirty slot, the scratch and every PUT in flight carry only
the content of the world they are tagged with; `EngineOwn`, the same of the rows
and of what a GET has read. A row is written only from a PUT and a page only
from a row, the scratch or an edit, so neither of the last two is inductive
without the other.

`SavedIsKept` rests on two facts about the *newest* state of a world, wherever it
is: it has all that was saved there (`Tells`), and somebody other than the scratch
holds it (`Rests`), unless the scratch is all there is (`Alone`: the page died, or
has come back and not saved yet), because the next world's save takes the scratch
over. An order on states (`at`, the save they come from) makes the argument one
about maxima. The proof failed on a boot without engine and without scratch while
the row exists: that boot starts from nothing and its first save overwrites. It
is the wound `blank`.

`RetrySentinel_proofs` proves for every set of chats, signals, timers and
continuations and all bounds, crashes and panics included
(`SentinelAssumption`):

| theorem | says |
|---|---|
| `TypeCorrect` | `Spec => []TypeOK` |
| `SharedTimerLaw` | `Spec => []OneTimerPerSignal` |
| `LastListenerOut` | `Spec => []UnheardTimerIsKilled` |
| `ParkedAlwaysHeld` | `Spec => []ParkedIsHeld` |

The law follows from a statement about the registry: a timer that is not stopped
is registered under its signal (`LiveInv`). To keep it one must know who takes
entries out: `Disarm`, of a timer that stays registered as long as it holds
`rs.mu` (`DisarmInv`), and a loop, of itself after it was stopped (`RegistryInv`:
what is registered and stopped is about to unlist itself). `MadeInv` says that an
object is not reused while an `Arm` has still to start its loop; `ThreadInv` and
`ScanInv` that whoever arms has a chat and a signal. Actions that share a
footprint share a lemma (`ThreadMoves`, `LoopGoes`, `LoopGone`,
`RegisteredAnew`). `ParkedIsHeld` needs `HeldInv`: a parked chat is in the hands of
this engine (`Handled`), or waits for the scan with its row and the error that
ends its log, and nobody who could take either away (`Waits`). A chat that parks
while its own `Disarm` holds `rs.mu` is still before its `Arm`, so no timer of that
`Disarm` has it; and a timer about to be killed has no listener, so nobody is lost
with it.

`CanvasClient_proofs` proves for every finite set of icons, every set of values
and all bounds, dropped sockets, lost answers, refusals and trims included
(`CanvasClientAssumption`):

| theorem | says |
|---|---|
| `TypeCorrect` | `Spec => []TypeOK` |
| `PagesConverge` | `Spec => []Converges` |
| `NothingEchoes` | `Spec => []IconsNeverEcho` |
| `NoIconStaysDeaf` | `Spec => []NoDeafIcon` |

The three speak of an unwounded session, and so does their invariant, `Sound`: as
long as `wounds` is empty there is a history `R` of the room's docs, one for each
length of the journal, that the room (`RoomOK`) and the page (`PageOK`) agree with.
No step heals a wound (`WoundsStay`), so a step into an unwounded state starts in
one. `RoomOK` says what may be under way: batches of `diffDocs` with ops in
ascending order, none of which the journal has (`Outgoing`, `Rows`); the frames of
the open socket, which lead without a gap from a row the page has heard to the
journal's end (`Arriving`); answers that quote the journal (`Answered`); that an
add is the first the room hears of an icon and a remove the last it makes of it
(`Lives`); and that the user made whatever is said in the device's name
(`OwnWords`).

`PageOK` has two layers. Always: the page has heard exactly the rows up to its
cursor, and what waits for an ack is what is still under way or stamped beyond
the cursor (`Waiting`), which with `Arriving` gives `NoDeafIcon`; where world and
baseline differ the user made it so (`Meant`), an icon the baseline lacks is news
to everyone (`Fresh`), and so on for each icon (`IconOK`), from which comes
`IconsNeverEcho`: a save ships the difference of the two. As long as, besides, the
room has read no op before an older one of the device (`Orderly`): baseline and
world are `R` at the cursor with the ops that wait on top (`Agrees`); the baseline
as to which icons there are, for with the skip law it holds older values than
the world, and the world as to the values as well. At rest the cursor is at the
journal's end and nothing waits, and `Agrees` reads `world = doc`.

The device's own rows come back as acks, which leave world and baseline alone, so
the heart of the proof is a foreign op (`Foreign`) on an icon for which an own op
waits: it keeps `Agrees` because the waiting op will be folded after it, unless a
law of the fold makes the later op void (a set of what was removed, a second
add). `Sorted`, `Lives` and `AddsAreFresh` exclude those, or show both sides to
end without the icon (`Gone`). Each walk over a batch is a function with a step for
every op, and what a step keeps a walk keeps (`UpTo`, by the least counterexample).

A rebase is the answer to a refusal, and a refusal is a wound: an unwounded
session never rebases (`NoRebase`). What the theorems say of adoption, saves,
acks, sockets and replays they do not say of rebase, whose steps `TypeCorrect` and
the runs cover.

Only model-checked: the liveness of lanes, rooms, feed, client and sentinel and the
fairness part of the refinement (leads-to, fairness and ENABLED are beyond the
prover); that the violations exist; and that a walk over a batch means what the
code's loop does, which is its definition.

## 6. Findings

Recorded in `PROJECT.json` with their lines. `CanvasUnsent` is a run of its own.
Others are stated as a definition that a module has and TLC refutes; to see the
counterexample, name the definition in the cfg given here:

| definition | what the code does | cfg |
|---|---|---|
| `KillNeverRefused` (`JobLanes`) | `job_kill` is refused at the guard it should relieve | `JobLanes.cfg` with `MaxPerSession = 1` |
| `StoppedIsCancelled` (`JobLanes`) | STOPPED may be answered for a job that completed | `JobLanes.cfg` |
| `AckedIsRecoverable` (`CanvasRoom`) | a slow load can register a doc that predates acknowledged ops | `CanvasRoom.cfg`, `SlowLoads = TRUE`, two posters, two ops, no crash |
| `UnheldRoomEnds` (`CanvasRoom`) | a failed upgrade, or a refused first batch, leaks a room | `CanvasRoomLive.cfg` |
| `AcceptedPutIsFresh` (`CanvasHost`) | a stale PUT passes the gate after a full trim | `CanvasHost.cfg`, `GCThreshold = 2`, `MaxRequests = 2`, `HostActs = {"stamped"}` |
| `VoidedNeverWrites` (`CanvasHost`) | a voided room may still write | `CanvasHost.cfg`, `MaxRequests = 2`, `HostActs = {"bare"}` |
| `FailedIsRevived` (`ChatClient`) | a failed client may have no revive poll | `ChatClient.cfg` |
| `StateTellsTheSocket` (`ChatClient`) | the late close of an old socket marks the new one as dead | `ChatClient.cfg` |
| `ClosedStaysClosed` (`ChatClient`) | the resync timer reopens a closed client | `ChatClient.cfg` |
| `FollowUpIsAccepted` (`ChatClient`) | a queued message sent at idle may find the turn lock held | `ChatClient.cfg` |
| `NoHole` (`ChatWire`) | a reconnect may miss a row for good (`chatclient.js:117-118`) | `ChatWire.cfg` |
| `TurnKeepsItsPipe` (`ChatWire`) | a reaper deletes the pipe of a running turn (`chat.go:922-925`) | `ChatWire.cfg` |
| `OwnWorld` (`Worlds`) | a row may carry another world's content (`worlds.js:48-49`) | `Worlds.cfg` |
| `OneTurnPerChat` (`RetrySentinel`) | a continuation runs without the turn lock, beside a send | `RetrySentinel.cfg` |
| `EngineSurvives` (`RetrySentinel`) | `Disarm` and a recovery close one channel twice | `RetrySentinel.cfg` |
| `ParkSurvivesRestart` (`RetrySentinel`) | the boot scan drops a chat whose log ends with a pill; it joins a stopped timer | `RetrySentinelLive.cfg` (as an invariant) |

Seven more were met while reading for the models and are quoted in
`PROJECT.json` without a definition: older pages of a transcript are dropped by
the dedupe; a batch counted as sent may never reach the room and leave its icons
deaf; the hello of a join below the journal's first row is ignored; `switchTo`
ends the shared session before it saves; a job's row between two deltas splits a
reply in two; the seam nudge of a continuation is never sent after a park; its
masking of error rows stops at the first status row.

## 7. Not modelled

In the modelled parts: frames to members, presence and its loop, slow-client
disconnects, `EvictDevice`, authorisation, store errors, canvas names and
thumbs; coalesced thinking, tool rows, progress and pagination of the feed;
`continue` and the queue of a reopened chat; a second page of a chat, the refused and
the taken-over turn in the feed, and the second half of `reapIdleChat`
(`chat.go:944-952`), which deletes the turn lock's map entry; the busy refusal of a
send after its `Disarm` in the sentinel; the 409 branch of a PUT (`worlds.js:239-252`); members, dots and the owner's PUT
in the shared session; looks, import and deletion of worlds; attempts, delays and
settings of the sentinel.

Whole components: see `not_modelled` in `PROJECT.json`. Most of the lines of the
web client draw: markup, sheets, gestures, geometry, forms over a single fetch
(`app.js`, `hub.js`, `lattice.js`, `workspace.js`, `modelbrowser.js`,
`persona.js`, `appearance.js`, the larger part of `chatpanel.js`), beside vendored
libraries, rigs and scripts. They keep no state another actor races with, and a
model of them would restate them. So the map names the protocol code, and its
share of all lines stays small.

## 8. Plan

1. Done: `CallLedger`, `JobLanes`, `CanvasRoom`, `CanvasHost`, `ChatWire`,
   `ChatClient`, `CanvasClient`, `Worlds`, `RetrySentinel`.
2. Done: the proofs about all the detailed ones; every safety property that a
   passing run checks is a theorem.
3. A composition of `Worlds` with a session of `CanvasClient`: what a switch does
   to the session's late promises.
4. `ChatTurn`: the turn lock with `lockSession`, `sessionBusy` and the reaper that
   deletes its channel, stop, the open door for stale turns, continue and the turn's own
   retries, composed with `RetrySentinel`'s frame of a turn.
5. `CanvasEnroll`: invites, claims, approval, the polling mint, revocation and
   eviction. `Cooldown` and `RetryLadder`: windows per provider. `Phoenix`:
   single-flight revive with throttle.

There are twelve runs, each with a question of its own; a new one takes the
place of a violation run whose question a theorem or a definition settles.
