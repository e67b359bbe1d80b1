---------------------------- MODULE RetrySentinel ----------------------------
(***************************************************************************)
(* The retry sentinel (server/retrysentinel.go) between the turns of the   *)
(* chats (server/chat.go) and an engine that may die.                      *)
(*                                                                         *)
(* A turn that fails with a retryable signal parks: it arms its chat on    *)
(* the one timer of that signal and then ends.  The timer's loop waits,    *)
(* probes, and when the signal is gone hands every listener to a goroutine *)
(* of its own that continues the chat.  A send or a tap on continue        *)
(* disarms the chat first; the last listener out kills the timer.  A row   *)
(* in the store lets the next engine arm what this one had armed.          *)
(*                                                                         *)
(* A step is a critical section, a statement on the store or a channel     *)
(* operation.  rs.mu is held for the whole of Disarm and modelled as       *)
(* disarm.by; every other section under rs.mu or t.mu is one step.         *)
(* Durations, attempts and the wording of pills are left out: a timer may  *)
(* fire at any time, and a probe answers either way.                       *)
(***************************************************************************)
EXTENDS Integers, FiniteSets

CONSTANTS
    Chats,       \* sessions; also the threads of their own turns
    Signals,     \* class|provider
    Timers,      \* bound: retryTimer objects alive at once
    Autos,       \* bound: continuation goroutines alive at once
    None,
    MaxParks,    \* bound: turns that park
    MaxSends,    \* bound: turns the user starts
    MaxCrashes   \* bound: deaths of the engine other than by panic

ASSUME SentinelAssumption ==
    /\ Chats \cap Autos = {}
    /\ None \notin Chats \cup Signals \cup Timers \cup Autos
    /\ {"off", "list", "walk"} \cap Chats = {}
    /\ MaxParks \in Nat /\ MaxSends \in Nat /\ MaxCrashes \in Nat

Thread == Chats \cup Autos

VARIABLES
    timers,    \* rs.timers: the timer registered for a signal, or None
    timer,     \* per object: its fields and where its loop stands
    thread,    \* per turn or continuation goroutine: where it stands
    disarm,    \* the Disarm under way, which holds rs.mu
    row,       \* retry.sentinel.<sid>: the signal of the durability row
    tail,      \* the last row of the chat's log
    open,      \* a user row without a terminal status after it
    scan, due, \* sentinelBootScan: where it stands, the rows it has to visit
    parked,    \* history: the newest turn parked and nothing has run since
    lost,      \* history: parked chats a restart left without a timer
    panicked,  \* history: a channel was closed twice
    used       \* parks, sends and crashes so far

memory == <<timers, timer, thread, disarm, scan, due>>
store == <<row, tail, open>>
history == <<parked, lost, panicked, used>>
vars == <<memory, store, history>>

FreeTimer == [key |-> None, listeners |-> {}, stopped |-> FALSE, closed |-> FALSE,
              pc |-> "free", left |-> {}, at |-> None, seen |-> None]
FreeThread == [chat |-> None, key |-> None, pc |-> "free", made |-> None]
NoDisarm == [by |-> None, left |-> {}, at |-> None, had |-> FALSE, pc |-> "next"]

NewTimer(k, listeners, pc) ==
    [FreeTimer EXCEPT !.key = k, !.listeners = listeners, !.pc = pc]

TimerType ==
    [key : Signals \cup {None}, listeners : SUBSET Chats, stopped : BOOLEAN,
     closed : BOOLEAN, left : SUBSET Chats, at : Chats \cup {None},
     seen : Signals \cup {None},
     pc : {"free", "new", "wait", "probe", "unlist", "close", "fan", "list", "pace"}]

ThreadType ==
    [chat : Chats \cup {None}, key : Signals \cup {None}, made : Timers \cup {None},
     pc : {"free", "disarm", "pill", "lock", "run", "park", "save", "last",
           "sleep", "rearm", "resave", "going"}]

DisarmType ==
    [by : Chats \cup {None}, left : SUBSET Timers, at : Timers \cup {None},
     had : BOOLEAN, pc : {"next", "peek", "kill"}]

TypeOK ==
    /\ timers \in [Signals -> Timers \cup {None}]
    /\ timer \in [Timers -> TimerType]
    /\ thread \in [Thread -> ThreadType]
    /\ disarm \in DisarmType
    /\ row \in [Chats -> Signals \cup {None}]
    /\ tail \in [Chats -> {"none", "row", "error", "idle", "retry"}]
    /\ open \in [Chats -> BOOLEAN]
    /\ scan \in {"off", "list", "walk"} \cup Chats
    /\ due \in [Chats -> Signals \cup {None}]
    /\ parked \in SUBSET Chats /\ lost \in SUBSET Chats /\ panicked \in BOOLEAN
    /\ used \in [parks : 0..MaxParks, sends : 0..MaxSends, crashes : 0..MaxCrashes]

Init ==
    /\ timers = [k \in Signals |-> None]
    /\ timer = [t \in Timers |-> FreeTimer]
    /\ thread = [th \in Thread |-> FreeThread]
    /\ disarm = NoDisarm
    /\ row = [c \in Chats |-> None] /\ tail = [c \in Chats |-> "none"]
    /\ open = [c \in Chats |-> FALSE]
    /\ scan = "off" /\ due = [c \in Chats |-> None]
    /\ parked = {} /\ lost = {} /\ panicked = FALSE
    /\ used = [parks |-> 0, sends |-> 0, crashes |-> 0]
-----------------------------------------------------------------------------
RsFree == disarm.by = None

AtPc(th, pc) == thread[th].pc = pc

\* From the turn lock to its release: what sessionBusy sees of a user's turn,
\* and what a continuation does without the lock.
Running(th) == thread[th].pc \in {"run", "park", "save", "last"}

Busy(c) == Running(c)

\* A chat's turn has begun: whatever was parked is over.
Began(c) == parked' = parked \ {c} /\ lost' = lost \ {c}

Alive(t) == timer[t].pc # "free"

\* Which of the free objects and goroutines is taken makes no difference.
AnyOf(S) == IF S = {} THEN {} ELSE {CHOOSE x \in S : TRUE}

FreshTimer == AnyOf({t \in Timers : ~Alive(t)})

FreshAuto == AnyOf({a \in Autos : AtPc(a, "free")})

Unlisted(k) == [timers EXCEPT ![k] = None]

JoinableAny(t) == t # None      \* mutant: the stopped check dropped

\* A registered timer that was stopped has lost the race: build a fresh one.
Joinable(t) == t # None /\ ~timer[t].stopped

\* Arm under rs.mu: join the signal's timer, or register a new one.
ArmLocks(th, from, to) ==
    LET c == thread[th].chat
        k == thread[th].key
        t == timers[k]
    IN  /\ AtPc(th, from) /\ RsFree
        /\ \/ /\ Joinable(t)
              /\ timer' = [timer EXCEPT ![t].listeners = @ \cup {c}]
              /\ thread' = [thread EXCEPT ![th].pc = to]
              /\ UNCHANGED timers
           \/ /\ ~Joinable(t)
              /\ \E u \in FreshTimer :
                   /\ timer' = [timer EXCEPT ![u] = NewTimer(k, {c}, "new")]
                   /\ timers' = [timers EXCEPT ![k] = u]
                   /\ thread' = [thread EXCEPT ![th].pc = to, ![th].made = u]
        /\ UNCHANGED <<disarm, scan, due, store, history>>

\* mutant: the loop of a new timer is never started
ArmSavesOnly(th, from, next) ==
    /\ AtPc(th, from)
    /\ row' = [row EXCEPT ![thread[th].chat] = thread[th].key]
    /\ tail' = [tail EXCEPT ![thread[th].chat] = "retry"]
    /\ thread' = [thread EXCEPT ![th] = next]
    /\ UNCHANGED <<timers, timer, disarm, scan, due, open, history>>

\* Arm after its unlock: the durability row, the armed or busy pill, and the
\* loop of a new timer.
ArmSaves(th, from, next) ==
    /\ AtPc(th, from)
    /\ row' = [row EXCEPT ![thread[th].chat] = thread[th].key]
    /\ tail' = [tail EXCEPT ![thread[th].chat] = "retry"]
    /\ timer' = [t \in Timers |-> IF t = thread[th].made
                                  THEN [timer[t] EXCEPT !.pc = "wait"] ELSE timer[t]]
    /\ thread' = [thread EXCEPT ![th] = next]
    /\ UNCHANGED <<timers, disarm, scan, due, open, history>>
-----------------------------------------------------------------------------
(* Disarm, by the user's send or tap on continue.                          *)

UserStarts(c) ==
    /\ used.sends < MaxSends /\ AtPc(c, "free") /\ RsFree
    /\ used' = [used EXCEPT !.sends = @ + 1]
    /\ thread' = [thread EXCEPT ![c] = [FreeThread EXCEPT !.chat = c, !.pc = "disarm"]]
    /\ disarm' = [NoDisarm EXCEPT !.by = c,
                                  !.left = {timers[k] : k \in Signals} \ {None}]
    /\ Began(c)
    /\ UNCHANGED <<timers, timer, scan, due, store, panicked>>

\* One timer: the listener leaves under t.mu, the row goes with it.
DisarmVisits(t) ==
    LET c == disarm.by
        kept == timer[t].listeners \ {c}
    IN  /\ c # None /\ disarm.pc = "next" /\ t \in disarm.left
        /\ timer' = [timer EXCEPT ![t].listeners = kept]
        /\ row' = IF c \in timer[t].listeners THEN [row EXCEPT ![c] = None] ELSE row
        /\ disarm' = [disarm EXCEPT !.left = @ \ {t}, !.at = t,
                                    !.had = @ \/ c \in timer[t].listeners,
                                    !.pc = IF kept = {} THEN "peek" ELSE "next"]
        /\ UNCHANGED <<timers, thread, tail, open, scan, due, history>>

\* t.stopped is read after t.mu was given back.
DisarmPeeks ==
    /\ disarm.pc = "peek"
    /\ disarm' = [disarm EXCEPT !.pc = IF timer[disarm.at].stopped THEN "next" ELSE "kill"]
    /\ UNCHANGED <<timers, timer, thread, scan, due, store, history>>

\* mutant: the last listener leaves, the timer stays
DisarmSpares ==
    /\ disarm.pc = "kill"
    /\ disarm' = [disarm EXCEPT !.pc = "next"]
    /\ UNCHANGED <<timers, timer, thread, scan, due, store, history>>

DisarmKills ==
    LET t == disarm.at IN
    /\ disarm.pc = "kill"
    /\ timer' = [timer EXCEPT ![t].stopped = TRUE, ![t].closed = TRUE]
    /\ timers' = Unlisted(timer[t].key)
    /\ disarm' = [disarm EXCEPT !.pc = "next"]
    /\ UNCHANGED <<thread, scan, due, store, history>>

DisarmReturns ==
    /\ disarm.by # None /\ disarm.pc = "next" /\ disarm.left = {}
    /\ thread' = [thread EXCEPT ![disarm.by].pc = IF disarm.had THEN "pill" ELSE "lock"]
    /\ disarm' = NoDisarm
    /\ UNCHANGED <<timers, timer, scan, due, store, history>>

\* The pill closes after rs.mu was given back.
DisarmPills(c) ==
    /\ AtPc(c, "pill")
    /\ thread' = [thread EXCEPT ![c].pc = "lock"]
    /\ tail' = [tail EXCEPT ![c] = "retry"]
    /\ UNCHANGED <<timers, timer, disarm, row, open, scan, due, history>>

DisarmStep == (\E t \in Timers : DisarmVisits(t)) \/ DisarmPeeks \/ DisarmKills \/ DisarmReturns
-----------------------------------------------------------------------------
(* Turns: the user's, and continuations on the same code without the lock. *)

\* A send writes its user row under the turn lock; a continue writes none.
TurnRuns(c, isSend) ==
    /\ AtPc(c, "lock")
    /\ thread' = [thread EXCEPT ![c].pc = "run"]
    /\ tail' = [tail EXCEPT ![c] = "row"]
    /\ open' = [open EXCEPT ![c] = @ \/ isSend]
    /\ UNCHANGED <<timers, timer, disarm, row, scan, due, history>>

\* The terminal status row, then the release of whatever the thread held.
Ends(th, from, state) ==
    /\ AtPc(th, from)
    /\ tail' = [tail EXCEPT ![thread[th].chat] = state]
    /\ open' = [open EXCEPT ![thread[th].chat] = FALSE]
    /\ thread' = [thread EXCEPT ![th] = FreeThread]
    /\ UNCHANGED <<timers, timer, disarm, row, scan, due, history>>

TurnEnds(th) == Ends(th, "run", "idle")

TurnFails(th) == Ends(th, "run", "error")

\* The error row of a retryable failure is persisted; Arm follows it.
TurnParks(th, k) ==
    /\ AtPc(th, "run") /\ used.parks < MaxParks
    /\ used' = [used EXCEPT !.parks = @ + 1]
    /\ thread' = [thread EXCEPT ![th].pc = "park", ![th].key = k]
    /\ tail' = [tail EXCEPT ![thread[th].chat] = "row"]
    /\ parked' = parked \cup {thread[th].chat}
    /\ lost' = lost \ {thread[th].chat}
    /\ UNCHANGED <<timers, timer, disarm, row, open, scan, due, panicked>>

TurnArms(th) == ArmLocks(th, "park", "save")

TurnSaves(th) == ArmSaves(th, "save", [thread[th] EXCEPT !.pc = "last", !.made = None])

TurnCloses(th) == Ends(th, "last", "error")

\* autoContinue: a busy chat listens again, a free one is continued.
AutoLooks(a) ==
    /\ AtPc(a, "sleep")
    /\ thread' = [thread EXCEPT ![a].pc = IF Busy(thread[a].chat) THEN "rearm" ELSE "going"]
    /\ UNCHANGED <<timers, timer, disarm, scan, due, store, history>>

AutoRearms(a) == ArmLocks(a, "rearm", "resave")

AutoResaves(a) == ArmSaves(a, "resave", FreeThread)

AutoContinues(a) ==
    /\ AtPc(a, "going")
    /\ thread' = [thread EXCEPT ![a].pc = "run"]
    /\ tail' = [tail EXCEPT ![thread[a].chat] = "row"]
    /\ Began(thread[a].chat)
    /\ UNCHANGED <<timers, timer, disarm, row, open, scan, due, panicked, used>>

TurnStep(th) ==
    \/ TurnEnds(th) \/ TurnFails(th) \/ TurnArms(th) \/ TurnSaves(th) \/ TurnCloses(th)
    \/ \E k \in Signals : TurnParks(th, k)

UserStep(c) == TurnStep(c) \/ DisarmPills(c) \/ \E isSend \in BOOLEAN : TurnRuns(c, isSend)

AutoStep(a) ==
    TurnStep(a) \/ AutoLooks(a) \/ AutoRearms(a) \/ AutoResaves(a) \/ AutoContinues(a)
-----------------------------------------------------------------------------
(* The engine dies: memory is gone; healInterruptedTurns closes open turns *)
(* before the next engine serves, and the boot scan starts beside it.      *)
Restarted ==
    /\ timers' = [k \in Signals |-> None]
    /\ timer' = [t \in Timers |-> FreeTimer]
    /\ thread' = [th \in Thread |-> FreeThread]
    /\ disarm' = NoDisarm
    /\ tail' = [c \in Chats |-> IF open[c] THEN "error" ELSE tail[c]]
    /\ open' = [c \in Chats |-> FALSE]
    /\ scan' = "list" /\ due' = [c \in Chats |-> None]
    /\ lost' = lost \cup {c \in parked : row[c] = None \/ tail'[c] # "error"}
    /\ UNCHANGED <<row, parked>>

Crash ==
    /\ used.crashes < MaxCrashes
    /\ used' = [used EXCEPT !.crashes = @ + 1]
    /\ Restarted /\ UNCHANGED panicked

ScanLists ==
    /\ scan = "list"
    /\ due' = row
    /\ scan' = "walk"
    /\ UNCHANGED <<timers, timer, thread, disarm, store, history>>

\* Only a chat whose last row is a status error is armed again.
ScanChecks(c) ==
    /\ scan = "walk" /\ due[c] # None
    /\ \/ tail[c] = "error" /\ scan' = c /\ UNCHANGED due
       \/ tail[c] # "error" /\ due' = [due EXCEPT ![c] = None] /\ UNCHANGED scan
    /\ UNCHANGED <<timers, timer, thread, disarm, store, history>>

\* A registered timer is joined without a look at stopped.
ScanArms(c) ==
    LET k == due[c]
        t == timers[k]
    IN  /\ scan = c /\ RsFree
        /\ \/ /\ t # None
              /\ timer' = [timer EXCEPT ![t].listeners = @ \cup {c}]
              /\ lost' = IF timer[t].stopped THEN lost \cup ({c} \cap parked) ELSE lost
              /\ UNCHANGED timers
           \/ /\ t = None
              /\ \E u \in FreshTimer :
                   /\ timer' = [timer EXCEPT ![u] = NewTimer(k, {c}, "wait")]
                   /\ timers' = [timers EXCEPT ![k] = u]
              /\ UNCHANGED lost
        /\ tail' = [tail EXCEPT ![c] = "retry"]
        /\ due' = [due EXCEPT ![c] = None]
        /\ scan' = "walk"
        /\ UNCHANGED <<thread, disarm, row, open, parked, panicked, used>>

ScanEnds ==
    /\ scan = "walk" /\ \A c \in Chats : due[c] = None
    /\ scan' = "off"
    /\ UNCHANGED <<timers, timer, thread, disarm, due, store, history>>

ScanStep == ScanLists \/ ScanEnds \/ \E c \in Chats : ScanChecks(c) \/ ScanArms(c)
-----------------------------------------------------------------------------
(* The loop of a timer.                                                    *)

LoopMoves(t, from, to) ==
    /\ timer[t].pc = from
    /\ timer' = [timer EXCEPT ![t].pc = to]
    /\ UNCHANGED <<timers, thread, disarm, scan, due, store, history>>

\* The delay is over, or the network came back.
LoopWakes(t) == ~timer[t].stopped /\ LoopMoves(t, "wait", "probe")

\* The stop channel, or stopped found set before or after the probe.
LoopEnds(t) ==
    /\ timer[t].pc \in {"wait", "probe"} /\ timer[t].stopped
    /\ timer' = [timer EXCEPT ![t] = FreeTimer]
    /\ UNCHANGED <<timers, thread, disarm, scan, due, store, history>>

\* The signal is gone: the listeners are taken over under t.mu.
LoopRecovers(t) ==
    /\ timer[t].pc = "probe" /\ ~timer[t].stopped
    /\ timer' = [timer EXCEPT ![t].stopped = TRUE, ![t].left = timer[t].listeners,
                              ![t].listeners = {}, ![t].pc = "unlist"]
    /\ UNCHANGED <<timers, thread, disarm, scan, due, store, history>>

\* mutant: whatever timer stands there
LoopUnlistsAny(t) ==
    /\ timer[t].pc = "unlist" /\ RsFree
    /\ timer' = [timer EXCEPT ![t].pc = "close"]
    /\ timers' = Unlisted(timer[t].key)
    /\ UNCHANGED <<thread, disarm, scan, due, store, history>>

\* Only its own entry, under rs.mu.
LoopUnlists(t) ==
    /\ timer[t].pc = "unlist" /\ RsFree
    /\ timer' = [timer EXCEPT ![t].pc = "close"]
    /\ timers' = IF timers[timer[t].key] = t THEN Unlisted(timer[t].key) ELSE timers
    /\ UNCHANGED <<thread, disarm, scan, due, store, history>>

\* close(t.stop); on a closed channel it panics, in a goroutine that does
\* not recover.
LoopCloses(t) ==
    /\ timer[t].pc = "close"
    /\ \/ /\ ~timer[t].closed
          /\ timer' = [timer EXCEPT ![t].closed = TRUE, ![t].pc = "fan"]
          /\ UNCHANGED <<timers, thread, disarm, scan, due, store, history>>
       \/ timer[t].closed /\ Restarted /\ panicked' = TRUE /\ UNCHANGED used

\* A listener's row is dropped, its recovered pill written, its goroutine
\* started.
LoopFans(t, c) ==
    /\ timer[t].pc = "fan" /\ c \in timer[t].left
    /\ \E a \in FreshAuto :
         thread' = [thread EXCEPT ![a] = [chat |-> c, key |-> timer[t].key,
                                          pc |-> "sleep", made |-> None]]
    /\ timer' = [timer EXCEPT ![t].left = @ \ {c}]
    /\ row' = [row EXCEPT ![c] = None]
    /\ tail' = [tail EXCEPT ![c] = "retry"]
    /\ UNCHANGED <<timers, disarm, open, scan, due, history>>

LoopReturns(t) ==
    /\ timer[t].pc = "fan" /\ timer[t].left = {}
    /\ timer' = [timer EXCEPT ![t] = FreeTimer]
    /\ UNCHANGED <<timers, thread, disarm, scan, due, store, history>>

LoopFails(t) == ~timer[t].stopped /\ LoopMoves(t, "probe", "list")

\* listenersOf: of whatever timer the signal has by now.
LoopLists(t) ==
    LET u == timers[timer[t].key] IN
    /\ timer[t].pc = "list" /\ RsFree
    /\ timer' = [timer EXCEPT ![t].pc = "pace",
                              ![t].left = IF u = None THEN {} ELSE timer[u].listeners]
    /\ UNCHANGED <<timers, thread, disarm, scan, due, store, history>>

\* The probe pill of one listener, and the read of its row.
LoopPaces(t, c) ==
    /\ timer[t].pc = "pace" /\ timer[t].at = None /\ c \in timer[t].left
    /\ tail' = [tail EXCEPT ![c] = "retry"]
    /\ timer' = [timer EXCEPT ![t].left = @ \ {c}, ![t].seen = row[c],
                              ![t].at = IF row[c] = None THEN None ELSE c]
    /\ UNCHANGED <<timers, thread, disarm, row, open, scan, due, history>>

\* The row is written back with the new count, whether it is still there.
LoopRewrites(t) ==
    /\ timer[t].pc = "pace" /\ timer[t].at # None
    /\ row' = [row EXCEPT ![timer[t].at] = timer[t].seen]
    /\ timer' = [timer EXCEPT ![t].at = None, ![t].seen = None]
    /\ UNCHANGED <<timers, thread, disarm, tail, open, scan, due, history>>

LoopWaits(t) ==
    timer[t].at = None /\ timer[t].left = {} /\ LoopMoves(t, "pace", "wait")

LoopStep(t) ==
    \/ LoopWakes(t) \/ LoopEnds(t) \/ LoopRecovers(t) \/ LoopUnlists(t) \/ LoopCloses(t)
    \/ LoopReturns(t) \/ LoopFails(t) \/ LoopLists(t) \/ LoopRewrites(t) \/ LoopWaits(t)
    \/ \E c \in Chats : LoopFans(t, c) \/ LoopPaces(t, c)
-----------------------------------------------------------------------------
Next ==
    \/ \E c \in Chats : UserStarts(c) \/ UserStep(c)
    \/ \E a \in Autos : AutoStep(a)
    \/ \E t \in Timers : LoopStep(t)
    \/ DisarmStep \/ ScanStep \/ Crash

\* Goroutines are scheduled, a turn ends, and a signal that is probed again
\* and again is gone in the end.
Spec ==
    /\ Init /\ [][Next]_vars
    /\ \A c \in Chats : WF_vars(UserStep(c))
    /\ \A a \in Autos : WF_vars(AutoStep(a))
    /\ \A t \in Timers : WF_vars(LoopStep(t)) /\ SF_vars(LoopRecovers(t))
    /\ WF_vars(DisarmStep) /\ WF_vars(ScanStep)
-----------------------------------------------------------------------------
(* Properties.                                                             *)

Listening(c) ==
    \E k \in Signals : Joinable(timers[k]) /\ c \in timer[timers[k]].listeners

Recovering(c) == \E t \in Timers : timer[t].pc \in {"unlist", "close", "fan"} /\ c \in timer[t].left

Underway(c) == \E th \in Thread : /\ thread[th].chat = c
                                  /\ thread[th].pc \in {"park", "sleep", "rearm", "going"}

Scanning(c) == scan = "list" \/ due[c] # None

\* A chat whose newest turn parked is never dropped: it listens on a live
\* registered timer, is in a recovery's hands, or a goroutine carries it;
\* after a restart the scan still has it, unless the restart lost it.  (Arm,
\* Disarm, loop and autoContinue against each other and the boot scan.)
ParkedIsHeld ==
    \A c \in parked \ lost : Listening(c) \/ Recovering(c) \/ Underway(c) \/ Scanning(c)

\* THE SHARED TIMER LAW (retrysentinel.go:14): two timers that are not
\* stopped never probe the same signal, whatever stops, joins and restarts
\* meet in the registry.
OneTimerPerSignal ==
    \A t, u \in {v \in Timers : Alive(v) /\ ~timer[v].stopped} :
        timer[t].key = timer[u].key => t = u

\* A parked chat is continued, or its user takes over (retrysentinel.go:9),
\* if the signal clears and a restart has not lost the chat.
ParkedIsContinued == \A c \in Chats : c \in parked ~> (c \notin parked \/ c \in lost)

\* The last listener out kills the timer (retrysentinel.go:285): one that is
\* not stopped has a listener, but while Disarm is between the listener's
\* leave and the kill.
UnheardTimerIsKilled ==
    \A t \in Timers :
        (Alive(t) /\ ~timer[t].stopped /\ timer[t].listeners = {})
            => disarm.at = t /\ disarm.pc \in {"peek", "kill"}

\* One turn at a time in a chat: the continuation keeps the lock contract of
\* the turns it stands in for (chat.go:83, 1294).
OneTurnPerChat ==
    \A c \in Chats : Cardinality({th \in Thread : thread[th].chat = c /\ Running(th)}) <= 1

\* No channel is closed twice: the engine survives every Disarm (chat.go:1434).
EngineSurvives == ~panicked

\* The durability rows bring every parked chat through a restart
\* (retrysentinel.go:28).
ParkSurvivesRestart == lost = {}
=============================================================================
