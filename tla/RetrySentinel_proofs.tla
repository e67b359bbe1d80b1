------------------------ MODULE RetrySentinel_proofs ------------------------
(***************************************************************************)
(* What holds of RetrySentinel for any chats, signals and bounds, through  *)
(* crashes and panics: the types; at most one timer per signal that is not *)
(* stopped; a timer nobody listens to is on its way to be killed; a chat   *)
(* that parked is held until it runs again.                                *)
(*                                                                         *)
(* The argument is about the registry.  A timer that is not stopped is     *)
(* registered under its signal, so two of them have two signals.  What     *)
(* makes this inductive is who may unregister: Disarm, of a timer that is  *)
(* registered for as long as Disarm holds rs.mu, and a loop, of itself and *)
(* after it was stopped.  And an object is not reused while an Arm still   *)
(* has to start its loop.                                                  *)
(***************************************************************************)
EXTENDS RetrySentinel, TLAPS

\* Timer t is the one registered for its signal.
Registered(t) == timer[t].key \in Signals /\ timers[timer[t].key] = t

\* What is registered is alive, and was stopped only by its own recovery,
\* which is about to unlist it.
RegistryInv ==
    \A k \in Signals :
        timers[k] # None =>
            /\ timer[timers[k]].key = k
            /\ timer[timers[k]].pc \notin {"free", "close", "fan"}
            /\ timer[timers[k]].stopped => timer[timers[k]].pc = "unlist"

\* What runs has a signal; unless stopped it is registered and heard, but for
\* the Disarm that has just emptied it.
LiveInv ==
    \A t \in Timers :
        Alive(t) =>
            /\ timer[t].key \in Signals
            /\ timer[t].pc \in {"unlist", "close", "fan"} => timer[t].stopped
            /\ ~timer[t].stopped => /\ timers[timer[t].key] = t
                                    /\ \/ timer[t].listeners # {}
                                       \/ disarm.at = t /\ disarm.pc \in {"peek", "kill"}

\* The timer an Arm made waits for that Arm alone.
MadeInv ==
    /\ \A th \in Thread :
         thread[th].made # None =>
             timer[thread[th].made].pc = "new" /\ thread[th].pc \in {"save", "resave"}
    /\ \A th, ot \in Thread :
         thread[th].made # None /\ thread[th].made = thread[ot].made => th = ot

\* A Disarm holds rs.mu: what it still has to visit or kill stays registered.
DisarmInv ==
    /\ disarm.by = None => disarm.pc = "next"
    /\ disarm.by # None =>
         /\ thread[disarm.by].pc = "disarm" /\ thread[disarm.by].chat = disarm.by
         /\ \A t \in disarm.left : Registered(t)
         /\ disarm.at \notin disarm.left
         /\ disarm.pc # "next" => disarm.at \in Timers /\ Registered(disarm.at)

\* A thread under way has a chat, one that parks or continues a signal.
ThreadInv ==
    \A th \in Thread :
        /\ thread[th].pc # "free" => thread[th].chat \in Chats
        /\ thread[th].pc \in {"park", "save", "sleep", "rearm", "resave", "going"}
               => thread[th].key \in Signals

ScanInv == scan \in Chats => due[scan] \in Signals

\* The two halves of the types: memory, and what outlives it.
Typed ==
    /\ timers \in [Signals -> Timers \cup {None}]
    /\ timer \in [Timers -> TimerType]
    /\ thread \in [Thread -> ThreadType]
    /\ disarm \in DisarmType

RestTyped ==
    /\ row \in [Chats -> Signals \cup {None}]
    /\ tail \in [Chats -> {"none", "row", "error", "idle", "retry"}]
    /\ open \in [Chats -> BOOLEAN]
    /\ scan \in {"off", "list", "walk"} \cup Chats
    /\ due \in [Chats -> Signals \cup {None}]
    /\ parked \in SUBSET Chats /\ lost \in SUBSET Chats /\ panicked \in BOOLEAN
    /\ used \in [parks : 0..MaxParks, sends : 0..MaxSends, crashes : 0..MaxCrashes]

IInv == Typed /\ RestTyped /\ RegistryInv /\ LiveInv /\ MadeInv /\ DisarmInv /\ ThreadInv /\ ScanInv
-----------------------------------------------------------------------------
LEMMA AnyOfIn ==
    ASSUME NEW S, NEW x \in AnyOf(S) PROVE x \in S
BY DEF AnyOf

LEMMA FreeTimerTyped ==
    /\ FreeTimer \in TimerType /\ ~FreeTimer.stopped /\ FreeTimer.pc = "free"
    /\ FreeTimer.key = None /\ FreeTimer.listeners = {}
BY SentinelAssumption DEF FreeTimer, TimerType

LEMMA FreeThreadTyped ==
    FreeThread \in ThreadType /\ FreeThread.pc = "free" /\ FreeThread.made = None
BY DEF FreeThread, ThreadType

LEMMA NewTimerTyped ==
    ASSUME NEW k \in Signals, NEW S \in SUBSET Chats, NEW pc \in {"new", "wait"}
    PROVE  LET n == NewTimer(k, S, pc) IN
           /\ n \in TimerType /\ n.key = k /\ n.listeners = S /\ n.pc = pc
           /\ ~n.stopped
BY DEF NewTimer, FreeTimer, TimerType

LEMMA InitHolds == Init => IInv
<1> SUFFICES ASSUME Init PROVE IInv
  OBVIOUS
<1> USE DEF Init
<1>1. Typed
  <2>1. NoDisarm \in DisarmType
    BY DEF NoDisarm, DisarmType
  <2> QED BY <2>1, FreeTimerTyped, FreeThreadTyped DEF Typed
<1>2. RestTyped
  <2>1. used \in [parks : 0..MaxParks, sends : 0..MaxSends, crashes : 0..MaxCrashes]
    BY SentinelAssumption
  <2> QED BY <2>1 DEF RestTyped
<1>3. RegistryInv
  BY DEF RegistryInv
<1>4. LiveInv
  BY FreeTimerTyped DEF LiveInv, Alive
<1>5. MadeInv
  BY FreeThreadTyped DEF MadeInv
<1>6. DisarmInv
  BY DEF DisarmInv, NoDisarm
<1>7. ThreadInv
  BY FreeThreadTyped DEF ThreadInv
<1>8. ScanInv
  BY SentinelAssumption DEF ScanInv
<1> QED BY <1>1, <1>2, <1>3, <1>4, <1>5, <1>6, <1>7, <1>8 DEF IInv
-----------------------------------------------------------------------------
(* What actions have in common.                                            *)

Registry == Typed /\ RegistryInv /\ LiveInv /\ MadeInv /\ DisarmInv /\ ThreadInv

\* A thread that holds no timer and runs no Disarm goes from place to place.
LEMMA ThreadMoves ==
    ASSUME Registry, NEW th \in Thread, NEW m \in ThreadType,
           thread[th].pc \notin {"disarm", "save", "resave"},
           thread' = [thread EXCEPT ![th] = m],
           m.made = None, m.pc # "free" => m.chat \in Chats,
           m.pc \in {"park", "save", "sleep", "rearm", "resave", "going"} => m.key \in Signals,
           UNCHANGED <<timers, timer, disarm>>
    PROVE  Registry'
<1> USE DEF Registry
<1>1. Typed'
  BY DEF Typed
<1>2. RegistryInv' /\ LiveInv'
  BY DEF RegistryInv, LiveInv, Alive
<1>3. MadeInv'
  BY DEF MadeInv, Typed
<1>4. DisarmInv'
  BY DEF DisarmInv, Registered, Typed
<1>5. ThreadInv'
  BY DEF ThreadInv, Typed
<1> QED BY <1>1, <1>2, <1>3, <1>4, <1>5

\* A running loop goes from place to place.
LEMMA LoopGoes ==
    ASSUME Registry, NEW t \in Timers, NEW n \in TimerType,
           timer[t].pc \notin {"free", "new"}, n.pc \notin {"free", "new"},
           timer' = [timer EXCEPT ![t] = n],
           n.key = timer[t].key, n.listeners = timer[t].listeners,
           n.stopped = timer[t].stopped,
           \/ timer[t].pc \notin {"unlist", "close", "fan"}
              /\ n.pc \notin {"unlist", "close", "fan"}
           \/ timer[t].pc = n.pc
           \/ timer[t].pc \in {"unlist", "close"} /\ n.pc \in {"close", "fan"}
              /\ timers[timer[t].key] # t,
           UNCHANGED <<timers, thread, disarm>>
    PROVE  Registry'
<1> USE DEF Registry
<1>1. Typed'
  BY DEF Typed
<1>2. RegistryInv'
  BY DEF RegistryInv, Typed
<1>3. LiveInv'
  BY DEF LiveInv, Alive, Typed
<1>4. MadeInv'
  BY DEF MadeInv, Typed
<1>5. DisarmInv'
  BY DEF DisarmInv, Registered, Typed
<1>6. ThreadInv'
  BY DEF ThreadInv
<1> QED BY <1>1, <1>2, <1>3, <1>4, <1>5, <1>6

\* A loop that was stopped ends: nobody else knows its timer.
LEMMA LoopGone ==
    ASSUME Registry, NEW t \in Timers, timer[t].stopped,
           timer[t].pc \in {"wait", "probe", "fan"},
           timer' = [timer EXCEPT ![t] = FreeTimer],
           UNCHANGED <<timers, thread, disarm>>
    PROVE  Registry'
<1> USE DEF Registry
<1>1. Typed'
  BY FreeTimerTyped DEF Typed
<1>2. RegistryInv'
  BY SentinelAssumption DEF RegistryInv, Typed
<1>3. LiveInv'
  BY FreeTimerTyped DEF LiveInv, Alive, Typed
<1>4. MadeInv'
  BY DEF MadeInv, Typed
<1>5. DisarmInv'
  BY SentinelAssumption DEF DisarmInv, Registered, RegistryInv, Typed, DisarmType
<1>6. ThreadInv'
  BY DEF ThreadInv
<1> QED BY <1>1, <1>2, <1>3, <1>4, <1>5, <1>6
\* A free object becomes the timer of a signal that has none, or a stopped one.
LEMMA RegisteredAnew ==
    ASSUME Typed, LiveInv, NEW k \in Signals, NEW u \in Timers, NEW n \in TimerType,
           timers[k] = None \/ timer[timers[k]].stopped,
           timer[u].pc = "free", n.key = k, n.listeners # {},
           n.pc \in {"new", "wait"}, timer' = [timer EXCEPT ![u] = n],
           timers' = [timers EXCEPT ![k] = u], disarm' = disarm
    PROVE  LiveInv'
<1> SUFFICES ASSUME NEW v \in Timers, Alive(v)'
             PROVE  /\ timer'[v].key \in Signals
                    /\ timer'[v].pc \in {"unlist", "close", "fan"} => timer'[v].stopped
                    /\ ~timer'[v].stopped =>
                          /\ timers'[timer'[v].key] = v
                          /\ \/ timer'[v].listeners # {}
                             \/ disarm'.at = v /\ disarm'.pc \in {"peek", "kill"}
  BY DEF LiveInv
<1>1. CASE v = u
  BY <1>1 DEF Typed
<1>2. CASE v # u
  <2>1. timer'[v] = timer[v] /\ Alive(v)
    BY <1>2 DEF Typed, Alive
  <2>2. ~timer[v].stopped => timer[v].key # k
    BY <2>1, SentinelAssumption DEF LiveInv
  <2> QED BY <2>1, <2>2 DEF LiveInv, Typed
<1> QED BY <1>1, <1>2
-----------------------------------------------------------------------------
(* Arm.                                                                    *)

LEMMA ArmLocksKeeps ==
    ASSUME IInv, NEW th \in Thread, NEW from \in {"park", "rearm"},
           NEW to \in {"save", "resave"}, ArmLocks(th, from, to)
    PROVE  IInv'
<1> DEFINE c == thread[th].chat
           k == thread[th].key
           t == timers[k]
<1> USE DEF IInv
<1>1. /\ c \in Chats /\ k \in Signals /\ disarm.by = None
      /\ thread[th].pc = from /\ thread[th].made = None
      /\ UNCHANGED <<disarm, scan, due, store, history>>
  BY DEF ArmLocks, ThreadInv, AtPc, RsFree, MadeInv
<1>2. RestTyped' /\ ScanInv' /\ DisarmInv'
  BY <1>1 DEF RestTyped, ScanInv, DisarmInv, store, history
<1>3. CASE /\ Joinable(t)
           /\ timer' = [timer EXCEPT ![t].listeners = @ \cup {c}]
           /\ thread' = [thread EXCEPT ![th].pc = to]
           /\ timers' = timers
  <2> DEFINE n == [timer[t] EXCEPT !.listeners = @ \cup {c}]
  <2>1. t \in Timers /\ ~timer[t].stopped
    BY <1>1, <1>3 DEF Joinable, Typed
  <2>2. /\ n \in TimerType /\ n.pc = timer[t].pc /\ n.key = timer[t].key
        /\ n.stopped = timer[t].stopped /\ n.listeners # {}
    BY <1>1, <2>1 DEF Typed, TimerType
  <2>3. timer' = [timer EXCEPT ![t] = n]
    BY <1>3
  <2> HIDE DEF n
  <2>4. Typed'
    BY <1>1, <1>3, <2>2, <2>3 DEF Typed, ThreadType
  <2>5. RegistryInv'
    BY <1>3, <2>1, <2>2, <2>3 DEF RegistryInv, Typed
  <2>6. LiveInv'
    BY <1>1, <1>3, <2>1, <2>2, <2>3 DEF LiveInv, Alive, Typed
  <2>7. MadeInv'
    BY <1>1, <1>3, <2>1, <2>2, <2>3 DEF MadeInv, Typed, ThreadType
  <2>8. ThreadInv'
    BY <1>1, <1>3 DEF ThreadInv, Typed, ThreadType
  <2> QED BY <1>2, <2>4, <2>5, <2>6, <2>7, <2>8
<1>4. ASSUME ~Joinable(t), NEW u \in FreshTimer,
             timer' = [timer EXCEPT ![u] = NewTimer(k, {c}, "new")],
             timers' = [timers EXCEPT ![k] = u],
             thread' = [thread EXCEPT ![th].pc = to, ![th].made = u]
      PROVE  IInv'
  <2> DEFINE n == NewTimer(k, {c}, "new")
             m == [thread[th] EXCEPT !.pc = to, !.made = u]
  <2>1. u \in Timers /\ timer[u].pc = "free"
    BY AnyOfIn DEF FreshTimer, Alive
  <2>2. /\ n \in TimerType /\ n.key = k /\ n.listeners = {c} /\ n.pc = "new"
        /\ ~n.stopped
    BY <1>1, NewTimerTyped
  <2>3. /\ m \in ThreadType /\ m.pc = to /\ m.made = u /\ m.chat = c /\ m.key = k
    BY <2>1 DEF Typed, ThreadType
  <2>4. timer' = [timer EXCEPT ![u] = n]
    BY <1>4 DEF n
  <2>5. thread' = [thread EXCEPT ![th] = m]
    BY <1>4 DEF Typed, ThreadType
  <2> HIDE DEF n, m
  <2>6. Typed'
    <3>1. timers' \in [Signals -> Timers \cup {None}]
      BY <1>4, <2>1 DEF Typed
    <3>2. timer' \in [Timers -> TimerType]
      BY <2>2, <2>4 DEF Typed
    <3>3. thread' \in [Thread -> ThreadType]
      BY <2>3, <2>5 DEF Typed
    <3> QED BY <1>1, <3>1, <3>2, <3>3 DEF Typed
  <2>7. RegistryInv'
    BY <1>1, <1>4, <2>1, <2>2, <2>4 DEF RegistryInv, Typed
  <2>8. LiveInv'
    BY <1>1, <1>4, <2>1, <2>2, <2>4, RegisteredAnew DEF Joinable
  <2>9. MadeInv'
    BY <1>1, <1>4, <2>1, <2>2, <2>3, <2>4, <2>5 DEF MadeInv, Typed
  <2>10. ThreadInv'
    BY <1>1, <2>3, <2>5 DEF ThreadInv, Typed
  <2> QED BY <1>2, <2>6, <2>7, <2>8, <2>9, <2>10
<1> QED BY <1>3, <1>4 DEF ArmLocks

\* next is what the thread does after its Arm.
LEMMA ArmSavesKeeps ==
    ASSUME IInv, NEW th \in Thread, NEW from \in {"save", "resave"},
           NEW next \in ThreadType, next.made = None,
           next.pc \notin {"save", "resave"}, next.pc # "free" => next.chat \in Chats,
           next.pc \in {"park", "sleep", "rearm", "going"} => next.key \in Signals,
           ArmSaves(th, from, next)
    PROVE  IInv'
<1> DEFINE u == thread[th].made
<1> USE DEF IInv
<1>1. /\ thread[th].pc = from /\ thread[th].chat \in Chats /\ thread[th].key \in Signals
      /\ thread' = [thread EXCEPT ![th] = next]
      /\ UNCHANGED <<timers, disarm, scan, due, open, history>>
  BY DEF ArmSaves, AtPc, ThreadInv
<1>2. RestTyped' /\ ScanInv'
  BY <1>1 DEF ArmSaves, RestTyped, ScanInv, history
<1>3. /\ \A t \in Timers : /\ timer'[t].key = timer[t].key
                           /\ timer'[t].stopped = timer[t].stopped
                           /\ timer'[t].listeners = timer[t].listeners
                           /\ timer'[t].pc = IF t = u THEN "wait" ELSE timer[t].pc
      /\ timer' \in [Timers -> TimerType]
  BY DEF ArmSaves, Typed, TimerType
<1>4. u # None => u \in Timers /\ timer[u].pc = "new"
  BY DEF MadeInv, Typed, ThreadType
<1>5. \A t \in Timers : Alive(t)' <=> Alive(t)
  BY <1>3, <1>4, SentinelAssumption DEF Alive
<1>6. Typed'
  BY <1>1, <1>3 DEF Typed
<1>7. RegistryInv'
  BY <1>1, <1>3, <1>4 DEF RegistryInv, Typed
<1>8. LiveInv'
  BY <1>1, <1>3, <1>4, <1>5, SentinelAssumption DEF LiveInv
<1>9. MadeInv'
  BY <1>1, <1>3, <1>4 DEF MadeInv, Typed, ThreadType
<1>10. DisarmInv'
  BY <1>1, <1>3 DEF DisarmInv, Registered, Typed, DisarmType
<1>11. ThreadInv'
  BY <1>1 DEF ThreadInv, Typed
<1> QED BY <1>2, <1>6, <1>7, <1>8, <1>9, <1>10, <1>11
-----------------------------------------------------------------------------
(* Disarm.                                                                 *)

LEMMA UserStartsKeeps ==
    ASSUME IInv, NEW c \in Chats, UserStarts(c) PROVE IInv'
<1> DEFINE m == [FreeThread EXCEPT !.chat = c, !.pc = "disarm"]
           all == {timers[k] : k \in Signals} \ {None}
           d == [NoDisarm EXCEPT !.by = c, !.left = all]
<1> USE DEF IInv
<1>1. /\ thread[c].pc = "free" /\ c \in Thread /\ disarm.by = None /\ c # None
      /\ thread' = [thread EXCEPT ![c] = m] /\ disarm' = d
      /\ UNCHANGED <<timers, timer, scan, due, store, panicked>>
  BY SentinelAssumption DEF UserStarts, AtPc, RsFree, Thread
<1>2. RestTyped'
  <2>1. used' \in [parks : 0..MaxParks, sends : 0..MaxSends, crashes : 0..MaxCrashes]
    BY SentinelAssumption DEF UserStarts, RestTyped
  <2> QED BY <1>1, <2>1 DEF UserStarts, Began, RestTyped, store
<1>3. m \in ThreadType /\ m.pc = "disarm" /\ m.chat = c /\ m.made = None
  BY DEF FreeThread, ThreadType
<1>a. all \in SUBSET Timers /\ None \notin all /\ \A t \in all : Registered(t)
  BY DEF Typed, RegistryInv, Registered
<1> HIDE DEF all
<1>4. d \in DisarmType /\ d.by = c /\ d.at = None /\ d.pc = "next" /\ d.left = all
  BY <1>a DEF NoDisarm, DisarmType
<1> HIDE DEF m, d
<1>5. Typed'
  BY <1>1, <1>3, <1>4 DEF Typed
<1>6. RegistryInv'
  BY <1>1 DEF RegistryInv
<1>7. LiveInv'
  BY <1>1 DEF LiveInv, Alive, DisarmInv
<1>8. MadeInv'
  BY <1>1, <1>3 DEF MadeInv, Typed
<1>9. DisarmInv'
  <2>1. \A t \in d.left : Registered(t)
    BY <1>4, <1>a
  <2>2. thread'[c] = m
    BY <1>1 DEF Typed
  <2> QED BY <1>1, <1>3, <1>4, <1>a, <2>1, <2>2 DEF DisarmInv, Registered
<1>10. ThreadInv'
  BY <1>1, <1>3 DEF ThreadInv, Typed
<1>11. ScanInv'
  BY <1>1 DEF ScanInv
<1> QED BY <1>2, <1>5, <1>6, <1>7, <1>8, <1>9, <1>10, <1>11

LEMMA DisarmVisitsKeeps ==
    ASSUME IInv, NEW t \in Timers, DisarmVisits(t) PROVE IInv'
<1> DEFINE c == disarm.by
           kept == timer[t].listeners \ {c}
           n == [timer[t] EXCEPT !.listeners = kept]
<1> USE DEF IInv
<1>1. /\ c # None /\ disarm.pc = "next" /\ t \in disarm.left /\ Registered(t)
      /\ UNCHANGED <<timers, thread, tail, open, scan, due, history>>
  BY DEF DisarmVisits, DisarmInv
<1>2. RestTyped' /\ ScanInv'
  BY <1>1 DEF DisarmVisits, RestTyped, ScanInv, history
<1>3. /\ n \in TimerType /\ n.key = timer[t].key /\ n.pc = timer[t].pc
      /\ n.stopped = timer[t].stopped /\ n.listeners = kept
  BY DEF Typed, TimerType
<1>4. timer' = [timer EXCEPT ![t] = n]
  BY DEF DisarmVisits
<1>5. /\ disarm' \in DisarmType /\ disarm'.by = c /\ disarm'.left = disarm.left \ {t}
      /\ disarm'.at = t
      /\ disarm'.pc = IF kept = {} THEN "peek" ELSE "next"
  BY <1>1 DEF DisarmVisits, Typed, DisarmType
<1> HIDE DEF n
<1>6. Typed'
  BY <1>1, <1>3, <1>4, <1>5 DEF Typed
<1>7. RegistryInv'
  BY <1>1, <1>3, <1>4 DEF RegistryInv, Typed
<1>8. LiveInv'
  BY <1>1, <1>3, <1>4, <1>5 DEF LiveInv, Alive, Typed
<1>9. MadeInv'
  BY <1>1, <1>3, <1>4 DEF MadeInv, Typed
<1>10. DisarmInv'
  <2>1. \A u \in Timers : Registered(u) => Registered(u)'
    BY <1>1, <1>3, <1>4 DEF Registered, Typed
  <2> QED BY <1>1, <1>5, <2>1 DEF DisarmInv, Typed, DisarmType
<1>11. ThreadInv'
  BY <1>1 DEF ThreadInv
<1> QED BY <1>2, <1>6, <1>7, <1>8, <1>9, <1>10, <1>11

LEMMA DisarmPeeksKeeps ==
    ASSUME IInv, DisarmPeeks PROVE IInv'
<1> USE DEF IInv
<1>1. /\ disarm.pc = "peek" /\ disarm.by # None
      /\ UNCHANGED <<timers, timer, thread, scan, due, store, history>>
  BY DEF DisarmPeeks, DisarmInv
<1>2. RestTyped' /\ ScanInv'
  BY <1>1 DEF RestTyped, ScanInv, store, history
<1>3. /\ disarm' \in DisarmType /\ disarm'.by = disarm.by /\ disarm'.left = disarm.left
      /\ disarm'.at = disarm.at
      /\ disarm'.pc = IF timer[disarm.at].stopped THEN "next" ELSE "kill"
  BY DEF DisarmPeeks, Typed, DisarmType
<1>4. Typed' /\ RegistryInv' /\ MadeInv' /\ ThreadInv'
  BY <1>1, <1>3 DEF Typed, RegistryInv, MadeInv, ThreadInv
<1>5. LiveInv'
  BY <1>1, <1>3 DEF LiveInv, Alive
<1>6. DisarmInv'
  BY <1>1, <1>3 DEF DisarmInv, Registered
<1> QED BY <1>2, <1>4, <1>5, <1>6

LEMMA DisarmKillsKeeps ==
    ASSUME IInv, DisarmKills PROVE IInv'
<1> DEFINE t == disarm.at
           n == [timer[t] EXCEPT !.stopped = TRUE, !.closed = TRUE]
<1> USE DEF IInv
<1>1. /\ disarm.pc = "kill" /\ disarm.by # None /\ t \in Timers /\ Registered(t)
      /\ t \notin disarm.left
      /\ timers' = [timers EXCEPT ![timer[t].key] = None]
      /\ UNCHANGED <<thread, scan, due, store, history>>
  BY DEF DisarmKills, DisarmInv, Unlisted
<1>2. RestTyped' /\ ScanInv'
  BY <1>1 DEF RestTyped, ScanInv, store, history
<1>3. /\ n \in TimerType /\ n.key = timer[t].key /\ n.pc = timer[t].pc /\ n.stopped
      /\ n.listeners = timer[t].listeners
  <2>1. timer[t] \in TimerType
    BY <1>1 DEF Typed
  <2> QED BY <2>1 DEF TimerType
<1>4. timer' = [timer EXCEPT ![t] = n]
  BY <1>1 DEF DisarmKills, Typed, TimerType
<1>5. /\ disarm' \in DisarmType /\ disarm'.by = disarm.by /\ disarm'.left = disarm.left
      /\ disarm'.at = t /\ disarm'.pc = "next"
  BY DEF DisarmKills, Typed, DisarmType
<1> HIDE DEF n
<1>6. Typed'
  BY <1>1, <1>3, <1>4, <1>5 DEF Typed
<1>7. RegistryInv'
  BY <1>1, <1>3, <1>4, SentinelAssumption DEF RegistryInv, Registered, Typed
<1>8. LiveInv'
  BY <1>1, <1>3, <1>4, <1>5 DEF LiveInv, Alive, Registered, Typed
<1>9. MadeInv'
  BY <1>1, <1>3, <1>4 DEF MadeInv, Typed
<1>10. DisarmInv'
  <2>1. \A u \in Timers : Registered(u) /\ u # t => Registered(u)'
    BY <1>1, <1>3, <1>4 DEF Registered, Typed
  <2> QED BY <1>1, <1>5, <2>1 DEF DisarmInv, Typed, DisarmType
<1>11. ThreadInv'
  BY <1>1 DEF ThreadInv
<1> QED BY <1>2, <1>6, <1>7, <1>8, <1>9, <1>10, <1>11

LEMMA DisarmReturnsKeeps ==
    ASSUME IInv, DisarmReturns PROVE IInv'
<1> DEFINE c == disarm.by
           m == [thread[c] EXCEPT !.pc = IF disarm.had THEN "pill" ELSE "lock"]
<1> USE DEF IInv
<1>1. /\ c \in Chats /\ c \in Thread /\ disarm.pc = "next"
      /\ thread[c].pc = "disarm" /\ thread[c].chat = c /\ thread[c].made = None
      /\ disarm' = NoDisarm
      /\ UNCHANGED <<timers, timer, scan, due, store, history>>
  BY DEF DisarmReturns, DisarmInv, MadeInv, Typed, DisarmType, Thread
<1>2. RestTyped' /\ ScanInv'
  BY <1>1 DEF RestTyped, ScanInv, store, history
<1>3. m \in ThreadType /\ m.chat = c /\ m.made = None /\ m.pc \in {"pill", "lock"}
  BY <1>1 DEF Typed, ThreadType
<1>4. thread' = [thread EXCEPT ![c] = m]
  BY DEF DisarmReturns
<1>5. NoDisarm \in DisarmType /\ NoDisarm.by = None /\ NoDisarm.pc = "next"
  BY DEF NoDisarm, DisarmType
<1> HIDE DEF m
<1>6. Typed'
  BY <1>1, <1>3, <1>4, <1>5 DEF Typed
<1>7. RegistryInv'
  BY <1>1 DEF RegistryInv
<1>8. LiveInv'
  BY <1>1 DEF LiveInv, Alive
<1>9. MadeInv'
  BY <1>1, <1>3, <1>4 DEF MadeInv, Typed
<1>10. DisarmInv'
  BY <1>1, <1>5 DEF DisarmInv
<1>11. ThreadInv'
  BY <1>1, <1>3, <1>4 DEF ThreadInv, Typed
<1> QED BY <1>2, <1>6, <1>7, <1>8, <1>9, <1>10, <1>11
-----------------------------------------------------------------------------
(* Turns and continuations.                                                *)

LEMMA DisarmPillsKeeps ==
    ASSUME IInv, NEW c \in Chats, DisarmPills(c) PROVE IInv'
<1> DEFINE m == [thread[c] EXCEPT !.pc = "lock"]
<1>1. /\ c \in Thread /\ thread[c].pc = "pill" /\ thread[c].made = None
      /\ thread[c].chat \in Chats /\ thread' = [thread EXCEPT ![c] = m]
      /\ UNCHANGED <<timers, timer, disarm, scan, due>>
  BY DEF DisarmPills, AtPc, IInv, MadeInv, ThreadInv, Thread
<1>2. RestTyped' /\ ScanInv'
  BY <1>1 DEF DisarmPills, IInv, RestTyped, ScanInv, history
<1>3. m \in ThreadType /\ m.pc = "lock" /\ m.made = None /\ m.chat = thread[c].chat
  BY <1>1 DEF IInv, Typed, ThreadType
<1> HIDE DEF m
<1>4. Registry /\ thread[c].pc \notin {"disarm", "save", "resave"}
  BY <1>1 DEF IInv, Registry
<1>5. Registry'
  BY <1>1, <1>3, <1>4, ThreadMoves
<1> QED BY <1>2, <1>5 DEF IInv, Registry

LEMMA TurnRunsKeeps ==
    ASSUME IInv, NEW c \in Chats, NEW isSend \in BOOLEAN, TurnRuns(c, isSend)
    PROVE  IInv'
<1> DEFINE m == [thread[c] EXCEPT !.pc = "run"]
<1>1. /\ c \in Thread /\ thread[c].pc = "lock" /\ thread[c].made = None
      /\ thread[c].chat \in Chats /\ thread' = [thread EXCEPT ![c] = m]
      /\ UNCHANGED <<timers, timer, disarm, scan, due>>
  BY DEF TurnRuns, AtPc, IInv, MadeInv, ThreadInv, Thread
<1>2. RestTyped' /\ ScanInv'
  BY <1>1 DEF TurnRuns, IInv, RestTyped, ScanInv, history
<1>3. m \in ThreadType /\ m.pc = "run" /\ m.made = None /\ m.chat = thread[c].chat
  BY <1>1 DEF IInv, Typed, ThreadType
<1> HIDE DEF m
<1>4. Registry /\ thread[c].pc \notin {"disarm", "save", "resave"}
  BY <1>1 DEF IInv, Registry
<1>5. Registry'
  BY <1>1, <1>3, <1>4, ThreadMoves
<1> QED BY <1>2, <1>5 DEF IInv, Registry

LEMMA EndsKeeps ==
    ASSUME IInv, NEW th \in Thread, NEW from \in {"run", "last"},
           NEW state \in {"idle", "error"}, Ends(th, from, state)
    PROVE  IInv'
<1>1. /\ thread[th].pc \notin {"disarm", "save", "resave"}
      /\ thread' = [thread EXCEPT ![th] = FreeThread]
      /\ UNCHANGED <<timers, timer, disarm, scan, due>>
  BY DEF Ends, AtPc
<1>2. RestTyped' /\ ScanInv'
  BY <1>1 DEF Ends, IInv, RestTyped, ScanInv, history
<1>3. Registry
  BY DEF IInv, Registry
<1>4. Registry'
  BY <1>1, <1>3, FreeThreadTyped, ThreadMoves
<1> QED BY <1>2, <1>4 DEF IInv, Registry

LEMMA TurnParksKeeps ==
    ASSUME IInv, NEW th \in Thread, NEW k \in Signals, TurnParks(th, k) PROVE IInv'
<1> DEFINE m == [thread[th] EXCEPT !.pc = "park", !.key = k]
<1>1. /\ thread[th].pc = "run" /\ thread[th].made = None
      /\ thread[th].chat \in Chats /\ thread' = [thread EXCEPT ![th] = m]
      /\ UNCHANGED <<timers, timer, disarm, scan, due, row, open, panicked>>
  BY DEF TurnParks, AtPc, IInv, MadeInv, ThreadInv, Typed, ThreadType
<1>2. RestTyped' /\ ScanInv'
  <2>1. used' \in [parks : 0..MaxParks, sends : 0..MaxSends, crashes : 0..MaxCrashes]
    BY SentinelAssumption DEF TurnParks, IInv, RestTyped
  <2> QED BY <1>1, <2>1 DEF TurnParks, IInv, RestTyped, ScanInv
<1>3. /\ m \in ThreadType /\ m.pc = "park" /\ m.made = None /\ m.key = k
      /\ m.chat = thread[th].chat
  BY <1>1 DEF IInv, Typed, ThreadType
<1> HIDE DEF m
<1>4. Registry /\ thread[th].pc \notin {"disarm", "save", "resave"}
  BY <1>1 DEF IInv, Registry
<1>5. Registry'
  BY <1>1, <1>3, <1>4, ThreadMoves
<1> QED BY <1>2, <1>5 DEF IInv, Registry

LEMMA AutoLooksKeeps ==
    ASSUME IInv, NEW a \in Autos, AutoLooks(a) PROVE IInv'
<1> DEFINE m == [thread[a] EXCEPT !.pc = IF Busy(thread[a].chat) THEN "rearm" ELSE "going"]
<1>1. /\ a \in Thread /\ thread[a].pc = "sleep" /\ thread[a].made = None
      /\ thread[a].chat \in Chats /\ thread[a].key \in Signals
      /\ thread' = [thread EXCEPT ![a] = m]
      /\ UNCHANGED <<timers, timer, disarm, scan, due, store, history>>
  BY DEF AutoLooks, AtPc, IInv, MadeInv, ThreadInv, Thread
<1>2. RestTyped' /\ ScanInv'
  BY <1>1 DEF IInv, RestTyped, ScanInv, store, history
<1>3. /\ m \in ThreadType /\ m.pc \in {"rearm", "going"} /\ m.made = None
      /\ m.chat = thread[a].chat /\ m.key = thread[a].key
  BY <1>1 DEF IInv, Typed, ThreadType
<1> HIDE DEF m
<1>4. Registry /\ thread[a].pc \notin {"disarm", "save", "resave"}
  BY <1>1 DEF IInv, Registry
<1>5. Registry'
  BY <1>1, <1>3, <1>4, ThreadMoves
<1> QED BY <1>2, <1>5 DEF IInv, Registry

LEMMA AutoContinuesKeeps ==
    ASSUME IInv, NEW a \in Autos, AutoContinues(a) PROVE IInv'
<1> DEFINE m == [thread[a] EXCEPT !.pc = "run"]
<1>1. /\ a \in Thread /\ thread[a].pc = "going" /\ thread[a].made = None
      /\ thread[a].chat \in Chats /\ thread' = [thread EXCEPT ![a] = m]
      /\ UNCHANGED <<timers, timer, disarm, scan, due>>
  BY DEF AutoContinues, AtPc, IInv, MadeInv, ThreadInv, Thread
<1>2. RestTyped' /\ ScanInv'
  BY <1>1 DEF AutoContinues, Began, IInv, RestTyped, ScanInv
<1>3. m \in ThreadType /\ m.pc = "run" /\ m.made = None /\ m.chat = thread[a].chat
  BY <1>1 DEF IInv, Typed, ThreadType
<1> HIDE DEF m
<1>4. Registry /\ thread[a].pc \notin {"disarm", "save", "resave"}
  BY <1>1 DEF IInv, Registry
<1>5. Registry'
  BY <1>1, <1>3, <1>4, ThreadMoves
<1> QED BY <1>2, <1>5 DEF IInv, Registry

\* Every place of a turn, the user's or a continuation's.
LEMMA TurnStepKeeps ==
    ASSUME IInv, NEW th \in Thread, TurnStep(th) PROVE IInv'
<1>1. CASE TurnEnds(th) \/ TurnFails(th) \/ TurnCloses(th)
  BY <1>1, EndsKeeps DEF TurnEnds, TurnFails, TurnCloses
<1>2. CASE TurnArms(th)
  BY <1>2, ArmLocksKeeps DEF TurnArms
<1>3. CASE TurnSaves(th)
  <2> DEFINE next == [thread[th] EXCEPT !.pc = "last", !.made = None]
  <2>1. thread[th].pc = "save" /\ thread[th].chat \in Chats
    BY <1>3 DEF TurnSaves, ArmSaves, AtPc, IInv, ThreadInv
  <2>2. /\ next \in ThreadType /\ next.made = None /\ next.pc = "last"
        /\ next.chat \in Chats
    BY <2>1 DEF IInv, Typed, ThreadType
  <2>3. ArmSaves(th, "save", next)
    BY <1>3 DEF TurnSaves
  <2> HIDE DEF next
  <2> QED BY <2>2, <2>3, ArmSavesKeeps
<1>4. ASSUME NEW k \in Signals, TurnParks(th, k) PROVE IInv'
  BY <1>4, TurnParksKeeps
<1> QED BY <1>1, <1>2, <1>3, <1>4 DEF TurnStep

LEMMA AutoResavesKeeps ==
    ASSUME IInv, NEW a \in Autos, AutoResaves(a) PROVE IInv'
<1>1. a \in Thread /\ ArmSaves(a, "resave", FreeThread)
  BY DEF AutoResaves, Thread
<1> QED BY <1>1, FreeThreadTyped, ArmSavesKeeps

LEMMA UserStepKeeps ==
    ASSUME IInv, NEW c \in Chats, UserStep(c) PROVE IInv'
<1>1. c \in Thread
  BY DEF Thread
<1> QED BY <1>1, TurnStepKeeps, DisarmPillsKeeps, TurnRunsKeeps DEF UserStep

LEMMA AutoStepKeeps ==
    ASSUME IInv, NEW a \in Autos, AutoStep(a) PROVE IInv'
<1>1. a \in Thread
  BY DEF Thread
<1>2. CASE AutoRearms(a)
  BY <1>1, <1>2, ArmLocksKeeps DEF AutoRearms
<1> QED BY <1>1, <1>2, TurnStepKeeps, AutoLooksKeeps, AutoResavesKeeps, AutoContinuesKeeps
        DEF AutoStep
-----------------------------------------------------------------------------
(* Restart and boot scan.                                                  *)

LEMMA RestartedKeeps ==
    ASSUME IInv, Restarted, panicked' \in BOOLEAN,
           used' \in [parks : 0..MaxParks, sends : 0..MaxSends, crashes : 0..MaxCrashes]
    PROVE  IInv'
<1> USE DEF Restarted
<1>1. Typed'
  <2>1. NoDisarm \in DisarmType
    BY DEF NoDisarm, DisarmType
  <2> QED BY <2>1, FreeTimerTyped, FreeThreadTyped DEF Typed
<1>2. RestTyped'
  BY DEF IInv, RestTyped
<1>3. RegistryInv' /\ LiveInv'
  BY FreeTimerTyped DEF RegistryInv, LiveInv, Alive
<1>4. MadeInv' /\ ThreadInv'
  BY FreeThreadTyped DEF MadeInv, ThreadInv
<1>5. DisarmInv'
  BY DEF DisarmInv, NoDisarm
<1>6. ScanInv'
  BY SentinelAssumption DEF ScanInv
<1> QED BY <1>1, <1>2, <1>3, <1>4, <1>5, <1>6 DEF IInv

LEMMA CrashKeeps == ASSUME IInv, Crash PROVE IInv'
<1>1. used' \in [parks : 0..MaxParks, sends : 0..MaxSends, crashes : 0..MaxCrashes]
  BY SentinelAssumption DEF Crash, IInv, RestTyped
<1>2. Restarted /\ panicked' \in BOOLEAN
  BY DEF Crash, IInv, RestTyped
<1> QED BY <1>1, <1>2, RestartedKeeps

LEMMA ScanReadsKeeps ==
    ASSUME IInv, ScanLists \/ ScanEnds \/ \E c \in Chats : ScanChecks(c)
    PROVE  IInv'
<1>1. UNCHANGED <<timers, timer, thread, disarm, store, history>>
  BY DEF ScanLists, ScanEnds, ScanChecks
<1>2. Registry'
  BY <1>1 DEF IInv, Registry, Typed, RegistryInv, LiveInv, Alive, MadeInv, DisarmInv,
              Registered, ThreadInv
<1>3. RestTyped'
  BY <1>1 DEF ScanLists, ScanEnds, ScanChecks, IInv, RestTyped, store, history
<1>4. ScanInv'
  BY SentinelAssumption DEF ScanLists, ScanEnds, ScanChecks, IInv, RestTyped, ScanInv
<1> QED BY <1>2, <1>3, <1>4 DEF IInv, Registry

LEMMA ScanArmsKeeps ==
    ASSUME IInv, NEW c \in Chats, ScanArms(c) PROVE IInv'
<1> DEFINE k == due[c]
           t == timers[k]
<1> USE DEF IInv
<1>1. /\ scan = c /\ k \in Signals /\ disarm.by = None
      /\ UNCHANGED <<thread, disarm, row, open, parked, panicked, used>>
  BY DEF ScanArms, ScanInv, RsFree
<1>2. RestTyped'
  BY <1>1 DEF ScanArms, RestTyped
<1>3. ScanInv' /\ DisarmInv' /\ ThreadInv'
  BY <1>1, SentinelAssumption DEF ScanArms, ScanInv, DisarmInv, ThreadInv
<1>4. CASE /\ t # None
           /\ timer' = [timer EXCEPT ![t].listeners = @ \cup {c}]
           /\ timers' = timers
  <2> DEFINE n == [timer[t] EXCEPT !.listeners = @ \cup {c}]
  <2>1. t \in Timers
    BY <1>1, <1>4 DEF Typed
  <2>2. /\ n \in TimerType /\ n.pc = timer[t].pc /\ n.key = timer[t].key
        /\ n.stopped = timer[t].stopped /\ n.listeners # {}
    BY <2>1 DEF Typed, TimerType
  <2>3. timer' = [timer EXCEPT ![t] = n]
    BY <1>4
  <2> HIDE DEF n
  <2>4. Typed'
    BY <1>1, <1>4, <2>2, <2>3 DEF Typed
  <2>5. RegistryInv'
    BY <1>4, <2>1, <2>2, <2>3 DEF RegistryInv, Typed
  <2>6. LiveInv'
    BY <1>1, <1>4, <2>1, <2>2, <2>3 DEF LiveInv, Alive, Typed
  <2>7. MadeInv'
    BY <1>1, <2>1, <2>2, <2>3 DEF MadeInv, Typed, ThreadType
  <2> QED BY <1>2, <1>3, <2>4, <2>5, <2>6, <2>7
<1>5. ASSUME t = None, NEW u \in FreshTimer,
             timer' = [timer EXCEPT ![u] = NewTimer(k, {c}, "wait")],
             timers' = [timers EXCEPT ![k] = u]
      PROVE  IInv'
  <2> DEFINE n == NewTimer(k, {c}, "wait")
  <2>1. u \in Timers /\ timer[u].pc = "free"
    BY AnyOfIn DEF FreshTimer, Alive
  <2>2. /\ n \in TimerType /\ n.key = k /\ n.listeners = {c} /\ n.pc = "wait"
        /\ ~n.stopped
    BY <1>1, NewTimerTyped
  <2>3. timer' = [timer EXCEPT ![u] = n]
    BY <1>5 DEF n
  <2> HIDE DEF n
  <2>4. Typed'
    BY <1>1, <1>5, <2>1, <2>2, <2>3 DEF Typed
  <2>5. RegistryInv'
    BY <1>1, <1>5, <2>1, <2>2, <2>3 DEF RegistryInv, Typed
  <2>6. LiveInv'
    BY <1>1, <1>5, <2>1, <2>2, <2>3, RegisteredAnew
  <2>7. MadeInv'
    BY <1>1, <2>1, <2>2, <2>3 DEF MadeInv, Typed, ThreadType
  <2> QED BY <1>2, <1>3, <2>4, <2>5, <2>6, <2>7
<1> QED BY <1>4, <1>5 DEF ScanArms

LEMMA ScanStepKeeps == ASSUME IInv, ScanStep PROVE IInv'
BY ScanReadsKeeps, ScanArmsKeeps DEF ScanStep
-----------------------------------------------------------------------------
(* The loop of a timer.                                                    *)

\* The steps that change where the loop stands and what it has at hand.
LEMMA LoopWalksKeeps ==
    ASSUME IInv, NEW t \in Timers,
           \/ LoopWakes(t) \/ LoopFails(t) \/ LoopLists(t) \/ LoopRewrites(t) \/ LoopWaits(t)
           \/ \E c \in Chats : LoopPaces(t, c)
    PROVE  IInv'
<1> DEFINE n == timer'[t]
<1>0. timer[t] \in TimerType /\ timer \in [Timers -> TimerType]
  BY DEF IInv, Typed
<1>1. /\ n \in TimerType /\ n.key = timer[t].key /\ n.listeners = timer[t].listeners
      /\ n.stopped = timer[t].stopped
      /\ {timer[t].pc, n.pc} \subseteq {"wait", "probe", "list", "pace"}
      /\ timer' = [timer EXCEPT ![t] = n]
      /\ row' \in [Chats -> Signals \cup {None}]
      /\ tail' \in [Chats -> {"none", "row", "error", "idle", "retry"}]
      /\ UNCHANGED <<timers, thread, disarm, open, scan, due, history>>
  <2> USE <1>0 DEF LoopMoves, TimerType, store
  <2>0. RestTyped
    BY DEF IInv
  <2>1. CASE LoopWakes(t)
    BY <2>0, <2>1 DEF LoopWakes, RestTyped
  <2>2. CASE LoopFails(t)
    BY <2>0, <2>2 DEF LoopFails, RestTyped
  <2>3. CASE LoopWaits(t)
    BY <2>0, <2>3 DEF LoopWaits, RestTyped
  <2>4. CASE LoopLists(t)
    <3>1. timers[timer[t].key] \in Timers => timer[timers[timer[t].key]].listeners \in SUBSET Chats
      BY <1>0
    <3>2. timer[t].key \in Signals
      BY <2>4 DEF LoopLists, IInv, LiveInv, Alive
    <3>3. timers[timer[t].key] \in Timers \cup {None}
      BY <3>2 DEF IInv, Typed
    <3> QED BY <2>0, <2>4, <3>1, <3>3 DEF LoopLists, RestTyped
  <2>5. CASE LoopRewrites(t)
    BY <2>0, <2>5 DEF LoopRewrites, RestTyped
  <2>6. CASE \E c \in Chats : LoopPaces(t, c)
    <3>1. PICK c \in Chats : LoopPaces(t, c)
      BY <2>6
    <3>2. row[c] \in Signals \cup {None} /\ timer[t].left \in SUBSET Chats
      BY <1>0, <2>0 DEF RestTyped
    <3>3. n = [timer[t] EXCEPT !.left = @ \ {c}, !.seen = row[c],
                               !.at = IF row[c] = None THEN None ELSE c]
      BY <1>0, <3>1 DEF LoopPaces
    <3>4. n \in TimerType /\ n.key = timer[t].key /\ n.pc = timer[t].pc
          /\ n.listeners = timer[t].listeners /\ n.stopped = timer[t].stopped
      <4> DEFINE left == timer[t].left \ {c}
                 at == IF row[c] = None THEN None ELSE c
      <4>1. n = [timer[t] EXCEPT !.left = left, !.seen = row[c], !.at = at]
        BY <1>0, <3>3
      <4>2. left \in SUBSET Chats /\ at \in Chats \cup {None}
        BY <3>2
      <4> HIDE DEF left, at, n
      <4> QED BY <1>0, <3>2, <4>1, <4>2
    <3>5. timer' = [timer EXCEPT ![t] = n] /\ timer[t].pc = "pace"
      BY <1>0, <3>1 DEF LoopPaces
    <3>6. /\ row' = row /\ tail' = [tail EXCEPT ![c] = "retry"]
          /\ UNCHANGED <<timers, thread, disarm, open, scan, due, history>>
      BY <3>1 DEF LoopPaces
    <3> HIDE DEF n
    <3> QED BY <2>0, <3>4, <3>5, <3>6 DEF RestTyped
  <2> QED BY <2>1, <2>2, <2>3, <2>4, <2>5, <2>6
<1>2. RestTyped' /\ ScanInv'
  BY <1>1 DEF IInv, RestTyped, ScanInv, history
<1> HIDE DEF n
<1>3. Registry
  BY DEF IInv, Registry
<1>4. Registry'
  BY <1>1, <1>3, LoopGoes
<1> QED BY <1>2, <1>4 DEF IInv, Registry

LEMMA LoopUnlistsKeeps ==
    ASSUME IInv, NEW t \in Timers, LoopUnlists(t) PROVE IInv'
<1> DEFINE n == [timer[t] EXCEPT !.pc = "close"]
<1> USE DEF IInv
<1>1. /\ timer[t].pc = "unlist" /\ timer[t].stopped /\ timer[t].key \in Signals
      /\ disarm.by = None
      /\ UNCHANGED <<thread, disarm, scan, due, store, history>>
  BY DEF LoopUnlists, LiveInv, Alive, RsFree
<1>2. RestTyped' /\ ScanInv' /\ DisarmInv' /\ ThreadInv'
  BY <1>1 DEF RestTyped, ScanInv, DisarmInv, ThreadInv, store, history
<1>3. /\ n \in TimerType /\ n.pc = "close" /\ n.key = timer[t].key /\ n.stopped
  BY <1>1 DEF Typed, TimerType
<1>4. /\ timer' = [timer EXCEPT ![t] = n]
      /\ timers' = IF timers[timer[t].key] = t
                   THEN [timers EXCEPT ![timer[t].key] = None] ELSE timers
  BY DEF LoopUnlists, Unlisted
<1> HIDE DEF n
<1>5. Typed'
  BY <1>1, <1>3, <1>4 DEF Typed
<1>6. RegistryInv'
  BY <1>1, <1>3, <1>4 DEF RegistryInv, Typed
<1>7. LiveInv'
  BY <1>1, <1>3, <1>4 DEF LiveInv, Alive, Typed
<1>8. MadeInv'
  BY <1>1, <1>3, <1>4 DEF MadeInv, Typed
<1> QED BY <1>2, <1>5, <1>6, <1>7, <1>8

LEMMA LoopRecoversKeeps ==
    ASSUME IInv, NEW t \in Timers, LoopRecovers(t) PROVE IInv'
<1> DEFINE n == [timer[t] EXCEPT !.stopped = TRUE, !.left = timer[t].listeners,
                                 !.listeners = {}, !.pc = "unlist"]
<1> USE DEF IInv
<1>1. /\ timer[t].pc = "probe"
      /\ UNCHANGED <<timers, thread, disarm, scan, due, store, history>>
  BY DEF LoopRecovers
<1>2. RestTyped' /\ ScanInv' /\ ThreadInv'
  BY <1>1 DEF RestTyped, ScanInv, ThreadInv, store, history
<1>3. /\ n \in TimerType /\ n.pc = "unlist" /\ n.key = timer[t].key /\ n.stopped
  BY <1>1 DEF Typed, TimerType
<1>4. timer' = [timer EXCEPT ![t] = n]
  BY DEF LoopRecovers, Typed, TimerType
<1> HIDE DEF n
<1>5. Typed'
  BY <1>1, <1>3, <1>4 DEF Typed
<1>6. RegistryInv'
  BY <1>1, <1>3, <1>4 DEF RegistryInv, Typed
<1>7. LiveInv'
  BY <1>1, <1>3, <1>4 DEF LiveInv, Alive, Typed
<1>8. MadeInv'
  BY <1>1, <1>3, <1>4 DEF MadeInv, Typed
<1>9. DisarmInv'
  BY <1>1, <1>3, <1>4 DEF DisarmInv, Registered, Typed, DisarmType
<1> QED BY <1>2, <1>5, <1>6, <1>7, <1>8, <1>9

\* A loop past its recovery is not registered any more.
LEMMA LoopClosesKeeps ==
    ASSUME IInv, NEW t \in Timers, LoopCloses(t) PROVE IInv'
<1>1. CASE /\ timer' = [timer EXCEPT ![t].closed = TRUE, ![t].pc = "fan"]
           /\ UNCHANGED <<timers, thread, disarm, scan, due, store, history>>
  <2> DEFINE n == [timer[t] EXCEPT !.closed = TRUE, !.pc = "fan"]
  <2>1. timer[t] \in TimerType /\ timer[t].pc = "close"
    BY DEF LoopCloses, IInv, Typed
  <2>2. /\ n \in TimerType /\ n.pc = "fan" /\ n.key = timer[t].key
        /\ n.stopped = timer[t].stopped /\ n.listeners = timer[t].listeners
    BY <2>1 DEF TimerType
  <2>3. timer' = [timer EXCEPT ![t] = n]
    BY <1>1, <2>1 DEF IInv, Typed, TimerType
  <2>4. timers[timer[t].key] # t
    BY <2>1, SentinelAssumption DEF IInv, LiveInv, Alive, RegistryInv, Typed
  <2>5. RestTyped' /\ ScanInv'
    BY <1>1 DEF IInv, RestTyped, ScanInv, store, history
  <2> HIDE DEF n
  <2>6. Registry
    BY DEF IInv, Registry
  <2>7. Registry'
    BY <1>1, <2>1, <2>2, <2>3, <2>4, <2>6, LoopGoes
  <2> QED BY <2>5, <2>7 DEF IInv, Registry
<1>2. CASE Restarted /\ panicked' = TRUE /\ used' = used
  BY <1>2, RestartedKeeps DEF IInv, RestTyped
<1> QED BY <1>1, <1>2 DEF LoopCloses

\* The loop that has nothing left to do, or was stopped.
LEMMA LoopLeavesKeeps ==
    ASSUME IInv, NEW t \in Timers, LoopEnds(t) \/ LoopReturns(t) PROVE IInv'
<1>1. /\ timer[t].pc \in {"wait", "probe", "fan"} /\ timer[t].stopped
      /\ timer' = [timer EXCEPT ![t] = FreeTimer]
      /\ UNCHANGED <<timers, thread, disarm, scan, due, store, history>>
  BY DEF LoopEnds, LoopReturns, IInv, LiveInv, Alive
<1>2. RestTyped' /\ ScanInv'
  BY <1>1 DEF IInv, RestTyped, ScanInv, store, history
<1>3. Registry
  BY DEF IInv, Registry
<1>4. Registry'
  BY <1>1, <1>3, LoopGone
<1> QED BY <1>2, <1>4 DEF IInv, Registry

LEMMA LoopFansKeeps ==
    ASSUME IInv, NEW t \in Timers, NEW c \in Chats, LoopFans(t, c) PROVE IInv'
<1> DEFINE n == [timer[t] EXCEPT !.left = @ \ {c}]
           m == [chat |-> c, key |-> timer[t].key, pc |-> "sleep", made |-> None]
<1> USE DEF IInv
<1>1. PICK a \in FreshAuto : thread' = [thread EXCEPT ![a] = m]
  BY DEF LoopFans
<1>2. a \in Thread /\ thread[a].pc = "free"
  BY AnyOfIn DEF FreshAuto, AtPc, Thread
<1>3. /\ timer[t].pc = "fan" /\ timer[t].key \in Signals
      /\ UNCHANGED <<timers, disarm, open, scan, due, history>>
  BY DEF LoopFans, LiveInv, Alive
<1>4. RestTyped' /\ ScanInv'
  BY <1>3 DEF LoopFans, RestTyped, ScanInv, history
<1>5. /\ n \in TimerType /\ n.pc = "fan" /\ n.key = timer[t].key
      /\ n.stopped = timer[t].stopped /\ n.listeners = timer[t].listeners
  BY <1>3 DEF Typed, TimerType
<1>6. timer' = [timer EXCEPT ![t] = n]
  BY DEF LoopFans
<1>7. m \in ThreadType /\ m.pc = "sleep" /\ m.chat = c /\ m.key \in Signals /\ m.made = None
  BY <1>3 DEF ThreadType
<1> HIDE DEF n, m
<1>8. Typed'
  BY <1>1, <1>2, <1>3, <1>5, <1>6, <1>7 DEF Typed
<1>9. RegistryInv'
  BY <1>3, <1>5, <1>6 DEF RegistryInv, Typed
<1>10. LiveInv'
  BY <1>3, <1>5, <1>6 DEF LiveInv, Alive, Typed
<1>11. MadeInv'
  BY <1>1, <1>2, <1>3, <1>5, <1>6, <1>7 DEF MadeInv, Typed
<1>12. DisarmInv'
  BY <1>1, <1>2, <1>3, <1>5, <1>6, <1>7 DEF DisarmInv, Registered, Typed, DisarmType
<1>13. ThreadInv'
  BY <1>1, <1>2, <1>7 DEF ThreadInv, Typed
<1> QED BY <1>4, <1>8, <1>9, <1>10, <1>11, <1>12, <1>13

LEMMA LoopStepKeeps ==
    ASSUME IInv, NEW t \in Timers, LoopStep(t) PROVE IInv'
BY LoopWalksKeeps, LoopUnlistsKeeps, LoopRecoversKeeps, LoopClosesKeeps,
   LoopLeavesKeeps, LoopFansKeeps DEF LoopStep
-----------------------------------------------------------------------------
LEMMA NextKeeps == ASSUME IInv, [Next]_vars PROVE IInv'
<1>1. CASE UNCHANGED vars
  BY <1>1 DEF vars, memory, store, history, IInv, Typed, RestTyped, RegistryInv, LiveInv,
              Alive, MadeInv, DisarmInv, Registered, ThreadInv, ScanInv
<1>2. CASE DisarmStep
  BY <1>2, DisarmVisitsKeeps, DisarmPeeksKeeps, DisarmKillsKeeps, DisarmReturnsKeeps
     DEF DisarmStep
<1> QED BY <1>1, <1>2, UserStartsKeeps, UserStepKeeps, AutoStepKeeps, LoopStepKeeps,
           ScanStepKeeps, CrashKeeps DEF Next

THEOREM IInvHolds == Spec => []IInv
BY InitHolds, NextKeeps, PTL DEF Spec

\* The types of the engine's memory and of the store (retrysentinel.go:89).
THEOREM TypeCorrect == Spec => []TypeOK
<1>1. IInv => TypeOK
  BY DEF IInv, Typed, RestTyped, TypeOK
<1> QED BY <1>1, IInvHolds, PTL

\* Two timers that are not stopped never probe the same signal: a chat joins
\* the registered timer of its signal (Arm, the boot scan), and what leaves
\* the registry was stopped first.
THEOREM SharedTimerLaw == Spec => []OneTimerPerSignal
<1>1. IInv => OneTimerPerSignal
  BY DEF IInv, LiveInv, OneTimerPerSignal
<1> QED BY <1>1, IInvHolds, PTL

\* A timer that is not stopped has a listener, but for the Disarm that took
\* the last one and is about to kill it.
THEOREM LastListenerOut == Spec => []UnheardTimerIsKilled
<1>1. IInv => UnheardTimerIsKilled
  BY DEF IInv, LiveInv, UnheardTimerIsKilled
<1> QED BY <1>1, IInvHolds, PTL

-----------------------------------------------------------------------------
(* What parked is held.                                                    *)

\* This engine has the chat in hand.
Handled(c) == Listening(c) \/ Recovering(c) \/ Underway(c)

\* Nothing of this engine knows the chat.
Untouched(c) ==
    /\ \A t \in Timers : c \notin timer[t].listeners \cup timer[t].left /\ timer[t].at # c
    /\ \A th \in Thread : thread[th].chat # c
    /\ AtPc(c, "free")

\* The boot scan will arm the chat: its row is there, and nobody is left who
\* could drop the row or write behind the error that ends its log.
Waits(c) == Scanning(c) /\ row[c] # None /\ tail[c] = "error" /\ Untouched(c)

\* A chat that parks while its own Disarm holds rs.mu is still before its Arm,
\* so no timer of that Disarm has it; and nobody joins a timer being killed.
HeldInv ==
    /\ \A c \in parked \ lost : Handled(c) \/ Waits(c)
    /\ disarm.by \in parked =>
         \E th \in Thread : thread[th].chat = disarm.by /\ AtPc(th, "park")
    /\ disarm.pc \in {"peek", "kill"} => timer[disarm.at].listeners = {}

\* A thread goes from place to place; a chat leaves its hands only when it is
\* not parked any more.
LEMMA ThreadHeld ==
    ASSUME IInv, HeldInv, NEW th \in Thread, NEW m \in ThreadType,
           thread[th].pc \notin {"free", "park"},
           thread' = [thread EXCEPT ![th] = m],
           m.chat \in {thread[th].chat, None},
           thread[th].pc \in {"sleep", "rearm", "going"} /\ thread[th].chat \in parked'
             => m.chat = thread[th].chat /\ m.pc \in {"sleep", "rearm", "going"},
           \A c \in parked' : \/ c = m.chat /\ m.pc = "park"
                              \/ c \in parked /\ (c \in lost => c \in lost'),
           \A c \in Chats : c # thread[th].chat /\ c # th => tail'[c] = tail[c],
           parked' \subseteq Chats,
           disarm' = disarm \/ disarm' = NoDisarm,
           UNCHANGED <<timers, timer, row, scan, due>>
    PROVE  HeldInv'
<1>1. thread'[th] = m /\ \A ot \in Thread \ {th} : thread'[ot] = thread[ot]
  BY DEF IInv, Typed
<1>2. ASSUME NEW c \in parked' \ lost' PROVE Handled(c)' \/ Waits(c)'
  <2>0. c \in Chats /\ c # None /\ c \in Thread
    BY SentinelAssumption DEF Thread
  <2>1. CASE c = m.chat /\ m.pc = "park"
    BY <1>1, <2>1 DEF Handled, Underway
  <2>2. CASE c \in parked \ lost /\ Listening(c)
    BY <2>2 DEF Handled, Listening, Joinable
  <2>3. CASE c \in parked \ lost /\ Recovering(c)
    BY <2>3 DEF Handled, Recovering
  <2>4. CASE c \in parked \ lost /\ Underway(c)
    <3>1. PICK ot \in Thread : /\ thread[ot].chat = c
                               /\ thread[ot].pc \in {"park", "sleep", "rearm", "going"}
      BY <2>4 DEF Underway
    <3>2. thread'[ot].chat = c /\ thread'[ot].pc \in {"park", "sleep", "rearm", "going"}
      BY <1>1, <3>1
    <3> QED BY <3>2 DEF Handled, Underway
  <2>5. CASE c \in parked \ lost /\ Waits(c)
    <3>1. c # thread[th].chat /\ c # th /\ c # m.chat
      BY <2>0, <2>5 DEF Waits, Untouched, AtPc
    <3>2. Untouched(c)'
      BY <1>1, <2>0, <2>5, <3>1 DEF Waits, Untouched, AtPc
    <3> QED BY <2>0, <2>5, <3>1, <3>2 DEF Waits, Scanning
  <2> QED BY <2>1, <2>2, <2>3, <2>4, <2>5 DEF HeldInv, Handled
<1>3. ASSUME disarm'.by \in parked'
      PROVE  \E ot \in Thread : thread'[ot].chat = disarm'.by /\ thread'[ot].pc = "park"
  <2>1. disarm' = disarm
    BY <1>3, SentinelAssumption DEF NoDisarm
  <2>2. CASE disarm.by \in parked
    <3>1. PICK ot \in Thread : thread[ot].chat = disarm.by /\ thread[ot].pc = "park"
      BY <2>2 DEF HeldInv, AtPc
    <3> QED BY <1>1, <2>1, <3>1
  <2>3. CASE disarm.by \notin parked
    BY <1>1, <1>3, <2>1, <2>3
  <2> QED BY <2>2, <2>3
<1>4. disarm'.pc \in {"peek", "kill"} => timer'[disarm'.at].listeners = {}
  BY DEF HeldInv, NoDisarm
<1> QED BY <1>2, <1>3, <1>4 DEF HeldInv, AtPc

LEMMA PillHeld ==
    ASSUME IInv, HeldInv, NEW c \in Chats, DisarmPills(c) \/ \E s \in BOOLEAN : TurnRuns(c, s)
    PROVE  HeldInv'
<1>1. PICK pc \in {"lock", "run"} : thread' = [thread EXCEPT ![c].pc = pc]
  BY DEF DisarmPills, TurnRuns
<1> DEFINE m == [thread[c] EXCEPT !.pc = pc]
<1>2. /\ c \in Thread /\ thread[c].pc \in {"pill", "lock"}
      /\ UNCHANGED <<timers, timer, disarm, row, scan, due, parked, lost>>
      /\ \A d \in Chats : d # c => tail'[d] = tail[d]
  BY DEF DisarmPills, TurnRuns, AtPc, Thread, history, IInv, RestTyped
<1>3. m \in ThreadType /\ m.chat = thread[c].chat /\ thread' = [thread EXCEPT ![c] = m]
  BY <1>1, <1>2 DEF IInv, Typed, ThreadType
<1>4. parked' \subseteq Chats
  BY <1>2 DEF IInv, RestTyped
<1> HIDE DEF m
<1> QED BY <1>2, <1>3, <1>4, ThreadHeld

LEMMA EndsHeld ==
    ASSUME IInv, HeldInv, NEW th \in Thread, NEW from \in {"run", "last"}, NEW state,
           Ends(th, from, state)
    PROVE  HeldInv'
<1>1. /\ thread[th].pc = from /\ thread' = [thread EXCEPT ![th] = FreeThread]
      /\ UNCHANGED <<timers, timer, disarm, row, scan, due, parked, lost>>
      /\ \A d \in Chats : d # thread[th].chat => tail'[d] = tail[d]
  BY DEF Ends, AtPc, history, IInv, RestTyped
<1>2. FreeThread \in ThreadType /\ FreeThread.chat = None
  BY DEF FreeThread, ThreadType
<1>3. parked' \subseteq Chats
  BY <1>1 DEF IInv, RestTyped
<1> QED BY <1>1, <1>2, <1>3, ThreadHeld

LEMMA TurnParksHeld ==
    ASSUME IInv, IInv', HeldInv, NEW th \in Thread, NEW k \in Signals, TurnParks(th, k)
    PROVE  HeldInv'
<1> DEFINE m == [thread[th] EXCEPT !.pc = "park", !.key = k]
<1>1. /\ thread[th].pc = "run" /\ thread' = [thread EXCEPT ![th] = m]
      /\ UNCHANGED <<timers, timer, disarm, row, scan, due>>
      /\ \A d \in Chats : d # thread[th].chat => tail'[d] = tail[d]
      /\ parked' = parked \cup {thread[th].chat} /\ lost' = lost \ {thread[th].chat}
  BY DEF TurnParks, AtPc, IInv, Typed, RestTyped
<1>2. m \in ThreadType /\ m.chat = thread[th].chat /\ m.pc = "park"
  BY DEF IInv, Typed, ThreadType
<1>3. parked' \subseteq Chats
  BY DEF IInv, RestTyped
<1> HIDE DEF m
<1> QED BY <1>1, <1>2, <1>3, ThreadHeld

LEMMA AutoMovesHeld ==
    ASSUME IInv, HeldInv, NEW a \in Autos, AutoLooks(a) \/ AutoContinues(a)
    PROVE  HeldInv'
<1>1. PICK pc \in {"rearm", "going", "run"} : thread' = [thread EXCEPT ![a].pc = pc]
  BY DEF AutoLooks, AutoContinues
<1> DEFINE m == [thread[a] EXCEPT !.pc = pc]
<1>2. /\ a \in Thread /\ thread[a].pc \in {"sleep", "going"}
      /\ UNCHANGED <<timers, timer, disarm, row, scan, due>>
      /\ \A d \in Chats : d # thread[a].chat => tail'[d] = tail[d]
  BY DEF AutoLooks, AutoContinues, AtPc, Thread, store, IInv, RestTyped
<1>3. m \in ThreadType /\ m.chat = thread[a].chat /\ thread' = [thread EXCEPT ![a] = m]
      /\ m.pc = pc /\ thread'[a].pc = pc
  BY <1>1, <1>2 DEF IInv, Typed, ThreadType
<1>4. /\ parked' \subseteq parked /\ \A c \in parked' : c \in lost => c \in lost'
      /\ thread[a].chat \in parked' => m.pc \in {"rearm", "going"}
  <2>1. CASE AutoLooks(a)
    <3>1. thread' = [thread EXCEPT ![a].pc = IF Busy(thread[a].chat) THEN "rearm" ELSE "going"]
      BY <2>1 DEF AutoLooks
    <3>2. thread'[a].pc \in {"rearm", "going"}
      BY <1>2, <3>1 DEF IInv, Typed, ThreadType
    <3> QED BY <1>3, <2>1, <3>2 DEF AutoLooks, history
  <2>2. CASE AutoContinues(a)
    BY <2>2 DEF AutoContinues, Began
  <2> QED BY <2>1, <2>2
<1>5. parked' \subseteq Chats
  BY <1>4 DEF IInv, RestTyped
<1> HIDE DEF m
<1> QED BY <1>2, <1>3, <1>4, <1>5, ThreadHeld

LEMMA ArmLocksHeld ==
    ASSUME IInv, IInv', HeldInv, NEW th \in Thread, NEW from \in {"park", "rearm"},
           NEW to \in {"save", "resave"}, ArmLocks(th, from, to)
    PROVE  HeldInv'
<1>0. PICK c \in Chats : c = thread[th].chat
  BY DEF ArmLocks, AtPc, IInv, ThreadInv
<1> DEFINE k == thread[th].key
           t == timers[k]
<1>1. /\ thread[th].pc = from /\ disarm.by = None /\ k \in Signals
      /\ UNCHANGED <<disarm, scan, due, row, tail, parked, lost>>
      /\ \A ot \in Thread \ {th} : thread'[ot] = thread[ot]
      /\ thread'[th].chat = c
  BY <1>0 DEF ArmLocks, RsFree, AtPc, store, history, IInv, Typed, ThreadInv, ThreadType
<1>2. /\ Listening(c)'
      /\ \A s \in Signals, d \in Chats :
           Joinable(timers[s]) /\ d \in timer[timers[s]].listeners
             => Joinable(timers[s])' /\ d \in timer'[timers'[s]].listeners
      /\ \A u \in Timers : /\ timer'[u].listeners \subseteq timer[u].listeners \cup {c}
                           /\ timer'[u].left \subseteq timer[u].left
                           /\ timer'[u].at \in {timer[u].at, None}
      /\ \A u \in Timers : timer[u].pc # "free"
           => timer'[u].pc = timer[u].pc /\ timer'[u].left = timer[u].left
  <2>1. CASE Joinable(t) /\ timer' = [timer EXCEPT ![t].listeners = @ \cup {c}] /\ timers' = timers
    <3>1. t \in Timers /\ t # None /\ ~timer[t].stopped
      BY <1>1, <2>1 DEF Joinable, IInv, Typed
    <3>2. /\ timer'[t] = [timer[t] EXCEPT !.listeners = @ \cup {c}]
          /\ \A u \in Timers \ {t} : timer'[u] = timer[u]
      BY <2>1, <3>1 DEF IInv, Typed
    <3>3. /\ timer'[t].listeners = timer[t].listeners \cup {c} /\ timer'[t].left = timer[t].left
          /\ timer'[t].at = timer[t].at /\ timer'[t].pc = timer[t].pc /\ ~timer'[t].stopped
      BY <3>1, <3>2 DEF IInv, Typed, TimerType
    <3> HIDE DEF k, t
    <3>4. Listening(c)'
      BY <1>1, <2>1, <3>1, <3>3 DEF Listening, Joinable, t, k
    <3>5. ASSUME NEW s \in Signals, NEW d \in Chats,
                 Joinable(timers[s]), d \in timer[timers[s]].listeners
          PROVE  Joinable(timers[s])' /\ d \in timer'[timers'[s]].listeners
      <4>1. timers[s] \in Timers
        BY <3>5 DEF Joinable, IInv, Typed
      <4> QED BY <2>1, <3>2, <3>3, <3>5, <4>1 DEF Joinable
    <3> QED BY <3>2, <3>3, <3>4, <3>5
  <2>2. ASSUME ~Joinable(t), NEW u \in FreshTimer,
               timer' = [timer EXCEPT ![u] = NewTimer(k, {c}, "new")],
               timers' = [timers EXCEPT ![k] = u]
        PROVE  <1>2!:
    <3> DEFINE n == NewTimer(k, {c}, "new")
    <3>1. u \in Timers /\ timer[u].pc = "free" /\ u # None
      BY <2>2, AnyOfIn, SentinelAssumption DEF FreshTimer, Alive
    <3>2. /\ n.listeners = {c} /\ ~n.stopped /\ n.left = {} /\ n.at = None
      BY DEF NewTimer, FreeTimer
    <3> HIDE DEF n
    <3>3. timer'[u] = n /\ \A v \in Timers \ {u} : timer'[v] = timer[v]
      BY <2>2, <3>1 DEF IInv, Typed, n
    <3>4. timers'[k] = u /\ \A s \in Signals \ {k} : timers'[s] = timers[s]
      BY <1>1, <2>2, <3>1 DEF IInv, Typed
    <3>5. ASSUME NEW s \in Signals, Joinable(timers[s]) PROVE s # k /\ timers[s] \in Timers \ {u}
      <4>1. s # k
        BY <2>2, <3>5
      <4>2. timers[s] \in Timers /\ timer[timers[s]].pc # "free"
        BY <3>5 DEF Joinable, IInv, Typed, RegistryInv
      <4> QED BY <3>1, <4>1, <4>2
    <3> HIDE DEF k, t
    <3>6. Listening(c)'
      BY <1>1, <3>1, <3>2, <3>3, <3>4 DEF Listening, Joinable
    <3>7. \A s \in Signals, d \in Chats :
             Joinable(timers[s]) /\ d \in timer[timers[s]].listeners
               => Joinable(timers[s])' /\ d \in timer'[timers'[s]].listeners
      BY <3>3, <3>4, <3>5 DEF Joinable
    <3> QED BY <3>1, <3>2, <3>3, <3>6, <3>7
  <2> QED BY <1>0, <2>1, <2>2 DEF ArmLocks
<1> HIDE DEF k, t
<1>3. ASSUME NEW d \in parked' \ lost' PROVE Handled(d)' \/ Waits(d)'
  <2>0. d \in parked \ lost /\ d \in Chats /\ d # None
    BY <1>1, SentinelAssumption DEF IInv, RestTyped
  <2>1. CASE d = c
    BY <1>2, <2>1 DEF Handled
  <2>2. CASE Listening(d)
    <3>1. PICK s \in Signals : Joinable(timers[s]) /\ d \in timer[timers[s]].listeners
      BY <2>2 DEF Listening
    <3> QED BY <1>2, <2>0, <3>1 DEF Handled, Listening
  <2>3. CASE Recovering(d)
    BY <1>2, <2>3 DEF Handled, Recovering
  <2>4. CASE d # c /\ Underway(d)
    <3>1. PICK ot \in Thread : /\ thread[ot].chat = d
                               /\ thread[ot].pc \in {"park", "sleep", "rearm", "going"}
      BY <2>4 DEF Underway
    <3>2. ot # th
      BY <1>0, <2>4, <3>1
    <3> QED BY <1>1, <3>1, <3>2 DEF Handled, Underway
  <2>5. CASE d # c /\ Waits(d)
    <3>1. d # th
      BY <1>1, <2>5 DEF Waits, Untouched, AtPc
    <3>2. Untouched(d)'
      BY <1>1, <1>2, <2>0, <2>5, <3>1 DEF Waits, Untouched, AtPc, Thread
    <3> QED BY <1>1, <2>5, <3>2 DEF Waits, Scanning
  <2> QED BY <2>0, <2>1, <2>2, <2>3, <2>4, <2>5 DEF HeldInv, Handled
<1>4. disarm'.by \notin parked' /\ disarm'.pc = "next"
  BY <1>1, SentinelAssumption DEF IInv, RestTyped, DisarmInv
<1> QED BY <1>3, <1>4 DEF HeldInv

LEMMA ArmSavesHeld ==
    ASSUME IInv, HeldInv, NEW th \in Thread, NEW from \in {"save", "resave"},
           NEW next \in ThreadType, next.chat \in {thread[th].chat, None},
           ArmSaves(th, from, next)
    PROVE  HeldInv'
<1>1. /\ thread[th].pc = from /\ thread'[th] = next
      /\ \A ot \in Thread \ {th} : thread'[ot] = thread[ot]
      /\ \A d \in Chats : d # thread[th].chat => row'[d] = row[d] /\ tail'[d] = tail[d]
      /\ UNCHANGED <<timers, disarm, scan, due, parked, lost>>
  BY DEF ArmSaves, AtPc, history, IInv, Typed, RestTyped
<1>2. \A u \in Timers :
         /\ timer'[u].listeners = timer[u].listeners /\ timer'[u].left = timer[u].left
         /\ timer'[u].at = timer[u].at /\ timer'[u].stopped = timer[u].stopped
         /\ timer[u].pc # "new" => timer'[u].pc = timer[u].pc
  <2> SUFFICES ASSUME NEW u \in Timers PROVE <1>2!(u)
    OBVIOUS
  <2>1. timer'[u] = IF u = thread[th].made THEN [timer[u] EXCEPT !.pc = "wait"] ELSE timer[u]
    BY DEF ArmSaves
  <2>2. u = thread[th].made => timer[u].pc = "new"
    BY SentinelAssumption DEF IInv, MadeInv
  <2> QED BY <2>1, <2>2 DEF IInv, Typed, TimerType
<1>3. ASSUME NEW d \in parked' \ lost' PROVE Handled(d)' \/ Waits(d)'
  <2>0. d \in parked \ lost /\ d \in Chats /\ d # None
    BY <1>1, SentinelAssumption DEF IInv, RestTyped
  <2>2. CASE Listening(d)
    BY <1>1, <1>2, <2>2 DEF Handled, Listening, Joinable, IInv, Typed
  <2>3. CASE Recovering(d)
    BY <1>2, <2>3 DEF Handled, Recovering
  <2>4. CASE Underway(d)
    BY <1>1, <2>4 DEF Handled, Underway
  <2>5. CASE Waits(d)
    <3>1. d # th /\ d # thread[th].chat
      BY <1>1, <2>0, <2>5 DEF Waits, Untouched, AtPc
    <3>2. Untouched(d)'
      BY <1>1, <1>2, <2>0, <2>5, <3>1 DEF Waits, Untouched, AtPc, Thread
    <3> QED BY <1>1, <2>0, <2>5, <3>1, <3>2 DEF Waits, Scanning
  <2> QED BY <2>0, <2>2, <2>3, <2>4, <2>5 DEF HeldInv, Handled
<1>4. disarm'.by \in parked' =>
         \E ot \in Thread : thread'[ot].chat = disarm'.by /\ thread'[ot].pc = "park"
  BY <1>1 DEF HeldInv, AtPc
<1>5. disarm'.pc \in {"peek", "kill"} => timer'[disarm'.at].listeners = {}
  BY <1>1, <1>2 DEF HeldInv, IInv, DisarmInv
<1> QED BY <1>3, <1>4, <1>5 DEF HeldInv, AtPc

LEMMA TurnStepHeld ==
    ASSUME IInv, IInv', HeldInv, NEW th \in Thread, TurnStep(th) PROVE HeldInv'
<1>1. CASE TurnEnds(th) \/ TurnFails(th) \/ TurnCloses(th)
  BY <1>1, EndsHeld DEF TurnEnds, TurnFails, TurnCloses
<1>2. CASE TurnArms(th)
  BY <1>2, ArmLocksHeld DEF TurnArms
<1>3. CASE TurnSaves(th)
  <2> DEFINE next == [thread[th] EXCEPT !.pc = "last", !.made = None]
  <2>1. next \in ThreadType /\ next.chat = thread[th].chat
    BY DEF IInv, Typed, ThreadType
  <2>2. ArmSaves(th, "save", next)
    BY <1>3 DEF TurnSaves
  <2> HIDE DEF next
  <2> QED BY <2>1, <2>2, ArmSavesHeld
<1>4. CASE \E k \in Signals : TurnParks(th, k)
  BY <1>4, TurnParksHeld
<1> QED BY <1>1, <1>2, <1>3, <1>4 DEF TurnStep

LEMMA UserStepHeld ==
    ASSUME IInv, IInv', HeldInv, NEW c \in Chats, UserStep(c) PROVE HeldInv'
<1>1. c \in Thread
  BY DEF Thread
<1> QED BY <1>1, TurnStepHeld, PillHeld DEF UserStep

LEMMA AutoStepHeld ==
    ASSUME IInv, IInv', HeldInv, NEW a \in Autos, AutoStep(a) PROVE HeldInv'
<1>1. a \in Thread
  BY DEF Thread
<1>2. CASE AutoRearms(a)
  BY <1>1, <1>2, ArmLocksHeld DEF AutoRearms
<1>3. CASE AutoResaves(a)
  <2>1. FreeThread.chat = None
    BY DEF FreeThread
  <2> QED BY <1>1, <1>3, <2>1, FreeThreadTyped, ArmSavesHeld DEF AutoResaves
<1> QED BY <1>1, <1>2, <1>3, TurnStepHeld, AutoMovesHeld DEF AutoStep

LEMMA UserStartsHeld ==
    ASSUME IInv, HeldInv, NEW c \in Chats, UserStarts(c) PROVE HeldInv'
<1>1. /\ c \in Thread /\ thread[c].pc = "free"
      /\ disarm'.by = c /\ disarm'.pc = "next" /\ thread'[c].chat = c
      /\ \A th \in Thread \ {c} : thread'[th] = thread[th]
      /\ parked' = parked \ {c} /\ lost' = lost \ {c}
      /\ UNCHANGED <<timers, timer, scan, due, row, tail>>
  BY DEF UserStarts, AtPc, Thread, NoDisarm, FreeThread, Began, store, IInv, Typed
<1>2. ASSUME NEW d \in parked' \ lost' PROVE Handled(d)' \/ Waits(d)'
  <2>0. d \in parked \ lost /\ d # c
    BY <1>1
  <2>1. CASE Listening(d) \/ Recovering(d)
    BY <1>1, <2>1 DEF Handled, Listening, Joinable, Recovering
  <2>2. CASE Underway(d)
    BY <1>1, <2>2 DEF Handled, Underway
  <2>3. CASE Waits(d)
    <3>1. Untouched(d)'
      BY <1>1, <2>0, <2>3 DEF Waits, Untouched, AtPc, Thread, IInv, RestTyped
    <3> QED BY <1>1, <2>3, <3>1 DEF Waits, Scanning
  <2> QED BY <2>0, <2>1, <2>2, <2>3 DEF HeldInv, Handled
<1> QED BY <1>1, <1>2 DEF HeldInv

LEMMA DisarmPeeksHeld ==
    ASSUME IInv, HeldInv, DisarmPeeks PROVE HeldInv'
<1>1. /\ disarm.pc = "peek" /\ disarm'.by = disarm.by /\ disarm'.at = disarm.at
      /\ UNCHANGED <<timers, timer, thread, scan, due, row, tail, parked, lost>>
  BY DEF DisarmPeeks, store, history, IInv, Typed, DisarmType
<1> QED BY <1>1 DEF HeldInv, Handled, Listening, Joinable, Recovering, Underway, Waits,
                    Scanning, Untouched, AtPc

LEMMA DisarmReturnsHeld ==
    ASSUME IInv, HeldInv, DisarmReturns PROVE HeldInv'
<1> DEFINE c == disarm.by
           m == [thread[c] EXCEPT !.pc = IF disarm.had THEN "pill" ELSE "lock"]
<1>1. /\ c \in Thread /\ thread[c].pc = "disarm" /\ thread' = [thread EXCEPT ![c] = m]
      /\ disarm' = NoDisarm
      /\ UNCHANGED <<timers, timer, row, tail, scan, due, parked, lost>>
  BY DEF DisarmReturns, IInv, Typed, DisarmInv, DisarmType, Thread, store, history
<1>2. m \in ThreadType /\ m.chat = thread[c].chat
  BY <1>1 DEF IInv, Typed, ThreadType
<1>3. parked' \subseteq Chats
  BY <1>1 DEF IInv, RestTyped
<1> HIDE DEF m, c
<1> QED BY <1>1, <1>2, <1>3, ThreadHeld

\* A timer changes: who listened to it, or was to be recovered by it, still
\* does and is, or is in other hands.
LEMMA TimerHeld ==
    ASSUME IInv, HeldInv, NEW t \in Timers, NEW n, timer' = [timer EXCEPT ![t] = n],
           parked' = parked, lost' = lost, parked \subseteq Chats,
           \A c \in parked : timer[t].stopped \/ c \notin timer[t].listeners
                               \/ (~n.stopped /\ c \in n.listeners) \/ Handled(c)',
           \A c \in parked : timer[t].pc \notin {"unlist", "close", "fan"} \/ c \notin timer[t].left
                               \/ (n.pc \in {"unlist", "close", "fan"} /\ c \in n.left)
                               \/ Handled(c)',
           \A c \in Chats : Untouched(c) => Untouched(c)' /\ row'[c] = row[c] /\ tail'[c] = tail[c],
           \A th \in Thread : thread[th].pc # "free" => thread'[th] = thread[th],
           \A k \in Signals : Joinable(timers[k]) /\ timer[timers[k]].listeners # {}
                                => timers'[k] = timers[k],
           disarm'.by = disarm.by,
           disarm'.pc \in {"peek", "kill"} => timer'[disarm'.at].listeners = {},
           UNCHANGED <<scan, due>>
    PROVE  HeldInv'
<1>1. timer'[t] = n /\ \A u \in Timers \ {t} : timer'[u] = timer[u]
  BY DEF IInv, Typed
<1>2. ASSUME NEW c \in parked \ lost PROVE Handled(c)' \/ Waits(c)'
  <2>1. CASE Listening(c)
    <3>1. PICK k \in Signals : Joinable(timers[k]) /\ c \in timer[timers[k]].listeners
      BY <2>1 DEF Listening
    <3>2. timers[k] \in Timers /\ timers[k] # None /\ timers'[k] = timers[k]
          /\ ~timer[timers[k]].stopped
      BY <3>1 DEF Joinable, IInv, Typed
    <3>3. CASE timers[k] # t
      BY <1>1, <3>1, <3>2, <3>3 DEF Handled, Listening, Joinable
    <3>4. CASE timers[k] = t
      <4>1. (~n.stopped /\ c \in n.listeners) \/ Handled(c)'
        BY <3>1, <3>2, <3>4
      <4> QED BY <1>1, <3>2, <3>4, <4>1 DEF Handled, Listening, Joinable
    <3> QED BY <3>3, <3>4
  <2>2. CASE Recovering(c)
    <3>1. PICK u \in Timers : timer[u].pc \in {"unlist", "close", "fan"} /\ c \in timer[u].left
      BY <2>2 DEF Recovering
    <3>2. CASE u # t
      BY <1>1, <3>1, <3>2 DEF Handled, Recovering
    <3>3. CASE u = t
      BY <1>1, <3>1, <3>3 DEF Handled, Recovering
    <3> QED BY <3>2, <3>3
  <2>3. CASE Underway(c)
    BY <2>3 DEF Handled, Underway
  <2>4. CASE Waits(c)
    BY <2>4 DEF Waits, Scanning
  <2> QED BY <2>1, <2>2, <2>3, <2>4 DEF HeldInv, Handled
<1>3. disarm'.by \in parked' =>
         \E th \in Thread : thread'[th].chat = disarm'.by /\ thread'[th].pc = "park"
  BY DEF HeldInv, AtPc
<1> QED BY <1>2, <1>3 DEF HeldInv, AtPc

\* What nobody knows, a timer that learns from another does not know either.
LEMMA StaysUntouched ==
    ASSUME IInv, NEW t \in Timers, NEW n, timer' = [timer EXCEPT ![t] = n], NEW c \in Chats,
           Untouched(c), thread' = thread,
           n.listeners \subseteq timer[t].listeners,
           c \in n.left => \E u \in Timers : c \in timer[u].listeners \cup timer[u].left,
           n.at = c => c \in timer[t].left \/ timer[t].at = c
    PROVE  Untouched(c)'
BY DEF Untouched, IInv, Typed, AtPc

LEMMA DisarmVisitsHeld ==
    ASSUME IInv, HeldInv, NEW t \in Timers, DisarmVisits(t) PROVE HeldInv'
<1> DEFINE n == [timer[t] EXCEPT !.listeners = @ \ {disarm.by}]
<1>0. timer[t] \in TimerType /\ disarm.by \in Chats /\ parked \subseteq Chats
      /\ disarm \in DisarmType
  BY DEF DisarmVisits, IInv, Typed, DisarmType, RestTyped
<1>1. /\ timer' = [timer EXCEPT ![t] = n]
      /\ n.listeners = timer[t].listeners \ {disarm.by} /\ n.stopped = timer[t].stopped
      /\ n.pc = timer[t].pc /\ n.left = timer[t].left /\ n.at = timer[t].at
  BY <1>0 DEF DisarmVisits, TimerType
<1>2. /\ UNCHANGED <<timers, thread, tail, scan, due, parked, lost>>
      /\ disarm'.by = disarm.by /\ disarm'.at = t
      /\ disarm'.pc \in {"peek", "kill"} => n.listeners = {}
      /\ \A c \in Chats : c \notin timer[t].listeners => row'[c] = row[c]
  BY <1>0, <1>1 DEF DisarmVisits, history, IInv, RestTyped, DisarmType
<1> HIDE DEF n
<1>3. disarm.by \in parked => Handled(disarm.by)'
  BY <1>2 DEF HeldInv, Handled, Underway, AtPc
<1>4. \A c \in parked : timer[t].stopped \/ c \notin timer[t].listeners
                          \/ (~n.stopped /\ c \in n.listeners) \/ Handled(c)'
  <2> SUFFICES ASSUME NEW c \in parked, ~timer[t].stopped, c \in timer[t].listeners
               PROVE  (~n.stopped /\ c \in n.listeners) \/ Handled(c)'
    OBVIOUS
  <2>1. CASE c # disarm.by
    BY <1>1, <2>1
  <2>2. ASSUME c = disarm.by PROVE Handled(c)'
    <3>1. Underway(c)'
      BY <1>2, <2>2 DEF HeldInv, Underway, AtPc
    <3> QED BY <3>1 DEF Handled
  <2> QED BY <2>1, <2>2
<1>5. \A c \in Chats : Untouched(c) => Untouched(c)' /\ row'[c] = row[c] /\ tail'[c] = tail[c]
  <2> SUFFICES ASSUME NEW c \in Chats, Untouched(c)
               PROVE  Untouched(c)' /\ row'[c] = row[c] /\ tail'[c] = tail[c]
    OBVIOUS
  <2>1. c \notin timer[t].listeners
    BY DEF Untouched
  <2>2. /\ n.listeners \subseteq timer[t].listeners /\ n.at = c => timer[t].at = c
        /\ c \in n.left => \E u \in Timers : c \in timer[u].listeners \cup timer[u].left
    BY <1>1
  <2>3. Untouched(c)'
    BY <1>1, <1>2, <2>2, StaysUntouched
  <2> QED BY <1>2, <2>1, <2>3
<1>6. disarm'.pc \in {"peek", "kill"} => timer'[disarm'.at].listeners = {}
  BY <1>1, <1>2 DEF IInv, Typed
<1>7. \A c \in parked : timer[t].pc \notin {"unlist", "close", "fan"} \/ c \notin timer[t].left
                          \/ (n.pc \in {"unlist", "close", "fan"} /\ c \in n.left)
                          \/ Handled(c)'
  BY <1>1
<1> QED BY <1>0, <1>1, <1>2, <1>4, <1>5, <1>6, <1>7, TimerHeld

LEMMA DisarmKillsHeld ==
    ASSUME IInv, HeldInv, DisarmKills PROVE HeldInv'
<1> DEFINE t == disarm.at
           n == [timer[t] EXCEPT !.stopped = TRUE, !.closed = TRUE]
<1>0. /\ t \in Timers /\ Registered(t) /\ parked \subseteq Chats
      /\ timer[t] \in TimerType /\ disarm \in DisarmType
  BY DEF DisarmKills, IInv, Typed, DisarmInv, RestTyped
<1>1. /\ timer' = [timer EXCEPT ![t] = n]
      /\ n.listeners = timer[t].listeners /\ n.pc = timer[t].pc
      /\ n.left = timer[t].left /\ n.at = timer[t].at /\ timer[t].listeners = {}
  BY <1>0 DEF DisarmKills, TimerType, HeldInv
<1>2. /\ UNCHANGED <<thread, row, tail, scan, due, parked, lost>>
      /\ disarm'.by = disarm.by /\ disarm'.pc = "next"
      /\ timers' = [timers EXCEPT ![timer[t].key] = None]
  BY <1>0 DEF DisarmKills, store, history, Unlisted, DisarmType
<1> HIDE DEF n, t
<1>3. \A k \in Signals : Joinable(timers[k]) /\ timer[timers[k]].listeners # {}
                           => timers'[k] = timers[k]
  BY <1>0, <1>1, <1>2 DEF Registered, IInv, Typed
<1>4. \A c \in Chats : Untouched(c) => Untouched(c)'
  BY <1>0, <1>1, <1>2, StaysUntouched
<1> QED BY <1>0, <1>1, <1>2, <1>3, <1>4, TimerHeld
-----------------------------------------------------------------------------

\* After a death the scan has whom the restart did not lose.
LEMMA RestartedHeld ==
    ASSUME IInv, HeldInv, Restarted PROVE HeldInv'
<1> USE DEF Restarted
<1>1. ASSUME NEW c \in parked' \ lost' PROVE Waits(c)'
  <2>1. c \in Chats /\ c # None /\ row'[c] # None /\ tail'[c] = "error"
    BY <1>1, SentinelAssumption DEF IInv, RestTyped
  <2>2. Untouched(c)'
    BY <2>1 DEF Untouched, AtPc, FreeTimer, FreeThread, Thread
  <2> QED BY <2>1, <2>2 DEF Waits, Scanning
<1>2. disarm'.by \notin parked' /\ disarm'.pc = "next"
  BY SentinelAssumption DEF NoDisarm, IInv, RestTyped
<1> QED BY <1>1, <1>2 DEF HeldInv

\* The scan passes by a chat only if its log does not end in an error.
LEMMA ScanReadsHeld ==
    ASSUME IInv, HeldInv, ScanLists \/ ScanEnds \/ \E c \in Chats : ScanChecks(c)
    PROVE  HeldInv'
<1>1. UNCHANGED <<timers, timer, thread, disarm, row, tail, parked, lost>>
  BY DEF ScanLists, ScanEnds, ScanChecks, store, history
<1>2. ASSUME NEW c \in parked \ lost, Waits(c) PROVE Scanning(c)'
  <2>0. c \in Chats
    BY DEF IInv, RestTyped
  <2>1. CASE ScanLists
    BY <1>2, <2>0, <2>1 DEF ScanLists, Waits, Scanning
  <2>2. CASE ScanEnds
    BY <1>2, <2>0, <2>2 DEF ScanEnds, Waits, Scanning
  <2>3. CASE \E d \in Chats : ScanChecks(d)
    BY <1>2, <2>0, <2>3, SentinelAssumption DEF ScanChecks, Waits, Scanning, IInv, RestTyped
  <2> QED BY <2>1, <2>2, <2>3
<1> QED BY <1>1, <1>2 DEF HeldInv, Handled, Listening, Joinable, Recovering, Underway, Waits,
                          Untouched, AtPc

\* A scan that joins a stopped timer loses the chat.
LEMMA ScanArmsHeld ==
    ASSUME IInv, HeldInv, NEW c \in Chats, ScanArms(c) PROVE HeldInv'
<1> DEFINE k == due[c]
           t == timers[k]
<1>1. /\ scan = c /\ k \in Signals /\ disarm.by = None
      /\ UNCHANGED <<thread, disarm, row, parked>>
      /\ scan' = "walk" /\ lost \subseteq lost'
      /\ \A d \in Chats \ {c} : due'[d] = due[d] /\ tail'[d] = tail[d]
  BY DEF ScanArms, RsFree, ScanInv, IInv, RestTyped
<1>2. /\ c \in parked' \ lost' => Listening(c)'
      /\ \A s \in Signals, d \in Chats :
           Joinable(timers[s]) /\ d \in timer[timers[s]].listeners
             => Joinable(timers[s])' /\ d \in timer'[timers'[s]].listeners
      /\ \A u \in Timers : /\ timer'[u].listeners \subseteq timer[u].listeners \cup {c}
                           /\ timer'[u].left \subseteq timer[u].left
                           /\ timer'[u].at \in {timer[u].at, None}
      /\ \A u \in Timers : timer[u].pc # "free"
           => timer'[u].pc = timer[u].pc /\ timer'[u].left = timer[u].left
  <2>1. CASE /\ t # None /\ timer' = [timer EXCEPT ![t].listeners = @ \cup {c}]
             /\ lost' = IF timer[t].stopped THEN lost \cup ({c} \cap parked) ELSE lost
             /\ timers' = timers
    <3>1. t \in Timers /\ t # None
      BY <1>1, <2>1 DEF IInv, Typed
    <3>2. /\ timer'[t] = [timer[t] EXCEPT !.listeners = @ \cup {c}]
          /\ \A u \in Timers \ {t} : timer'[u] = timer[u]
      BY <2>1, <3>1 DEF IInv, Typed
    <3>3. /\ timer'[t].listeners = timer[t].listeners \cup {c} /\ timer'[t].left = timer[t].left
          /\ timer'[t].at = timer[t].at /\ timer'[t].pc = timer[t].pc
          /\ timer'[t].stopped = timer[t].stopped
      BY <3>1, <3>2 DEF IInv, Typed, TimerType
    <3>4. ASSUME c \in parked' \ lost' PROVE Listening(c)'
      <4>1. ~timer[t].stopped
        BY <1>1, <2>1, <3>4
      <4>2. timers'[k] = t /\ ~timer'[t].stopped /\ c \in timer'[t].listeners
        BY <2>1, <3>3, <4>1
      <4> HIDE DEF t, k
      <4>3. \E s \in Signals : /\ timers'[s] # None /\ ~timer'[timers'[s]].stopped
                               /\ c \in timer'[timers'[s]].listeners
        BY <1>1, <3>1, <4>2
      <4> QED BY <4>3 DEF Listening, Joinable
    <3> HIDE DEF k, t
    <3>5. ASSUME NEW s \in Signals, NEW d \in Chats,
                 Joinable(timers[s]), d \in timer[timers[s]].listeners
          PROVE  Joinable(timers[s])' /\ d \in timer'[timers'[s]].listeners
      <4>1. timers[s] \in Timers
        BY <3>5 DEF Joinable, IInv, Typed
      <4> QED BY <2>1, <3>2, <3>3, <3>5, <4>1 DEF Joinable
    <3> QED BY <3>2, <3>3, <3>4, <3>5
  <2>2. ASSUME t = None, NEW u \in FreshTimer,
               timer' = [timer EXCEPT ![u] = NewTimer(k, {c}, "wait")],
               timers' = [timers EXCEPT ![k] = u]
        PROVE  <1>2!:
    <3> DEFINE n == NewTimer(k, {c}, "wait")
    <3>1. u \in Timers /\ timer[u].pc = "free" /\ u # None
      BY <2>2, AnyOfIn, SentinelAssumption DEF FreshTimer, Alive
    <3>2. /\ n.listeners = {c} /\ ~n.stopped /\ n.left = {} /\ n.at = None
      BY DEF NewTimer, FreeTimer
    <3> HIDE DEF n
    <3>3. timer'[u] = n /\ \A v \in Timers \ {u} : timer'[v] = timer[v]
      BY <2>2, <3>1 DEF IInv, Typed, n
    <3>4. timers'[k] = u /\ \A s \in Signals \ {k} : timers'[s] = timers[s]
      BY <1>1, <2>2, <3>1 DEF IInv, Typed
    <3>5. ASSUME NEW s \in Signals, Joinable(timers[s]) PROVE s # k /\ timers[s] \in Timers \ {u}
      <4>1. s # k
        BY <2>2, <3>5 DEF Joinable
      <4>2. timers[s] \in Timers /\ timer[timers[s]].pc # "free"
        BY <3>5 DEF Joinable, IInv, Typed, RegistryInv
      <4> QED BY <3>1, <4>1, <4>2
    <3> HIDE DEF k, t
    <3>6. \E s \in Signals : /\ timers'[s] # None /\ ~timer'[timers'[s]].stopped
                             /\ c \in timer'[timers'[s]].listeners
      BY <1>1, <3>1, <3>2, <3>3, <3>4
    <3>7. Listening(c)'
      BY <3>6 DEF Listening, Joinable
    <3>8. \A s \in Signals, d \in Chats :
             Joinable(timers[s]) /\ d \in timer[timers[s]].listeners
               => Joinable(timers[s])' /\ d \in timer'[timers'[s]].listeners
      BY <3>3, <3>4, <3>5 DEF Joinable
    <3> QED BY <3>1, <3>2, <3>3, <3>7, <3>8
  <2> QED BY <2>1, <2>2 DEF ScanArms
<1> HIDE DEF k, t
<1>3. ASSUME NEW d \in parked' \ lost' PROVE Handled(d)' \/ Waits(d)'
  <2>0. d \in parked \ lost /\ d \in Chats /\ d # None
    BY <1>1, SentinelAssumption DEF IInv, RestTyped
  <2>1. CASE d = c
    BY <1>2, <1>3, <2>1 DEF Handled
  <2>2. CASE Listening(d)
    <3>1. PICK s \in Signals : Joinable(timers[s]) /\ d \in timer[timers[s]].listeners
      BY <2>2 DEF Listening
    <3> QED BY <1>2, <2>0, <3>1 DEF Handled, Listening
  <2>3. CASE Recovering(d)
    BY <1>2, <2>3 DEF Handled, Recovering
  <2>4. CASE Underway(d)
    BY <1>1, <2>4 DEF Handled, Underway
  <2>5. CASE d # c /\ Waits(d)
    <3>1. Untouched(d)'
      BY <1>1, <1>2, <2>0, <2>5 DEF Waits, Untouched, AtPc
    <3>2. Scanning(d)'
      BY <1>1, <2>0, <2>5, SentinelAssumption DEF Waits, Scanning
    <3> QED BY <1>1, <2>0, <2>5, <3>1, <3>2 DEF Waits
  <2> QED BY <2>0, <2>1, <2>2, <2>3, <2>4, <2>5 DEF HeldInv, Handled
<1>4. disarm'.by \notin parked' /\ disarm'.pc = "next"
  BY <1>1, SentinelAssumption DEF IInv, RestTyped, DisarmInv
<1> QED BY <1>3, <1>4 DEF HeldInv

\* A loop that walks learns of chats from another timer, or of none.
LEMMA LoopWalksShape ==
    ASSUME IInv, NEW t \in Timers,
           \/ LoopWakes(t) \/ LoopFails(t) \/ LoopLists(t) \/ LoopRewrites(t) \/ LoopWaits(t)
           \/ \E c \in Chats : LoopPaces(t, c)
    PROVE  LET n == timer'[t] IN
           /\ timer[t].pc \in {"wait", "probe", "list", "pace"}
           /\ timer' = [timer EXCEPT ![t] = n]
           /\ n.listeners = timer[t].listeners /\ n.stopped = timer[t].stopped
           /\ n.at \in {timer[t].at, None} \/ n.at \in timer[t].left
           /\ \/ n.left \subseteq timer[t].left
              \/ \E u \in Timers : n.left \subseteq timer[u].listeners
<1> DEFINE n == timer'[t]
<1>0. timer[t] \in TimerType /\ timer \in [Timers -> TimerType]
  BY DEF IInv, Typed
<1>1. CASE LoopWakes(t) \/ LoopFails(t) \/ LoopWaits(t)
  <2>1. PICK pc \in {"probe", "list", "wait"} : timer' = [timer EXCEPT ![t].pc = pc]
    BY <1>1 DEF LoopWakes, LoopFails, LoopWaits, LoopMoves
  <2>2. timer[t].pc \in {"wait", "probe", "pace"}
    BY <1>1 DEF LoopWakes, LoopFails, LoopWaits, LoopMoves
  <2> QED BY <1>0, <2>1, <2>2 DEF TimerType
<1>2. CASE LoopRewrites(t)
  BY <1>0, <1>2 DEF LoopRewrites, TimerType
<1>3. CASE LoopLists(t)
  <2> DEFINE u == timers[timer[t].key]
  <2>1. timer[t].key \in Signals
    BY <1>3 DEF LoopLists, IInv, LiveInv, Alive
  <2>2. u # None => u \in Timers
    BY <2>1 DEF IInv, Typed
  <2>3. /\ timer[t].pc = "list" /\ timer' = [timer EXCEPT ![t] = n]
        /\ n.listeners = timer[t].listeners /\ n.stopped = timer[t].stopped
        /\ n.at = timer[t].at /\ n.left = IF u = None THEN {} ELSE timer[u].listeners
    BY <1>0, <1>3 DEF LoopLists, TimerType
  <2> HIDE DEF u, n
  <2> QED BY <2>2, <2>3 DEF n
<1>4. ASSUME NEW c \in Chats, LoopPaces(t, c) PROVE n.at \in {timer[t].at, None} \cup timer[t].left
  <2>1. timer'[t] = [timer[t] EXCEPT !.left = @ \ {c}, !.seen = row[c],
                                     !.at = IF row[c] = None THEN None ELSE c]
    BY <1>0, <1>4 DEF LoopPaces
  <2>2. n.at = IF row[c] = None THEN None ELSE c
    BY <1>0, <2>1 DEF TimerType
  <2> QED BY <1>4, <2>2 DEF LoopPaces
<1>5. CASE \E c \in Chats : LoopPaces(t, c)
  <2>1. PICK c \in Chats : LoopPaces(t, c)
    BY <1>5
  <2>2. timer' = [timer EXCEPT ![t].left = @ \ {c}, ![t].seen = row[c],
                               ![t].at = IF row[c] = None THEN None ELSE c]
    BY <2>1 DEF LoopPaces
  <2>3. /\ timer' = [timer EXCEPT ![t] = n]
        /\ n.listeners = timer[t].listeners /\ n.stopped = timer[t].stopped
        /\ n.left = timer[t].left \ {c}
    BY <1>0, <2>2 DEF TimerType
  <2>4. timer[t].pc = "pace"
    BY <2>1 DEF LoopPaces
  <2> HIDE DEF n
  <2> QED BY <1>4, <2>1, <2>3, <2>4 DEF n
<1> QED BY <1>1, <1>2, <1>3, <1>5

LEMMA LoopWalksHeld ==
    ASSUME IInv, HeldInv, NEW t \in Timers,
           \/ LoopWakes(t) \/ LoopFails(t) \/ LoopLists(t) \/ LoopRewrites(t) \/ LoopWaits(t)
           \/ \E c \in Chats : LoopPaces(t, c)
    PROVE  HeldInv'
<1> DEFINE n == timer'[t]
<1>0. timer[t] \in TimerType /\ timer \in [Timers -> TimerType]
  BY DEF IInv, Typed
<1>1. /\ timer[t].pc \in {"wait", "probe", "list", "pace"}
      /\ timer' = [timer EXCEPT ![t] = n]
      /\ n.listeners = timer[t].listeners /\ n.stopped = timer[t].stopped
  BY LoopWalksShape
<1>2. /\ UNCHANGED <<timers, thread, disarm, scan, due, parked, lost>>
      /\ parked \subseteq Chats
  BY DEF LoopWakes, LoopFails, LoopLists, LoopRewrites, LoopWaits, LoopPaces, LoopMoves,
         store, history, IInv, RestTyped
<1>3. \A c \in Chats : c \in n.left => \E u \in Timers : c \in timer[u].listeners \cup timer[u].left
  <2>1. \/ n.left \subseteq timer[t].left
        \/ \E u \in Timers : n.left \subseteq timer[u].listeners
    BY LoopWalksShape
  <2> HIDE DEF n
  <2> QED BY <2>1
<1>4. \A c \in Chats : n.at = c => c \in timer[t].left \/ timer[t].at = c
  <2>1. n.at \in {timer[t].at, None} \/ n.at \in timer[t].left
    BY LoopWalksShape
  <2> HIDE DEF n
  <2> QED BY <2>1, SentinelAssumption
<1>5. \A c \in Chats : Untouched(c) => row'[c] = row[c] /\ tail'[c] = tail[c]
  <2> SUFFICES ASSUME NEW c \in Chats, Untouched(c)
               PROVE  row'[c] = row[c] /\ tail'[c] = tail[c]
    OBVIOUS
  <2>1. c \notin timer[t].left /\ c # timer[t].at
    BY DEF Untouched
  <2> QED BY <2>1 DEF LoopWakes, LoopFails, LoopLists, LoopRewrites, LoopWaits, LoopPaces,
                      LoopMoves, store, IInv, RestTyped
<1> HIDE DEF n
<1>6. \A c \in Chats : Untouched(c) => Untouched(c)'
  <2> SUFFICES ASSUME NEW c \in Chats, Untouched(c) PROVE Untouched(c)'
    OBVIOUS
  <2>1. n.listeners \subseteq timer[t].listeners
    BY <1>1
  <2> QED BY <1>1, <1>2, <1>3, <1>4, <2>1, StaysUntouched
<1>7. disarm'.pc \in {"peek", "kill"} => timer'[disarm'.at].listeners = {}
  BY <1>0, <1>1, <1>2 DEF HeldInv, IInv, DisarmInv
<1> QED BY <1>1, <1>2, <1>5, <1>6, <1>7, TimerHeld

\* The loops that are done with their listeners' timer.
LEMMA LoopEndsHeld ==
    ASSUME IInv, HeldInv, NEW t \in Timers,
           \/ LoopUnlists(t) \/ LoopEnds(t) \/ LoopReturns(t)
           \/ LoopCloses(t) /\ UNCHANGED <<timers, thread, disarm, scan, due, store, history>>
                            /\ timer' = [timer EXCEPT ![t].closed = TRUE, ![t].pc = "fan"]
    PROVE  HeldInv'
<1> DEFINE n == timer'[t]
<1>0. timer[t] \in TimerType /\ timer \in [Timers -> TimerType]
  BY DEF IInv, Typed
<1>1. /\ timer[t].stopped
      /\ timer' = [timer EXCEPT ![t] = n]
      /\ n.listeners \subseteq timer[t].listeners
      /\ n.left \subseteq timer[t].left
      /\ n.at \in {timer[t].at, None}
      /\ timer[t].pc \in {"unlist", "close", "fan"} =>
           \/ n.pc \in {"unlist", "close", "fan"} /\ n.left = timer[t].left
           \/ timer[t].left = {}
  <2>1. timer[t].stopped
    BY DEF LoopUnlists, LoopEnds, LoopReturns, LoopCloses, IInv, LiveInv, Alive
  <2>2. timer' = [timer EXCEPT ![t] = n]
    BY <1>0 DEF LoopUnlists, LoopEnds, LoopReturns
  <2>3. CASE LoopUnlists(t) \/ timer' = [timer EXCEPT ![t].closed = TRUE, ![t].pc = "fan"]
    BY <1>0, <2>1, <2>2, <2>3 DEF LoopUnlists, TimerType
  <2>4. CASE LoopEnds(t) \/ LoopReturns(t)
    BY <1>0, <2>1, <2>2, <2>4 DEF LoopEnds, LoopReturns, TimerType, FreeTimer
  <2> QED BY <2>3, <2>4
<1>2. /\ UNCHANGED <<thread, disarm, row, tail, scan, due, parked, lost>>
      /\ parked \subseteq Chats
  BY DEF LoopUnlists, LoopEnds, LoopReturns, LoopCloses, store, history, IInv, RestTyped
<1>3. \A k \in Signals : Joinable(timers[k]) => timers'[k] = timers[k]
  <2>1. CASE LoopUnlists(t)
    BY <1>1, <2>1 DEF LoopUnlists, Unlisted, Joinable, IInv, Typed
  <2>2. CASE ~LoopUnlists(t)
    BY <2>2 DEF LoopEnds, LoopReturns
  <2> QED BY <2>1, <2>2
<1> HIDE DEF n
<1>4. \A c \in Chats : Untouched(c) => Untouched(c)'
  <2> SUFFICES ASSUME NEW c \in Chats, Untouched(c) PROVE Untouched(c)'
    OBVIOUS
  <2>1. /\ c \in n.left => \E u \in Timers : c \in timer[u].listeners \cup timer[u].left
        /\ n.at = c => timer[t].at = c
    BY <1>1, SentinelAssumption
  <2> QED BY <1>1, <1>2, <2>1, StaysUntouched
<1>5. disarm'.pc \in {"peek", "kill"} => timer'[disarm'.at].listeners = {}
  BY <1>0, <1>1, <1>2 DEF HeldInv, IInv, DisarmInv
<1> QED BY <1>1, <1>2, <1>3, <1>4, <1>5, TimerHeld

LEMMA LoopClosesHeld ==
    ASSUME IInv, HeldInv, NEW t \in Timers, LoopCloses(t) PROVE HeldInv'
BY RestartedHeld, LoopEndsHeld DEF LoopCloses

\* The listeners go over into the hands of the recovery.
LEMMA LoopRecoversHeld ==
    ASSUME IInv, HeldInv, NEW t \in Timers, LoopRecovers(t) PROVE HeldInv'
<1> DEFINE n == [timer[t] EXCEPT !.stopped = TRUE, !.left = timer[t].listeners,
                                 !.listeners = {}, !.pc = "unlist"]
<1>0. timer[t] \in TimerType /\ timer \in [Timers -> TimerType] /\ parked \subseteq Chats
  BY DEF IInv, Typed, RestTyped
<1>1. /\ timer[t].pc = "probe" /\ timer' = [timer EXCEPT ![t] = n]
      /\ n.left = timer[t].listeners /\ n.listeners = {} /\ n.pc = "unlist"
      /\ n.at = timer[t].at
  BY <1>0 DEF LoopRecovers, TimerType
<1>2. UNCHANGED <<timers, thread, disarm, row, tail, scan, due, parked, lost>>
  BY DEF LoopRecovers, store, history
<1> HIDE DEF n
<1>3. timer'[t] = n
  BY <1>0, <1>1
<1>4. \A c \in timer[t].listeners : Handled(c)'
  BY <1>1, <1>3 DEF Handled, Recovering
<1>5. \A c \in Chats : Untouched(c) => Untouched(c)'
  <2> SUFFICES ASSUME NEW c \in Chats, Untouched(c) PROVE Untouched(c)'
    OBVIOUS
  <2>1. /\ c \in n.left => \E u \in Timers : c \in timer[u].listeners \cup timer[u].left
        /\ n.at = c => timer[t].at = c /\ n.listeners \subseteq timer[t].listeners
    BY <1>1
  <2>2. n.listeners \subseteq timer[t].listeners
    BY <1>1
  <2> QED BY <1>1, <1>2, <2>1, <2>2, StaysUntouched
<1>6. disarm'.pc \in {"peek", "kill"} => timer'[disarm'.at].listeners = {}
  BY <1>0, <1>1, <1>2 DEF HeldInv, IInv, DisarmInv
<1> QED BY <1>0, <1>1, <1>2, <1>4, <1>5, <1>6, TimerHeld

\* A listener goes over into the hands of its goroutine.
LEMMA LoopFansHeld ==
    ASSUME IInv, HeldInv, NEW t \in Timers, NEW c \in Chats, LoopFans(t, c) PROVE HeldInv'
<1> DEFINE n == [timer[t] EXCEPT !.left = @ \ {c}]
<1>0. timer[t] \in TimerType /\ timer \in [Timers -> TimerType] /\ parked \subseteq Chats
  BY DEF IInv, Typed, RestTyped
<1>1. PICK a \in FreshAuto :
         thread' = [thread EXCEPT ![a] = [chat |-> c, key |-> timer[t].key,
                                          pc |-> "sleep", made |-> None]]
  BY DEF LoopFans
<1>2. /\ a \in Thread /\ a \notin Chats /\ thread[a].pc = "free"
      /\ thread'[a].chat = c /\ thread'[a].pc = "sleep"
      /\ \A th \in Thread \ {a} : thread'[th] = thread[th]
  <2>1. a \in Autos /\ thread[a].pc = "free"
    BY AnyOfIn DEF FreshAuto, AtPc
  <2> QED BY <1>1, <2>1, SentinelAssumption DEF Thread, IInv, Typed
<1>3. /\ timer[t].pc = "fan" /\ c \in timer[t].left /\ timer[t].stopped
      /\ timer' = [timer EXCEPT ![t] = n]
      /\ n.left = timer[t].left \ {c} /\ n.listeners = timer[t].listeners
      /\ n.pc = "fan" /\ n.at = timer[t].at
  BY <1>0 DEF LoopFans, TimerType, IInv, LiveInv, Alive
<1>4. /\ UNCHANGED <<timers, disarm, scan, due, parked, lost>>
      /\ \A d \in Chats \ {c} : row'[d] = row[d] /\ tail'[d] = tail[d]
  BY DEF LoopFans, history, IInv, RestTyped
<1> HIDE DEF n
<1>5. timer'[t] = n /\ \A u \in Timers \ {t} : timer'[u] = timer[u]
  BY <1>0, <1>3
<1>6. Handled(c)'
  BY <1>2 DEF Handled, Underway
<1>7. ASSUME NEW d \in Chats, Untouched(d)
      PROVE  Untouched(d)' /\ row'[d] = row[d] /\ tail'[d] = tail[d]
  <2>1. d # c
    BY <1>3, <1>7 DEF Untouched
  <2>2. Untouched(d)'
    BY <1>2, <1>3, <1>5, <1>7, <2>1 DEF Untouched, AtPc, Thread
  <2> QED BY <1>4, <2>1, <2>2
<1>8. disarm'.pc \in {"peek", "kill"} => timer'[disarm'.at].listeners = {}
  BY <1>0, <1>3, <1>4 DEF HeldInv, IInv, DisarmInv
<1>9. \A d \in parked : d \in timer[t].left => d \in n.left \/ Handled(d)'
  <2> SUFFICES ASSUME NEW d \in parked, d \in timer[t].left, d \notin n.left PROVE Handled(d)'
    OBVIOUS
  <2>1. d = c
    BY <1>3
  <2> QED BY <1>6, <2>1
<1> QED BY <1>0, <1>2, <1>3, <1>4, <1>7, <1>8, <1>9, TimerHeld

LEMMA LoopStepHeld ==
    ASSUME IInv, HeldInv, NEW t \in Timers, LoopStep(t) PROVE HeldInv'
BY LoopWalksHeld, LoopEndsHeld, LoopRecoversHeld, LoopClosesHeld, LoopFansHeld DEF LoopStep

LEMMA NextHeld == ASSUME IInv, IInv', HeldInv, [Next]_vars PROVE HeldInv'
<1>1. CASE UNCHANGED vars
  BY <1>1 DEF vars, memory, store, history, HeldInv, Handled, Listening, Joinable, Recovering,
              Underway, Waits, Scanning, Untouched, AtPc
<1>2. CASE DisarmStep
  BY <1>2, DisarmVisitsHeld, DisarmPeeksHeld, DisarmKillsHeld, DisarmReturnsHeld DEF DisarmStep
<1>3. CASE ScanStep
  BY <1>3, ScanReadsHeld, ScanArmsHeld DEF ScanStep
<1>4. CASE Crash
  BY <1>4, RestartedHeld DEF Crash
<1> QED BY <1>1, <1>2, <1>3, <1>4, UserStartsHeld, UserStepHeld, AutoStepHeld, LoopStepHeld
        DEF Next

\* A chat whose newest turn parked is never dropped: whatever Arm, Disarm, the
\* loops, the continuations, deaths and the boot scan do to each other, it
\* listens on a timer that runs, or is in a recovery's or a goroutine's hands, or
\* the scan has it, unless a restart lost it.
THEOREM ParkedAlwaysHeld == Spec => []ParkedIsHeld
<1>1. Init => HeldInv
  BY SentinelAssumption DEF Init, HeldInv, NoDisarm
<1>2. IInv /\ HeldInv /\ [Next]_vars => HeldInv'
  BY NextKeeps, NextHeld
<1>3. HeldInv => ParkedIsHeld
  BY DEF HeldInv, Handled, Waits, ParkedIsHeld
<1> QED BY <1>1, <1>2, <1>3, IInvHolds, PTL DEF Spec
=============================================================================
