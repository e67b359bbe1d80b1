------------------------------ MODULE JobLanes ------------------------------
(***************************************************************************)
(* The background-job layer: mcpbus/jobwrap.go (withGrace, the job_kill    *)
(* dispatch) over jobmgr/jobmgr.go (the registry).                         *)
(*                                                                         *)
(* Every tool call passes withGrace.  Its work runs in a goroutine that    *)
(* sends one outcome into a one-slot channel.  The caller selects between  *)
(* that channel and the grace timer: a finish inside the window is the     *)
(* plain result, otherwise the call becomes a registered lane, the caller  *)
(* gets a ticket, and a settler goroutine reports the outcome later.       *)
(* job_kill is itself such a call: its body is manager.Kill.               *)
(*                                                                         *)
(* One critical section of manager.mu is one action; so is one channel     *)
(* operation.  A job id is its call: ids are random and never collide.     *)
(***************************************************************************)
EXTENDS Integers, Sequences, FiniteSets

CONSTANTS
    Call,           \* tool calls, each dispatched at most once
    KillCall,       \* the ones that are job_kill
    Session,        \* chats
    SessionOf,      \* the chat of a call (sessionOf)
    NoCall,         \* "no such job"
    MaxPerSession,  \* the runaway guard
    MaxInFlight,    \* calls a chat's callers hold open at once
    GraceEnabled    \* DOOMALAY_JOB_GRACE_MS # 0

ASSUME CallsAssumption ==
    /\ IsFiniteSet(Call)
    /\ KillCall \subseteq Call
    /\ NoCall \notin Call
    /\ SessionOf \in [Call -> Session]

ASSUME LimitsAssumption ==
    /\ MaxPerSession \in Nat \ {0}
    /\ MaxInFlight \in Nat \ {0}
    /\ GraceEnabled \in BOOLEAN

VARIABLES
    phase,      \* where the caller's side of withGrace stands
    work,       \* where the call's own goroutine (then its settler) stands
    outcome,    \* what the work sent into the done channel
    ctxDead,    \* calls whose lane context has been cancelled
    job,        \* the registry: Job.State, "none" before Begin
    running,    \* manager.running
    ring,       \* manager.settled: copies awaiting a round boundary
    sinkOwner,  \* who, past Settle's unlock, still has to fire the sink
    rows,       \* chat rows the sink wrote for a job
    heard,      \* times a round boundary told the model of a job
    target,     \* the id argument of a job_kill
    said        \* what a job_kill answered

regVars  == <<job, running, ring>>
sinkVars == <<sinkOwner, rows>>
killVars == <<target, said>>
vars == <<phase, work, outcome, ctxDead, regVars, sinkVars, heard, killVars>>

Terminal == {"completed", "failed", "cancelled"}
JobState == {"none", "working"} \cup Terminal
Answered == {"refused", "plain", "ticketed"}
Phase    == {"new", "waiting", "expired", "arming"} \cup Answered
\* "looked", "cancelling" and "settled" are the steps inside manager.Kill.
Work     == {"none", "running", "looked", "cancelling", "settled",
             "sent", "taken", "reported"}

TypeOK ==
    /\ phase \in [Call -> Phase]
    /\ work \in [Call -> Work]
    /\ outcome \in [Call -> {"none", "ok", "err"}]
    /\ ctxDead \in SUBSET Call
    /\ job \in [Call -> JobState]
    /\ running \in [Session -> Nat]
    /\ ring \in [Session -> Seq([call : Call, state : Terminal])]
    /\ sinkOwner \in [Call -> Call \cup {NoCall}]
    /\ rows \in [Call -> Nat]
    /\ heard \in [Call -> Nat]
    /\ target \in [Call -> Call \cup {NoCall}]
    /\ said \in [Call -> {"none", "STOPPED", "terminal", "no job"}]

Init ==
    /\ phase = [c \in Call |-> "new"]
    /\ work = [c \in Call |-> "none"]
    /\ outcome = [c \in Call |-> "none"]
    /\ ctxDead = {}
    /\ job = [c \in Call |-> "none"]
    /\ running = [s \in Session |-> 0]
    /\ ring = [s \in Session |-> <<>>]
    /\ sinkOwner = [c \in Call |-> NoCall]
    /\ rows = [c \in Call |-> 0]
    /\ heard = [c \in Call |-> 0]
    /\ target = [c \in Call |-> NoCall]
    /\ said = [c \in Call |-> "none"]

-----------------------------------------------------------------------------
(* The caller's side: withGrace *)

CallsOf(s) == {c \in Call : SessionOf[c] = s}

\* Calls of s whose caller still waits for its answer.
InFlight(s) == {c \in CallsOf(s) : phase[c] \in {"waiting", "expired", "arming"}}

\* Mutant: the guard is off by one.
AtCapacityLate(s) == running[s] > MaxPerSession

AtCapacity(s) == running[s] >= MaxPerSession

Arrives(c) ==
    /\ phase[c] = "new"
    /\ Cardinality(InFlight(SessionOf[c])) < MaxInFlight

\* The runaway guard refuses the call before anything is dispatched.
Refuse(c) ==
    /\ Arrives(c)
    /\ AtCapacity(SessionOf[c])
    /\ phase' = [phase EXCEPT ![c] = "refused"]
    /\ UNCHANGED <<work, outcome, ctxDead, regVars, sinkVars, heard, killVars>>

\* Ids a caller can name: every registered job, and one that never existed.
KnownIds == {d \in Call : job[d] # "none"} \cup {NoCall}

Dispatch(c) ==
    /\ Arrives(c)
    /\ ~AtCapacity(SessionOf[c])
    /\ phase' = [phase EXCEPT ![c] = "waiting"]
    /\ work' = [work EXCEPT ![c] = "running"]
    /\ \E id \in (IF c \in KillCall THEN KnownIds ELSE {NoCall}) :
          target' = [target EXCEPT ![c] = id]
    /\ UNCHANGED <<outcome, ctxDead, regVars, sinkVars, heard, said>>

\* Receiving the outcome cancels the lane context and answers plainly.
AnswerPlainly(c) ==
    /\ work[c] = "sent"
    /\ work' = [work EXCEPT ![c] = "reported"]
    /\ ctxDead' = ctxDead \cup {c}
    /\ phase' = [phase EXCEPT ![c] = "plain"]
    /\ UNCHANGED <<outcome, regVars, sinkVars, heard, killVars>>

TakeDone(c) == phase[c] = "waiting" /\ AnswerPlainly(c)

\* The timer arm of the select: Go may pick it although done is ready too.
GraceExpires(c) ==
    /\ GraceEnabled
    /\ phase[c] = "waiting"
    /\ phase' = [phase EXCEPT ![c] = "expired"]
    /\ UNCHANGED <<work, outcome, ctxDead, regVars, sinkVars, heard, killVars>>

\* The once-delivery drain: a finish that is already there wins over a ticket.
DrainDone(c) == phase[c] = "expired" /\ AnswerPlainly(c)

DrainEmpty(c) ==
    /\ phase[c] = "expired"
    /\ work[c] # "sent"
    /\ phase' = [phase EXCEPT ![c] = "arming"]
    /\ UNCHANGED <<work, outcome, ctxDead, regVars, sinkVars, heard, killVars>>

\* manager.Begin, the settler's start and the ticket.
Begin(c) ==
    /\ phase[c] = "arming"
    /\ phase' = [phase EXCEPT ![c] = "ticketed"]
    /\ job' = [job EXCEPT ![c] = "working"]
    /\ running' = [running EXCEPT ![SessionOf[c]] = @ + 1]
    /\ UNCHANGED <<work, outcome, ctxDead, ring, sinkVars, heard, killVars>>

-----------------------------------------------------------------------------
(* The registry: Settle and the settler goroutine *)

\* The state a winning settle leaves behind; s is the chat it credits.
SettleIn(s, c, state, owner) ==
    /\ job' = [job EXCEPT ![c] = state]
    /\ running' = [running EXCEPT ![s] = IF @ > 0 THEN @ - 1 ELSE @]
    /\ ring' = [ring EXCEPT ![SessionOf[c]] = Append(@, [call |-> c, state |-> state])]
    /\ sinkOwner' = [sinkOwner EXCEPT ![c] = owner]

\* Mutants: no look at the state; a kill that leaves the sink out; the
\* counter of the settling goroutine's chat; the sink of a settle that lost.
SettleUnguarded(c, state, owner) == SettleIn(SessionOf[c], c, state, owner)

SettleSilentKill(c, state, owner) ==
    IF job[c] = "working"
    THEN SettleIn(SessionOf[c], c, state, IF state = "cancelled" THEN NoCall ELSE owner)
    ELSE UNCHANGED <<regVars, sinkOwner>>

SettleWrongChat(c, state, owner) ==
    IF job[c] = "working"
    THEN SettleIn(SessionOf[owner], c, state, owner)
    ELSE UNCHANGED <<regVars, sinkOwner>>

SettleLoserFires(c, state, owner) ==
    IF job[c] = "working"
    THEN SettleIn(SessionOf[c], c, state, owner)
    ELSE UNCHANGED regVars /\ sinkOwner' = [sinkOwner EXCEPT ![c] = owner]

\* manager.Settle up to its unlock, called by owner: only a working job
\* moves, and the winner leaves with the sink call still to make.
Settle(c, state, owner) ==
    IF job[c] = "working"
    THEN SettleIn(SessionOf[c], c, state, owner)
    ELSE UNCHANGED <<regVars, sinkOwner>>

\* A tool's own work ends: a result, an error, or a recovered panic.
Finish(c, o) ==
    /\ c \notin KillCall
    /\ work[c] = "running"
    /\ work' = [work EXCEPT ![c] = "sent"]
    /\ outcome' = [outcome EXCEPT ![c] = o]
    /\ UNCHANGED <<phase, ctxDead, regVars, sinkVars, heard, killVars>>

SettlerTakes(c) ==
    /\ phase[c] = "ticketed"
    /\ work[c] = "sent"
    /\ work' = [work EXCEPT ![c] = "taken"]
    /\ ctxDead' = ctxDead \cup {c}
    /\ UNCHANGED <<phase, outcome, regVars, sinkVars, heard, killVars>>

SettlerSettles(c) ==
    /\ work[c] = "taken"
    /\ work' = [work EXCEPT ![c] = "reported"]
    /\ Settle(c, IF outcome[c] = "ok" THEN "completed" ELSE "failed", c)
    /\ UNCHANGED <<phase, outcome, ctxDead, rows, heard, killVars>>

\* The sink runs outside the lock, on the goroutine that won the settle.
FireSink(c) ==
    /\ sinkOwner[c] # NoCall
    /\ sinkOwner' = [sinkOwner EXCEPT ![c] = NoCall]
    /\ rows' = [rows EXCEPT ![c] = @ + 1]
    /\ UNCHANGED <<phase, work, outcome, ctxDead, regVars, heard, killVars>>

\* How often a job stands in its chat's ring.
InRing(c) ==
    LET r == ring[SessionOf[c]]
    IN  Cardinality({i \in DOMAIN r : r[i].call = c})

\* Mutant: the ring is read, not drained.
DrainSettledPeeks(s) ==
    /\ ring[s] # <<>>
    /\ heard' = [c \in Call |-> IF SessionOf[c] = s THEN heard[c] + InRing(c)
                                                    ELSE heard[c]]
    /\ UNCHANGED <<phase, work, outcome, ctxDead, regVars, sinkVars, killVars>>

\* A round boundary (or a serve turn's opening) of chat s.
DrainSettled(s) ==
    /\ ring[s] # <<>>
    /\ ring' = [ring EXCEPT ![s] = <<>>]
    /\ heard' = [c \in Call |-> IF SessionOf[c] = s THEN heard[c] + InRing(c)
                                                    ELSE heard[c]]
    /\ UNCHANGED <<phase, work, outcome, ctxDead, job, running, sinkVars, killVars>>

-----------------------------------------------------------------------------
(* manager.Kill, as the body of the job_kill call k *)

KillReturns(k, answer) ==
    /\ work' = [work EXCEPT ![k] = "sent"]
    /\ outcome' = [outcome EXCEPT ![k] = IF answer = "no job" THEN "err" ELSE "ok"]
    /\ said' = [said EXCEPT ![k] = answer]

\* The look under the lock: the cancel function and whether the job works.
KillLooks(k) ==
    /\ k \in KillCall
    /\ work[k] = "running"
    /\ \/ /\ target[k] = NoCall
          /\ KillReturns(k, "no job")
       \/ /\ target[k] # NoCall
          /\ job[target[k]] # "working"
          /\ KillReturns(k, "terminal")
       \/ /\ target[k] # NoCall
          /\ job[target[k]] = "working"
          /\ work' = [work EXCEPT ![k] = "looked"]
          /\ UNCHANGED <<outcome, said>>
    /\ UNCHANGED <<phase, ctxDead, regVars, sinkVars, heard, target>>

\* Mutant: the settle goes first and nobody cancels the lane's context.
KillForgetsCancel(k) ==
    /\ work[k] = "looked"
    /\ work' = [work EXCEPT ![k] = "cancelling"]
    /\ UNCHANGED <<phase, outcome, ctxDead, regVars, sinkVars, heard, killVars>>

KillCancels(k) ==
    /\ work[k] = "looked"
    /\ work' = [work EXCEPT ![k] = "cancelling"]
    /\ ctxDead' = ctxDead \cup {target[k]}
    /\ UNCHANGED <<phase, outcome, regVars, sinkVars, heard, killVars>>

KillSettles(k) ==
    /\ work[k] = "cancelling"
    /\ work' = [work EXCEPT ![k] = "settled"]
    /\ Settle(target[k], "cancelled", k)
    /\ UNCHANGED <<phase, outcome, ctxDead, rows, heard, killVars>>

\* Kill's second answer is (true, true) whoever won the settle.
KillAnswers(k) ==
    /\ work[k] = "settled"
    /\ sinkOwner[target[k]] # k
    /\ KillReturns(k, "STOPPED")
    /\ UNCHANGED <<phase, ctxDead, regVars, sinkVars, heard, target>>

-----------------------------------------------------------------------------
CallerStep(c) == TakeDone(c) \/ GraceExpires(c) \/ DrainDone(c) \/ DrainEmpty(c) \/ Begin(c)
SettlerStep(c) == SettlerTakes(c) \/ SettlerSettles(c)
KillStep(k) == KillLooks(k) \/ KillCancels(k) \/ KillSettles(k) \/ KillAnswers(k)

Next ==
    \/ \E c \in Call : \/ Refuse(c)
                       \/ Dispatch(c)
                       \/ CallerStep(c)
                       \/ \E o \in {"ok", "err"} : Finish(c, o)
                       \/ SettlerStep(c)
                       \/ FireSink(c)
                       \/ KillStep(c)
    \/ \E s \in Session : DrainSettled(s)

\* The engine schedules its own goroutines; the timer fires.  A tool may run
\* for ever, a caller may never call, a chat may never have another round.
Fairness ==
    \A c \in Call : /\ WF_vars(CallerStep(c))
                    /\ WF_vars(SettlerStep(c))
                    /\ WF_vars(FireSink(c))
                    /\ WF_vars(KillStep(c))

Spec == Init /\ [][Next]_vars /\ Fairness

-----------------------------------------------------------------------------
(* Properties *)

\* manager.running is the number of working lanes of the chat: no settle,
\* kill or double settle makes the guard's counter drift from the registry.
RunningCountsWorking ==
    \A s \in Session :
        running[s] = Cardinality({c \in CallsOf(s) : job[c] = "working"})

\* Every call's outcome reaches the model through one channel, once: the
\* plain result, or one copy in the ring or one delivery of it
\* (jobmgr.go "Each settle delivers exactly once", the once-delivery law).
ExactlyOneVoice ==
    \A c \in Call :
        (IF phase[c] = "plain" THEN 1 ELSE 0) + InRing(c) + heard[c]
            = IF phase[c] = "plain" \/ job[c] \in Terminal THEN 1 ELSE 0

\* The chat sees one row per settled job: written, or owed by the one
\* goroutine that won the settle (jobmgr.go "exactly once per job").
ExactlyOneRow ==
    \A c \in Call :
        rows[c] + (IF sinkOwner[c] # NoCall THEN 1 ELSE 0)
            = IF job[c] \in Terminal THEN 1 ELSE 0

\* A lane's context lives exactly as long as somebody needs it: it is dead
\* before anyone can read the lane as cancelled (jobmgr.go "The lane's
\* context dies FIRST"), and it is killed only by a kill of this very lane or
\* once its outcome was received.
ContextFollowsLane ==
    \A c \in Call :
        /\ job[c] = "cancelled" => c \in ctxDead
        /\ c \in ctxDead =>
              \/ work[c] \in {"taken", "reported"}
              \/ \E k \in KillCall :
                    target[k] = c /\ work[k] \notin {"none", "running", "looked"}

\* The guard is read at dispatch and the lane registered a grace window
\* later: what holds is the guard plus the calls that were let in meanwhile.
CapacityWithinCallers ==
    \A s \in Session : running[s] <= MaxPerSession + MaxInFlight - 1

\* Inside manager.Kill the killer holds on to a job it saw registered.
KillAims ==
    \A k \in Call : work[k] \in {"looked", "cancelling", "settled"} =>
        /\ k \in KillCall
        /\ target[k] # NoCall
        /\ job[target[k]] # "none"

\* A lane is registered exactly for a call that got a ticket (toolrunner.go
\* "lanes are born ONLY at the grace window's ticket").
NoPhantomLane == \A c \in Call : job[c] # "none" <=> phase[c] = "ticketed"

\* A call is let in while the chat has a free lane, so lanes and calls that
\* may still become lanes stay within the guard plus the other callers.
CapacityInv ==
    \A s \in Session :
        running[s] + Cardinality(InFlight(s)) <= MaxPerSession + MaxInFlight - 1

\* The facts about the steps in progress on which the properties above rest.
LaneInv == KillAims /\ NoPhantomLane /\ CapacityInv

\* The never-transition law: a terminal job stays what it is.
NeverTransition ==
    [][\A c \in Call : job[c] \in Terminal => job'[c] = job[c]]_vars

\* A ticketed lane whose work is over, or that somebody stops, ends as a
\* row of the chat.
LaneEndsAsRow ==
    \A c \in Call :
        (phase[c] = "ticketed"
          /\ (work[c] = "sent" \/ \E k \in KillCall : work[k] = "looked" /\ target[k] = c))
        ~> rows[c] = 1

-----------------------------------------------------------------------------
(* What the comments promise and this model refutes: add one to a cfg.     *)

\* bus.go:76: the job_* trio passes straight through the wrap.
KillNeverRefused == \A k \in KillCall : phase[k] # "refused"

\* jobwrap.go:143: a lane answered as STOPPED is not heard of again, that
\* is, the kill's own cancelled row is the only thing told about it.
StoppedIsCancelled ==
    \A k \in KillCall : said[k] = "STOPPED" => job[target[k]] = "cancelled"

-----------------------------------------------------------------------------
(* Refinement *)

\* The ledger entry a call stands for.
EntryOf(c) ==
    CASE phase[c] \in {"new", "refused"} -> phase[c]
      [] phase[c] = "plain" -> "answered"
      [] phase[c] \in {"waiting", "expired", "arming"} -> "open"
      [] OTHER -> IF job[c] = "working" THEN "ticket"
                  ELSE IF heard[c] = 0 THEN "settled" ELSE "heard"

entries == [c \in Call |-> EntryOf(c)]

Ledger == INSTANCE CallLedger WITH ledger <- entries

\* The lanes implement the ledger, its promise included that a call answers
\* its caller whatever the tool does (which takes GraceEnabled).
ImplementsLedger == Ledger!LedgerSpec
=============================================================================
