-------------------------- MODULE JobLanes_proofs --------------------------
(***************************************************************************)
(* Machine-checked proofs about the background-job layer, for any number   *)
(* of calls, chats, lanes and callers.                                     *)
(***************************************************************************)
EXTENDS JobLanes, FiniteSetTheorems, TLAPS

-----------------------------------------------------------------------------
(* Type correctness *)

\* Settle keeps the registry's types, whoever calls it.
LEMMA SettleType ==
    ASSUME TypeOK, NEW c \in Call, NEW st \in Terminal, NEW owner \in Call,
           Settle(c, st, owner)
    PROVE  /\ job' \in [Call -> JobState]
           /\ running' \in [Session -> Nat]
           /\ ring' \in [Session -> Seq([call : Call, state : Terminal])]
           /\ sinkOwner' \in [Call -> Call \cup {NoCall}]
<1> DEFINE s == SessionOf[c]
<1>0. s \in Session
  BY CallsAssumption
<1>1. CASE job[c] = "working"
  <2>1. job' \in [Call -> JobState]
    BY <1>1 DEF Settle, SettleIn, TypeOK, JobState
  <2>2. running' \in [Session -> Nat]
    <3> DEFINE n == IF running[s] > 0 THEN running[s] - 1 ELSE running[s]
    <3>1. running[s] \in Nat
      BY <1>0 DEF TypeOK
    <3>2. n \in Nat
      BY <3>1
    <3>3. running' = [running EXCEPT ![s] = n]
      BY <1>1 DEF Settle, SettleIn
    <3> HIDE DEF n
    <3> QED
      BY <3>2, <3>3 DEF TypeOK
  <2>3. ring' \in [Session -> Seq([call : Call, state : Terminal])]
    <3> DEFINE e == [call |-> c, state |-> st]
    <3>1. ring' = [ring EXCEPT ![s] = Append(@, e)]
      BY <1>1 DEF Settle, SettleIn
    <3>2. e \in [call : Call, state : Terminal]
      OBVIOUS
    <3>3. ring[s] \in Seq([call : Call, state : Terminal])
      BY <1>0 DEF TypeOK
    <3>4. Append(ring[s], e) \in Seq([call : Call, state : Terminal])
      BY <3>2, <3>3
    <3> QED
      BY <1>0, <3>1, <3>4 DEF TypeOK
  <2>4. sinkOwner' \in [Call -> Call \cup {NoCall}]
    BY <1>1 DEF Settle, SettleIn, TypeOK
  <2> QED
    BY <2>1, <2>2, <2>3, <2>4
<1>2. CASE job[c] # "working"
  BY <1>2 DEF Settle, SettleIn, regVars, TypeOK
<1> QED
  BY <1>1, <1>2

\* How often a job stands in a ring is a number.
LEMMA InRingType ==
    ASSUME TypeOK, NEW c \in Call
    PROVE  InRing(c) \in Nat
<1> DEFINE r == ring[SessionOf[c]]
           I == {i \in DOMAIN r : r[i].call = c}
<1>1. r \in Seq([call : Call, state : Terminal])
  BY CallsAssumption DEF TypeOK
<1>2. DOMAIN r = 1 .. Len(r) /\ Len(r) \in Nat
  BY <1>1
<1>3. IsFiniteSet(DOMAIN r)
  BY <1>2, FS_Interval
<1>4. IsFiniteSet(I)
  BY <1>3, FS_Subset
<1> QED
  BY <1>4, FS_CardinalityType DEF InRing

\* The types, with what a kill in progress knows of its target.
TypeInv == TypeOK /\ KillAims

\* ... and that exactly the ticketed calls are registered.
RegInv == TypeInv /\ NoPhantomLane

\* A step never unregisters a job.
LEMMA JobsStay ==
    ASSUME TypeOK, Next, NEW d \in Call, job[d] # "none"
    PROVE  job'[d] # "none"
<1> USE CallsAssumption
<1>1. ASSUME NEW c, NEW st \in Terminal, NEW owner, Settle(c, st, owner)
      PROVE  job'[d] # "none"
  BY <1>1 DEF Settle, SettleIn, regVars, TypeOK, Terminal
<1>2. ASSUME NEW c \in Call, SettlerSettles(c) PROVE job'[d] # "none"
  <2> DEFINE st == IF outcome[c] = "ok" THEN "completed" ELSE "failed"
  <2>1. st \in Terminal /\ Settle(c, st, c)
    BY <1>2 DEF SettlerSettles, Terminal
  <2> QED
    BY <2>1, <1>1
<1>3. ASSUME NEW k \in Call, KillSettles(k) PROVE job'[d] # "none"
  <2>1. "cancelled" \in Terminal /\ Settle(target[k], "cancelled", k)
    BY <1>3 DEF KillSettles, Terminal
  <2> QED
    BY <2>1, <1>1
<1>4. ASSUME NEW c \in Call, Begin(c) PROVE job'[d] # "none"
  BY <1>4 DEF Begin, TypeOK
<1> QED
  BY <1>2, <1>3, <1>4
  DEF Next, CallerStep, SettlerStep, KillStep, TakeDone, DrainDone, Refuse,
      Dispatch, AnswerPlainly, GraceExpires, DrainEmpty, Finish, SettlerTakes,
      FireSink, KillLooks, KillCancels, KillAnswers, DrainSettled, regVars

\* Every step keeps the types.
LEMMA TypeOKStep == TypeInv /\ [Next]_vars => TypeOK'
<1> SUFFICES ASSUME TypeInv, [Next]_vars PROVE TypeOK'
  OBVIOUS
<1> USE CallsAssumption DEF TypeInv
<1>1. ASSUME NEW c \in Call, Refuse(c) PROVE TypeOK'
  BY <1>1 DEF Refuse, TypeOK, regVars, sinkVars, killVars, Phase, Answered
<1>2. ASSUME NEW c \in Call, Dispatch(c) PROVE TypeOK'
  <2>1. PICK id \in Call \cup {NoCall} : target' = [target EXCEPT ![c] = id]
    BY <1>2 DEF Dispatch, KnownIds
  <2> QED
    BY <1>2, <2>1 DEF Dispatch, TypeOK, regVars, sinkVars, Phase, Work
<1>3. ASSUME NEW c \in Call, AnswerPlainly(c) PROVE TypeOK'
  BY <1>3 DEF AnswerPlainly, TypeOK, regVars, sinkVars, killVars, Phase, Work, Answered
<1>4. ASSUME NEW c \in Call, GraceExpires(c) PROVE TypeOK'
  BY <1>4 DEF GraceExpires, TypeOK, regVars, sinkVars, killVars, Phase
<1>5. ASSUME NEW c \in Call, DrainEmpty(c) PROVE TypeOK'
  BY <1>5 DEF DrainEmpty, TypeOK, regVars, sinkVars, killVars, Phase
<1>6. ASSUME NEW c \in Call, Begin(c) PROVE TypeOK'
  <2>1. running' \in [Session -> Nat]
    <3>1. running[SessionOf[c]] \in Nat
      BY DEF TypeOK
    <3>2. running[SessionOf[c]] + 1 \in Nat
      BY <3>1
    <3> QED
      BY <1>6, <3>2 DEF Begin, TypeOK
  <2> QED
    BY <1>6, <2>1 DEF Begin, TypeOK, sinkVars, killVars, Phase, Answered, JobState
<1>7. ASSUME NEW c \in Call, NEW o \in {"ok", "err"}, Finish(c, o) PROVE TypeOK'
  BY <1>7 DEF Finish, TypeOK, regVars, sinkVars, killVars, Work
<1>8. ASSUME NEW c \in Call, SettlerTakes(c) PROVE TypeOK'
  BY <1>8 DEF SettlerTakes, TypeOK, regVars, sinkVars, killVars, Work
<1>9. ASSUME NEW c \in Call, SettlerSettles(c) PROVE TypeOK'
  <2> DEFINE st == IF outcome[c] = "ok" THEN "completed" ELSE "failed"
  <2>1. st \in Terminal /\ Settle(c, st, c)
    BY <1>9 DEF SettlerSettles, Terminal
  <2> QED
    BY <1>9, <2>1, SettleType DEF SettlerSettles, TypeOK, killVars, Work
<1>10. ASSUME NEW c \in Call, FireSink(c) PROVE TypeOK'
  <2>1. rows' \in [Call -> Nat]
    <3>1. rows[c] \in Nat
      BY DEF TypeOK
    <3>2. rows[c] + 1 \in Nat
      BY <3>1
    <3> QED
      BY <1>10, <3>2 DEF FireSink, TypeOK
  <2> QED
    BY <1>10, <2>1 DEF FireSink, TypeOK, regVars, killVars
<1>11. ASSUME NEW k \in Call, KillLooks(k) PROVE TypeOK'
  BY <1>11 DEF KillLooks, KillReturns, TypeOK, regVars, sinkVars, Work
<1>12. ASSUME NEW k \in Call, KillCancels(k) PROVE TypeOK'
  BY <1>12 DEF KillCancels, KillAims, TypeOK, regVars, sinkVars, killVars, Work
<1>13. ASSUME NEW k \in Call, KillSettles(k) PROVE TypeOK'
  <2>1. "cancelled" \in Terminal /\ Settle(target[k], "cancelled", k)
    BY <1>13 DEF KillSettles, Terminal
  <2>2. target[k] \in Call
    BY <1>13 DEF KillSettles, KillAims, TypeOK
  <2> QED
    BY <1>13, <2>1, <2>2, SettleType DEF KillSettles, TypeOK, killVars, Work
<1>14. ASSUME NEW k \in Call, KillAnswers(k) PROVE TypeOK'
  BY <1>14 DEF KillAnswers, KillReturns, TypeOK, regVars, sinkVars, Work
<1>15. ASSUME NEW s \in Session, DrainSettled(s) PROVE TypeOK'
  <2>1. heard' \in [Call -> Nat]
    <3>1. \A c \in Call : InRing(c) \in Nat /\ heard[c] \in Nat
      BY InRingType DEF TypeOK
    <3>2. \A c \in Call : heard[c] + InRing(c) \in Nat
      BY <3>1
    <3> QED
      BY <1>15, <3>1, <3>2 DEF DrainSettled
  <2>2. ring' \in [Session -> Seq([call : Call, state : Terminal])]
    <3>1. <<>> \in Seq([call : Call, state : Terminal])
      OBVIOUS
    <3> QED
      BY <1>15, <3>1 DEF DrainSettled, TypeOK
  <2> QED
    BY <1>15, <2>1, <2>2 DEF DrainSettled, TypeOK, sinkVars, killVars
<1>16. CASE UNCHANGED vars
  BY <1>16 DEF vars, regVars, sinkVars, killVars, TypeOK
<1>17. ASSUME NEW c \in Call, CallerStep(c) PROVE TypeOK'
  BY <1>17, <1>3, <1>4, <1>5, <1>6 DEF CallerStep, TakeDone, DrainDone
<1>18. ASSUME NEW c \in Call, SettlerStep(c) \/ KillStep(c) PROVE TypeOK'
  BY <1>18, <1>8, <1>9, <1>11, <1>12, <1>13, <1>14 DEF SettlerStep, KillStep
<1> QED
  BY <1>1, <1>2, <1>7, <1>10, <1>15, <1>16, <1>17, <1>18 DEF Next

\* Every step keeps a killer's hold on a registered job.
LEMMA KillAimsStep == TypeInv /\ [Next]_vars => KillAims'
<1> SUFFICES ASSUME TypeInv, [Next]_vars,
                    NEW k \in Call,
                    work'[k] \in {"looked", "cancelling", "settled"}
             PROVE  /\ k \in KillCall
                    /\ target'[k] # NoCall
                    /\ job'[target'[k]] # "none"
  BY DEF KillAims
<1> USE CallsAssumption DEF TypeInv
<1>1. CASE UNCHANGED vars
  BY <1>1 DEF vars, regVars, killVars, KillAims
<1>2. CASE Next
  <2>1. /\ k \in KillCall
        /\ target[k] \in Call
        /\ job[target[k]] # "none"
        /\ target'[k] = target[k]
    <3>1. CASE KillLooks(k)
      BY <3>1 DEF KillLooks, KillReturns, TypeOK
    <3>2. CASE ~KillLooks(k)
      <4>1. /\ work[k] \in {"looked", "cancelling", "settled"}
            /\ target'[k] = target[k]
        <5>1. ASSUME NEW c \in Call, Refuse(c) \/ GraceExpires(c) \/ DrainEmpty(c)
                                     \/ Begin(c) \/ FireSink(c)
              PROVE  work' = work /\ target' = target
          BY <5>1 DEF Refuse, GraceExpires, DrainEmpty, Begin, FireSink, killVars
        <5>2. ASSUME NEW c \in Call, Dispatch(c)
              PROVE  k # c /\ work'[k] = work[k] /\ target'[k] = target[k]
          BY <5>2 DEF Dispatch, TypeOK
        <5>3. ASSUME NEW c \in Call, AnswerPlainly(c) \/ SettlerTakes(c) \/ SettlerSettles(c)
              PROVE  k # c /\ work'[k] = work[k] /\ target' = target
          BY <5>3 DEF AnswerPlainly, SettlerTakes, SettlerSettles, killVars, TypeOK
        <5>4. ASSUME NEW c \in Call, NEW o \in {"ok", "err"}, Finish(c, o)
              PROVE  k # c /\ work'[k] = work[k] /\ target' = target
          BY <5>4 DEF Finish, killVars, TypeOK
        <5>5. ASSUME NEW c \in Call, KillCancels(c) \/ KillSettles(c) \/ KillAnswers(c)
              PROVE  work[k] \in {"looked", "cancelling", "settled"} /\ target' = target
          BY <5>5 DEF KillCancels, KillSettles, KillAnswers, KillReturns, killVars, TypeOK
        <5>6. ASSUME NEW c \in Call, KillLooks(c)
              PROVE  work'[k] = work[k] /\ target' = target
          BY <3>2, <5>6 DEF KillLooks, KillReturns, TypeOK
        <5>7. ASSUME NEW s \in Session, DrainSettled(s)
              PROVE  work' = work /\ target' = target
          BY <5>7 DEF DrainSettled, killVars
        <5> QED
          BY <1>2, <5>1, <5>2, <5>3, <5>4, <5>5, <5>6, <5>7
          DEF Next, CallerStep, SettlerStep, KillStep, TakeDone, DrainDone
      <4> QED
        BY <4>1 DEF KillAims, TypeOK
    <3> QED
      BY <3>1, <3>2
  <2> QED
    BY <1>2, <2>1, JobsStay
<1> QED
  BY <1>1, <1>2

\* Lanes are born at the ticket and nowhere else.
LEMMA PhantomStep == TypeInv /\ NoPhantomLane /\ [Next]_vars => NoPhantomLane'
<1> SUFFICES ASSUME TypeInv, NoPhantomLane, [Next]_vars, NEW d \in Call
             PROVE  job'[d] # "none" <=> phase'[d] = "ticketed"
  BY DEF NoPhantomLane
<1> USE CallsAssumption DEF TypeInv
<1>0. job[d] # "none" <=> phase[d] = "ticketed"
  BY DEF NoPhantomLane
<1>1. ASSUME NEW c \in Call, Begin(c) PROVE job'[d] # "none" <=> phase'[d] = "ticketed"
  BY <1>0, <1>1 DEF Begin, TypeOK
<1>2. ASSUME NEW c \in Call, NEW st \in Terminal, NEW owner, Settle(c, st, owner),
             phase' = phase
      PROVE  job'[d] # "none" <=> phase'[d] = "ticketed"
  BY <1>0, <1>2 DEF Settle, SettleIn, TypeOK, regVars, Terminal
<1>3. ASSUME NEW c \in Call, SettlerSettles(c)
      PROVE  job'[d] # "none" <=> phase'[d] = "ticketed"
  <2> DEFINE st == IF outcome[c] = "ok" THEN "completed" ELSE "failed"
  <2>1. st \in Terminal /\ Settle(c, st, c) /\ phase' = phase
    BY <1>3 DEF SettlerSettles, Terminal
  <2> QED
    BY <2>1, <1>2
<1>4. ASSUME NEW k \in Call, KillSettles(k)
      PROVE  job'[d] # "none" <=> phase'[d] = "ticketed"
  <2>1. "cancelled" \in Terminal /\ Settle(target[k], "cancelled", k) /\ phase' = phase
    BY <1>4 DEF KillSettles, Terminal
  <2>2. target[k] \in Call
    BY <1>4 DEF KillSettles, KillAims, TypeOK
  <2> QED
    BY <2>1, <2>2, <1>2
<1>5. ASSUME NEW c \in Call,
             Refuse(c) \/ Dispatch(c) \/ TakeDone(c) \/ GraceExpires(c)
               \/ DrainDone(c) \/ DrainEmpty(c)
      PROVE  job'[d] # "none" <=> phase'[d] = "ticketed"
  BY <1>0, <1>5
  DEF Refuse, Arrives, Dispatch, TakeDone, GraceExpires, DrainDone, DrainEmpty,
      AnswerPlainly, TypeOK, regVars
<1>6. ASSUME job' = job, phase' = phase
      PROVE  job'[d] # "none" <=> phase'[d] = "ticketed"
  BY <1>0, <1>6
<1>7. CASE UNCHANGED vars
  BY <1>6, <1>7 DEF vars, regVars
<1>8. ASSUME NEW c \in Call, NEW o, Finish(c, o) \/ FireSink(c) \/ SettlerTakes(c)
               \/ KillLooks(c) \/ KillCancels(c) \/ KillAnswers(c)
      PROVE  job' = job /\ phase' = phase
  BY <1>8 DEF Finish, FireSink, SettlerTakes, KillLooks, KillCancels, KillAnswers, regVars
<1>9. ASSUME NEW s \in Session, DrainSettled(s) PROVE job' = job /\ phase' = phase
  BY <1>9 DEF DrainSettled
<1> QED
  BY <1>1, <1>3, <1>4, <1>5, <1>6, <1>7, <1>8, <1>9
  DEF Next, CallerStep, SettlerStep, KillStep

\* The registry's invariant is inductive.
LEMMA RegInvStep == RegInv /\ [Next]_vars => RegInv'
  BY TypeOKStep, KillAimsStep, PhantomStep DEF RegInv, TypeInv

\* The registry's invariant holds of every behaviour.
LEMMA RegInvAlways == Spec => []RegInv
<1>1. Init => RegInv
  BY CallsAssumption
  DEF Init, RegInv, TypeInv, TypeOK, KillAims, NoPhantomLane, Phase, Work,
      JobState, Answered
<1> QED
  BY <1>1, RegInvStep, PTL DEF Spec

\* Every variable keeps the type its Go declaration gives it.
THEOREM TypeCorrect == Spec => []TypeOK
<1>1. RegInv => TypeOK
  BY DEF RegInv, TypeInv
<1> QED
  BY <1>1, RegInvAlways, PTL

-----------------------------------------------------------------------------
(* What a step can do to the registry *)

Quiet == UNCHANGED <<regVars, sinkVars, heard>>

\* A settle that finds its job working.
Wins(c, st, owner) ==
    /\ job[c] = "working"
    /\ Settle(c, st, owner)
    /\ UNCHANGED <<phase, rows, heard>>

\* Every step leaves the registry alone or is one of its four operations.
LEMMA StepKinds ==
    ASSUME TypeInv, [Next]_vars
    PROVE  \/ Quiet
           \/ \E c \in Call : Begin(c)
           \/ \E c \in Call, st \in Terminal, owner \in Call : Wins(c, st, owner)
           \/ \E c \in Call : FireSink(c)
           \/ \E s \in Session : DrainSettled(s)
<1> USE CallsAssumption DEF TypeInv
<1>1. ASSUME NEW c \in Call, NEW st \in Terminal, NEW owner \in Call,
             Settle(c, st, owner), UNCHANGED <<phase, rows, heard>>
      PROVE  Quiet \/ Wins(c, st, owner)
  BY <1>1 DEF Settle, SettleIn, Wins, Quiet, sinkVars
<1>2. ASSUME NEW c \in Call, SettlerSettles(c)
      PROVE  Quiet \/ \E st \in Terminal : Wins(c, st, c)
  <2> DEFINE st == IF outcome[c] = "ok" THEN "completed" ELSE "failed"
  <2>1. st \in Terminal /\ Settle(c, st, c) /\ UNCHANGED <<phase, rows, heard>>
    BY <1>2 DEF SettlerSettles, Terminal
  <2> QED
    BY <2>1, <1>1
<1>3. ASSUME NEW k \in Call, KillSettles(k)
      PROVE  Quiet \/ \E c \in Call, st \in Terminal : Wins(c, st, k)
  <2>1. /\ "cancelled" \in Terminal
        /\ target[k] \in Call
        /\ Settle(target[k], "cancelled", k)
        /\ UNCHANGED <<phase, rows, heard>>
    BY <1>3 DEF KillSettles, Terminal, KillAims, TypeOK
  <2> QED
    BY <2>1, <1>1
<1>4. ASSUME NEW c \in Call,
             \/ Refuse(c) \/ Dispatch(c) \/ AnswerPlainly(c) \/ GraceExpires(c)
             \/ DrainEmpty(c) \/ SettlerTakes(c) \/ KillLooks(c) \/ KillCancels(c)
             \/ KillAnswers(c) \/ \E o \in {"ok", "err"} : Finish(c, o)
      PROVE  Quiet
  BY <1>4
  DEF Quiet, Refuse, Dispatch, AnswerPlainly, GraceExpires, DrainEmpty,
      SettlerTakes, KillLooks, KillCancels, KillAnswers, Finish
<1>5. CASE UNCHANGED vars
  BY <1>5 DEF vars, Quiet
<1> QED
  BY <1>2, <1>3, <1>4, <1>5
  DEF Next, CallerStep, SettlerStep, KillStep, TakeDone, DrainDone

\* The never-transition law, for every number of lanes, kills and settlers.
THEOREM NeverTransitionHolds == Spec => NeverTransition
<1>1. RegInv /\ [Next]_vars => [\A c \in Call : job[c] \in Terminal => job'[c] = job[c]]_vars
  <2> SUFFICES ASSUME RegInv, [Next]_vars, NEW d \in Call, job[d] \in Terminal
               PROVE  job'[d] = job[d]
    OBVIOUS
  <2> USE DEF RegInv, TypeInv
  <2>1. CASE Quiet
    BY <2>1 DEF Quiet, regVars
  <2>2. ASSUME NEW c \in Call, Begin(c) PROVE job'[d] = job[d]
    BY <2>2 DEF Begin, NoPhantomLane, TypeOK, Terminal
  <2>3. ASSUME NEW c \in Call, NEW st \in Terminal, NEW owner \in Call, Wins(c, st, owner)
        PROVE  job'[d] = job[d]
    BY <2>3 DEF Wins, Settle, SettleIn, TypeOK, Terminal
  <2>4. ASSUME NEW c \in Call, FireSink(c) PROVE job'[d] = job[d]
    BY <2>4 DEF FireSink, regVars
  <2>5. ASSUME NEW s \in Session, DrainSettled(s) PROVE job'[d] = job[d]
    BY <2>5 DEF DrainSettled
  <2> QED
    BY <2>1, <2>2, <2>3, <2>4, <2>5, StepKinds
<1> QED
  BY <1>1, RegInvAlways, PTL DEF Spec, NeverTransition

-----------------------------------------------------------------------------
(* Exactly one row *)

\* Rows written and rows owed keep counting the settled jobs.
LEMMA RowStep == RegInv /\ ExactlyOneRow /\ [Next]_vars => ExactlyOneRow'
<1> DEFINE Row(c) == rows[c] + (IF sinkOwner[c] # NoCall THEN 1 ELSE 0)
                       = IF job[c] \in Terminal THEN 1 ELSE 0
<1> SUFFICES ASSUME RegInv, ExactlyOneRow, [Next]_vars, NEW d \in Call
             PROVE  Row(d)'
  BY DEF ExactlyOneRow
<1> USE CallsAssumption DEF RegInv, TypeInv
<1>0. Row(d) /\ rows[d] \in Nat
  BY DEF ExactlyOneRow, TypeOK
<1>1. CASE Quiet
  BY <1>0, <1>1 DEF Quiet, regVars, sinkVars
<1>2. ASSUME NEW c \in Call, Begin(c) PROVE Row(d)'
  BY <1>0, <1>2 DEF Begin, NoPhantomLane, TypeOK, Terminal, sinkVars
<1>3. ASSUME NEW c \in Call, NEW st \in Terminal, NEW owner \in Call, Wins(c, st, owner)
      PROVE  Row(d)'
  <2>1. CASE d = c
    <3>1. rows[d] = 0
      BY <1>0, <1>3, <2>1 DEF Wins, Terminal
    <3>2. job'[d] = st /\ sinkOwner'[d] = owner /\ rows' = rows
      BY <1>3, <2>1 DEF Wins, Settle, SettleIn, TypeOK
    <3> QED
      BY <3>1, <3>2
  <2>2. CASE d # c
    <3>1. job'[d] = job[d] /\ sinkOwner'[d] = sinkOwner[d] /\ rows' = rows
      BY <1>3, <2>2 DEF Wins, Settle, SettleIn, TypeOK
    <3> QED
      BY <1>0, <3>1
  <2> QED
    BY <2>1, <2>2
<1>4. ASSUME NEW c \in Call, FireSink(c) PROVE Row(d)'
  <2>1. CASE d = c
    <3>1. /\ job'[d] = job[d]
          /\ sinkOwner[d] # NoCall
          /\ sinkOwner'[d] = NoCall
          /\ rows'[d] = rows[d] + 1
      BY <1>4, <2>1 DEF FireSink, regVars, TypeOK
    <3> QED
      BY <1>0, <3>1
  <2>2. CASE d # c
    <3>1. job'[d] = job[d] /\ sinkOwner'[d] = sinkOwner[d] /\ rows'[d] = rows[d]
      BY <1>4, <2>2 DEF FireSink, regVars, TypeOK
    <3> QED
      BY <1>0, <3>1
  <2> QED
    BY <2>1, <2>2
<1>5. ASSUME NEW s \in Session, DrainSettled(s) PROVE Row(d)'
  BY <1>0, <1>5 DEF DrainSettled, sinkVars
<1> QED
  BY <1>1, <1>2, <1>3, <1>4, <1>5, StepKinds

\* One chat row per settled job, for every interleaving of settlers and kills.
THEOREM OneRow == Spec => []ExactlyOneRow
<1>1. Init => ExactlyOneRow
  BY DEF Init, ExactlyOneRow, Terminal
<1> QED
  BY <1>1, RowStep, RegInvAlways, PTL DEF Spec

-----------------------------------------------------------------------------
(* The guard's counter *)

WorkingIn(s) == {c \in CallsOf(s) : job[c] = "working"}

\* The working lanes of a chat can be counted.
LEMMA WorkingFinite ==
    \A s \in Session : IsFiniteSet(WorkingIn(s)) /\ Cardinality(WorkingIn(s)) \in Nat
<1> SUFFICES ASSUME NEW s \in Session
             PROVE  IsFiniteSet(WorkingIn(s)) /\ Cardinality(WorkingIn(s)) \in Nat
  OBVIOUS
<1>1. WorkingIn(s) \subseteq Call /\ IsFiniteSet(Call)
  BY CallsAssumption DEF WorkingIn, CallsOf
<1> QED
  BY <1>1, FS_Subset, FS_CardinalityType

\* Every step keeps the counter equal to the working lanes.
LEMMA RunningStep ==
    RegInv /\ RunningCountsWorking /\ [Next]_vars => RunningCountsWorking'
<1> SUFFICES ASSUME RegInv, RunningCountsWorking, [Next]_vars, NEW s \in Session
             PROVE  running'[s] = Cardinality(WorkingIn(s))'
  BY DEF RunningCountsWorking, WorkingIn, CallsOf
<1> USE CallsAssumption DEF RegInv, TypeInv
<1>0. running[s] = Cardinality(WorkingIn(s)) /\ IsFiniteSet(WorkingIn(s))
  BY WorkingFinite DEF RunningCountsWorking, WorkingIn
<1>1. ASSUME job' = job, running' = running
      PROVE  running'[s] = Cardinality(WorkingIn(s))'
  BY <1>0, <1>1 DEF WorkingIn, CallsOf
<1>2. ASSUME NEW c \in Call, Begin(c) PROVE running'[s] = Cardinality(WorkingIn(s))'
  <2>1. job[c] = "none" /\ job' = [job EXCEPT ![c] = "working"]
    BY <1>2 DEF Begin, NoPhantomLane
  <2>2. CASE SessionOf[c] = s
    <3>0. \A d \in Call : job'[d] = IF d = c THEN "working" ELSE job[d]
      BY <2>1 DEF TypeOK
    <3>1. WorkingIn(s)' = WorkingIn(s) \cup {c} /\ c \notin WorkingIn(s)
      BY <2>1, <2>2, <3>0 DEF WorkingIn, CallsOf
    <3>2. running'[s] = running[s] + 1
      BY <1>2, <2>2 DEF Begin, TypeOK
    <3>3. Cardinality(WorkingIn(s) \cup {c}) = Cardinality(WorkingIn(s)) + 1
      BY <1>0, <3>1, FS_AddElement
    <3> QED
      BY <1>0, <3>1, <3>2, <3>3
  <2>3. CASE SessionOf[c] # s
    <3>1. WorkingIn(s)' = WorkingIn(s)
      BY <2>1, <2>3 DEF WorkingIn, CallsOf, TypeOK
    <3>2. running'[s] = running[s]
      BY <1>2, <2>3 DEF Begin, TypeOK
    <3> QED
      BY <1>0, <3>1, <3>2
  <2> QED
    BY <2>2, <2>3
<1>3. ASSUME NEW c \in Call, NEW st \in Terminal, NEW owner \in Call, Wins(c, st, owner)
      PROVE  running'[s] = Cardinality(WorkingIn(s))'
  <2>1. job[c] = "working" /\ job' = [job EXCEPT ![c] = st] /\ st # "working"
    BY <1>3 DEF Wins, Settle, SettleIn, Terminal
  <2>2. CASE SessionOf[c] = s
    <3>1. WorkingIn(s)' = WorkingIn(s) \ {c} /\ c \in WorkingIn(s)
      BY <2>1, <2>2 DEF WorkingIn, CallsOf, TypeOK
    <3>2. Cardinality(WorkingIn(s) \ {c}) = Cardinality(WorkingIn(s)) - 1
      BY <1>0, <3>1, FS_RemoveElement
    <3>3. running[s] > 0
      BY <1>0, <3>1, WorkingFinite, FS_EmptySet
    <3>4. running'[s] = running[s] - 1
      BY <1>3, <2>1, <2>2, <3>3 DEF Wins, Settle, SettleIn, TypeOK
    <3> QED
      BY <1>0, <3>1, <3>2, <3>4
  <2>3. CASE SessionOf[c] # s
    <3>1. WorkingIn(s)' = WorkingIn(s)
      BY <2>1, <2>3 DEF WorkingIn, CallsOf, TypeOK
    <3>2. running'[s] = running[s]
      BY <1>3, <2>1, <2>3 DEF Wins, Settle, SettleIn, TypeOK
    <3> QED
      BY <1>0, <3>1, <3>2
  <2> QED
    BY <2>2, <2>3
<1>4. Quiet => job' = job /\ running' = running
  BY DEF Quiet, regVars
<1>5. ASSUME NEW c \in Call, FireSink(c) PROVE job' = job /\ running' = running
  BY <1>5 DEF FireSink, regVars
<1>6. ASSUME NEW t \in Session, DrainSettled(t) PROVE job' = job /\ running' = running
  BY <1>6 DEF DrainSettled
<1> QED
  BY <1>1, <1>2, <1>3, <1>4, <1>5, <1>6, StepKinds

\* The capacity counter never drifts from the registry.
THEOREM RunningCounts == Spec => []RunningCountsWorking
<1>1. Init => RunningCountsWorking
  <2> SUFFICES ASSUME Init, NEW s \in Session
               PROVE  running[s] = Cardinality({c \in CallsOf(s) : job[c] = "working"})
    BY DEF RunningCountsWorking
  <2>1. {c \in CallsOf(s) : job[c] = "working"} = {}
    BY DEF Init, CallsOf
  <2> QED
    BY <2>1, FS_EmptySet DEF Init
<1> QED
  BY <1>1, RunningStep, RegInvAlways, PTL DEF Spec

-----------------------------------------------------------------------------
(* The capacity bound *)

\* The calls a chat's callers hold open can be counted.
LEMMA InFlightFinite ==
    \A s \in Session : IsFiniteSet(InFlight(s)) /\ Cardinality(InFlight(s)) \in Nat
<1> SUFFICES ASSUME NEW s \in Session
             PROVE  IsFiniteSet(InFlight(s)) /\ Cardinality(InFlight(s)) \in Nat
  OBVIOUS
<1>1. InFlight(s) \subseteq Call /\ IsFiniteSet(Call)
  BY CallsAssumption DEF InFlight, CallsOf
<1> QED
  BY <1>1, FS_Subset, FS_CardinalityType

\* No settle adds a lane.
LEMMA WinsShrinks ==
    ASSUME TypeOK, NEW c \in Call, NEW st \in Terminal, NEW owner \in Call,
           Wins(c, st, owner), NEW s \in Session
    PROVE  running'[s] <= running[s]
<1> DEFINE t == SessionOf[c]
           n == IF running[t] > 0 THEN running[t] - 1 ELSE running[t]
<1>1. t \in Session /\ running[t] \in Nat /\ running[s] \in Nat
  BY CallsAssumption DEF TypeOK
<1>2. running' = [running EXCEPT ![t] = n]
  BY DEF Wins, Settle, SettleIn
<1>3. n <= running[t]
  BY <1>1
<1>4. running'[s] = IF s = t THEN n ELSE running[s]
  BY <1>1, <1>2 DEF TypeOK
<1> HIDE DEF n, t
<1> QED
  BY <1>1, <1>3, <1>4

\* Every step keeps lanes and open calls within the guard.
LEMMA CapacityStep == RegInv /\ CapacityInv /\ [Next]_vars => CapacityInv'
<1> DEFINE Bound == MaxPerSession + MaxInFlight - 1
           Within(s) == running[s] + Cardinality(InFlight(s)) <= Bound
<1> SUFFICES ASSUME RegInv, CapacityInv, [Next]_vars, NEW s \in Session
             PROVE  Within(s)'
  BY DEF CapacityInv
<1> USE CallsAssumption, LimitsAssumption DEF RegInv, TypeInv
<1>0. /\ Within(s)
      /\ IsFiniteSet(InFlight(s))
      /\ Cardinality(InFlight(s)) \in Nat
      /\ Cardinality(InFlight(s)') \in Nat
      /\ running[s] \in Nat
      /\ running'[s] \in Nat
  <2>1. TypeOK'
    BY TypeOKStep
  <2>2. InFlight(s)' \subseteq Call
    BY DEF InFlight, CallsOf
  <2>3. Cardinality(InFlight(s)') \in Nat
    BY <2>2, FS_Subset, FS_CardinalityType
  <2> QED
    BY <2>1, <2>3, InFlightFinite DEF CapacityInv, TypeOK
<1>1. ASSUME InFlight(s)' \subseteq InFlight(s), running'[s] <= running[s]
      PROVE  Within(s)'
  <2>1. Cardinality(InFlight(s)') <= Cardinality(InFlight(s))
    BY <1>0, <1>1, FS_Subset
  <2> QED
    BY <1>0, <1>1, <2>1
<1>2. ASSUME NEW c \in Call, Begin(c) PROVE Within(s)'
  <2>1. CASE SessionOf[c] = s
    <3>1. InFlight(s)' = InFlight(s) \ {c} /\ c \in InFlight(s)
      BY <1>2, <2>1 DEF Begin, InFlight, CallsOf, TypeOK
    <3>2. Cardinality(InFlight(s)') = Cardinality(InFlight(s)) - 1
      BY <1>0, <3>1, FS_RemoveElement
    <3>3. running'[s] = running[s] + 1
      BY <1>2, <2>1 DEF Begin, TypeOK
    <3> QED
      BY <1>0, <3>2, <3>3
  <2>2. CASE SessionOf[c] # s
    <3>1. InFlight(s)' = InFlight(s)
      BY <1>2, <2>2 DEF Begin, InFlight, CallsOf, TypeOK
    <3>2. running'[s] = running[s]
      BY <1>2, <2>2 DEF Begin, TypeOK
    <3> QED
      BY <1>0, <3>1, <3>2
  <2> QED
    BY <2>1, <2>2
<1>3. ASSUME NEW c \in Call, Dispatch(c) PROVE Within(s)'
  <2>0. running' = running
    BY <1>3 DEF Dispatch, regVars
  <2>1. CASE SessionOf[c] = s
    <3>0. /\ phase[c] = "new"
          /\ \A d \in Call : phase'[d] = IF d = c THEN "waiting" ELSE phase[d]
      BY <1>3 DEF Dispatch, Arrives, TypeOK
    <3>1. InFlight(s)' = InFlight(s) \cup {c} /\ c \notin InFlight(s)
      BY <2>1, <3>0 DEF InFlight, CallsOf
    <3>2. Cardinality(InFlight(s)') = Cardinality(InFlight(s)) + 1
      BY <1>0, <3>1, FS_AddElement
    <3>3. Cardinality(InFlight(s)) < MaxInFlight /\ running[s] < MaxPerSession
      BY <1>0, <1>3, <2>1 DEF Dispatch, Arrives, AtCapacity
    <3> QED
      BY <1>0, <2>0, <3>2, <3>3
  <2>2. CASE SessionOf[c] # s
    <3>1. InFlight(s)' = InFlight(s)
      BY <1>3, <2>2 DEF Dispatch, InFlight, CallsOf, TypeOK
    <3> QED
      BY <1>0, <2>0, <3>1
  <2> QED
    BY <2>1, <2>2
<1>4. ASSUME NEW c \in Call,
             \/ Refuse(c) \/ (AnswerPlainly(c) /\ phase[c] \in {"waiting", "expired"})
             \/ GraceExpires(c) \/ DrainEmpty(c)
      PROVE  InFlight(s)' \subseteq InFlight(s) /\ running' = running
  BY <1>4
  DEF Refuse, Arrives, AnswerPlainly, GraceExpires, DrainEmpty, InFlight,
      CallsOf, TypeOK, regVars
<1>5. ASSUME phase' = phase PROVE InFlight(s)' = InFlight(s)
  BY <1>5 DEF InFlight, CallsOf
<1>6. ASSUME NEW c \in Call,
             \/ \E o \in {"ok", "err"} : Finish(c, o)
             \/ SettlerTakes(c) \/ FireSink(c) \/ KillLooks(c) \/ KillCancels(c)
             \/ KillAnswers(c)
      PROVE  phase' = phase /\ running' = running
  BY <1>6
  DEF Finish, SettlerTakes, FireSink, KillLooks, KillCancels, KillAnswers, regVars
<1>7. ASSUME NEW c \in Call, SettlerSettles(c) \/ KillSettles(c)
      PROVE  phase' = phase /\ running'[s] <= running[s]
  <2>1. phase' = phase /\ rows' = rows /\ heard' = heard
    BY <1>7 DEF SettlerSettles, KillSettles
  <2>2. running' = running \/ \E d \in Call, st \in Terminal : Wins(d, st, c)
    <3>1. PICK d \in Call, st \in Terminal : Settle(d, st, c)
      BY <1>7 DEF SettlerSettles, KillSettles, KillAims, TypeOK, Terminal
    <3> QED
      BY <2>1, <3>1 DEF Wins, Settle, SettleIn, regVars
  <2>3. running[s] <= running[s]
    BY <1>0
  <2> QED
    BY <2>1, <2>2, <2>3, WinsShrinks
<1>8. ASSUME NEW t \in Session, DrainSettled(t) PROVE phase' = phase /\ running' = running
  BY <1>8 DEF DrainSettled
<1>9. CASE UNCHANGED vars
  BY <1>0, <1>1, <1>5, <1>9 DEF vars, regVars
<1>10. running[s] <= running[s]
  BY <1>0
<1>11. ASSUME NEW c \in Call, CallerStep(c) PROVE Within(s)'
  BY <1>1, <1>2, <1>4, <1>10, <1>11 DEF CallerStep, TakeDone, DrainDone
<1>12. ASSUME phase' = phase, running'[s] <= running[s] PROVE Within(s)'
  BY <1>1, <1>5, <1>12
<1>13. ASSUME NEW c \in Call, SettlerStep(c) \/ KillStep(c) \/ FireSink(c)
                              \/ \E o \in {"ok", "err"} : Finish(c, o)
       PROVE  Within(s)'
  BY <1>6, <1>7, <1>10, <1>12, <1>13 DEF SettlerStep, KillStep
<1>14. ASSUME NEW c \in Call, Refuse(c) PROVE Within(s)'
  <2>1. InFlight(s)' \subseteq InFlight(s) /\ running' = running
    BY <1>14 DEF Refuse, Arrives, InFlight, CallsOf, TypeOK, regVars
  <2> QED
    BY <1>1, <1>10, <2>1
<1>15. ASSUME NEW t \in Session, DrainSettled(t) PROVE Within(s)'
  BY <1>8, <1>10, <1>12, <1>15
<1> HIDE DEF Within
<1> QED
  BY <1>3, <1>9, <1>11, <1>13, <1>14, <1>15 DEF Next

\* However calls, kills and settlers interleave, the guard is overshot by at
\* most the other calls the chat's callers had open.
THEOREM CapacityHolds == Spec => []CapacityWithinCallers
<1>1. Init => CapacityInv
  <2> SUFFICES ASSUME Init, NEW s \in Session
               PROVE  running[s] + Cardinality(InFlight(s)) <= MaxPerSession + MaxInFlight - 1
    BY DEF CapacityInv
  <2>1. InFlight(s) = {} /\ running[s] = 0
    BY DEF Init, InFlight, CallsOf
  <2> QED
    BY <2>1, FS_EmptySet, LimitsAssumption
<1>2. RegInv /\ CapacityInv => CapacityWithinCallers
  <2> SUFFICES ASSUME RegInv, CapacityInv, NEW s \in Session
               PROVE  running[s] <= MaxPerSession + MaxInFlight - 1
    BY DEF CapacityWithinCallers
  <2>1. running[s] \in Nat /\ Cardinality(InFlight(s)) \in Nat
    BY InFlightFinite DEF RegInv, TypeInv, TypeOK
  <2>2. running[s] + Cardinality(InFlight(s)) <= MaxPerSession + MaxInFlight - 1
    BY DEF CapacityInv
  <2> QED
    BY <2>1, <2>2, LimitsAssumption
<1> QED
  BY <1>1, <1>2, CapacityStep, RegInvAlways, PTL DEF Spec

-----------------------------------------------------------------------------
(* Exactly one voice *)

Occurrences(r, c) == {i \in DOMAIN r : r[i].call = c}

\* Appending an entry adds one occurrence of its own job and no other.
LEMMA OccurrencesAppend ==
    ASSUME NEW S, NEW r \in Seq(S), NEW e \in S, NEW c
    PROVE  /\ Cardinality(Occurrences(r, c)) \in Nat
           /\ Cardinality(Occurrences(Append(r, e), c))
                = Cardinality(Occurrences(r, c)) + (IF e.call = c THEN 1 ELSE 0)
<1> DEFINE n == Len(r) + 1
           q == Append(r, e)
<1>1. /\ DOMAIN r = 1 .. Len(r)
      /\ DOMAIN q = 1 .. n
      /\ Len(r) \in Nat
      /\ q[n] = e
      /\ \A i \in 1 .. Len(r) : q[i] = r[i]
  OBVIOUS
<1>2. IsFiniteSet(Occurrences(r, c)) /\ n \notin Occurrences(r, c)
  <2>1. IsFiniteSet(1 .. Len(r))
    BY <1>1, FS_Interval
  <2>2. Occurrences(r, c) \subseteq 1 .. Len(r) /\ n \notin 1 .. Len(r)
    BY <1>1 DEF Occurrences
  <2> QED
    BY <2>1, <2>2, FS_Subset
<1>3. Cardinality(Occurrences(r, c)) \in Nat
  BY <1>2, FS_CardinalityType
<1>4. DOMAIN q = (DOMAIN r) \cup {n}
  BY <1>1
<1>5. CASE e.call = c
  <2>1. Occurrences(q, c) = Occurrences(r, c) \cup {n}
    BY <1>1, <1>4, <1>5 DEF Occurrences
  <2>2. Cardinality(Occurrences(r, c) \cup {n}) = Cardinality(Occurrences(r, c)) + 1
    BY <1>2, FS_AddElement
  <2> QED
    BY <1>3, <1>5, <2>1, <2>2
<1>6. CASE e.call # c
  <2>1. Occurrences(q, c) = Occurrences(r, c)
    BY <1>1, <1>4, <1>6 DEF Occurrences
  <2> QED
    BY <1>3, <1>6, <2>1
<1> QED
  BY <1>5, <1>6

\* What a settled job still owes the model, or has paid.
VoiceInv ==
    \A c \in Call : InRing(c) + heard[c] = IF job[c] \in Terminal THEN 1 ELSE 0

\* Ring copies and deliveries keep counting the settled jobs.
LEMMA VoiceStep == RegInv /\ VoiceInv /\ [Next]_vars => VoiceInv'
<1> DEFINE Owed(c) == InRing(c) + heard[c] = IF job[c] \in Terminal THEN 1 ELSE 0
<1> SUFFICES ASSUME RegInv, VoiceInv, [Next]_vars, NEW d \in Call
             PROVE  Owed(d)'
  BY DEF VoiceInv
<1> USE CallsAssumption DEF RegInv, TypeInv
<1>0. Owed(d) /\ InRing(d) \in Nat /\ heard[d] \in Nat
  BY InRingType DEF VoiceInv, TypeOK
<1>1. ASSUME ring' = ring, heard' = heard, job'[d] = job[d] PROVE Owed(d)'
  BY <1>0, <1>1 DEF InRing
<1>2. ASSUME NEW c \in Call, Begin(c) PROVE Owed(d)'
  <2>1. ring' = ring /\ heard' = heard
    BY <1>2 DEF Begin
  <2>2. CASE d # c
    BY <1>1, <1>2, <2>1, <2>2 DEF Begin, TypeOK
  <2>3. CASE d = c
    <3>1. job[d] = "none" /\ job'[d] = "working"
      BY <1>2, <2>3 DEF Begin, NoPhantomLane, TypeOK
    <3>2. InRing(d)' = InRing(d)
      BY <2>1 DEF InRing
    <3> QED
      BY <1>0, <2>1, <3>1, <3>2 DEF Terminal
  <2> QED
    BY <2>2, <2>3
<1>3. ASSUME NEW c \in Call, NEW st \in Terminal, NEW owner \in Call, Wins(c, st, owner)
      PROVE  Owed(d)'
  <2> DEFINE s == SessionOf[c]
             e == [call |-> c, state |-> st]
  <2>0. s \in Session /\ SessionOf[d] \in Session /\ e.call = c
    OBVIOUS
  <2>1. /\ job[c] = "working"
        /\ job' = [job EXCEPT ![c] = st]
        /\ ring' = [ring EXCEPT ![s] = Append(ring[s], e)]
        /\ heard' = heard
    BY <1>3 DEF Wins, Settle, SettleIn
  <2>2. InRing(d)' = InRing(d) + (IF c = d THEN 1 ELSE 0)
    <3>1. CASE SessionOf[d] = s
      <4>1. ring[s] \in Seq([call : Call, state : Terminal])
            /\ e \in [call : Call, state : Terminal]
        BY <2>0 DEF TypeOK
      <4>2. ring'[s] = Append(ring[s], e)
        BY <2>0, <2>1 DEF TypeOK
      <4>3. InRing(d) = Cardinality(Occurrences(ring[s], d))
        BY <3>1 DEF InRing, Occurrences
      <4>4. InRing(d)' = Cardinality(Occurrences(Append(ring[s], e), d))
        BY <3>1, <4>2 DEF InRing, Occurrences
      <4> HIDE DEF e
      <4>5. Cardinality(Occurrences(Append(ring[s], e), d))
              = Cardinality(Occurrences(ring[s], d)) + (IF e.call = d THEN 1 ELSE 0)
        BY <4>1, OccurrencesAppend
      <4> QED
        BY <2>0, <4>3, <4>4, <4>5
    <3>2. CASE SessionOf[d] # s
      <4>1. ring'[SessionOf[d]] = ring[SessionOf[d]] /\ c # d
        BY <2>0, <2>1, <3>2 DEF TypeOK
      <4>2. InRing(d)' = InRing(d)
        BY <4>1 DEF InRing
      <4> QED
        BY <1>0, <4>1, <4>2
    <3> QED
      BY <3>1, <3>2
  <2>3. CASE c = d
    <3>1. job[d] \notin Terminal /\ job'[d] \in Terminal
      BY <2>1, <2>3 DEF TypeOK, Terminal
    <3> QED
      BY <1>0, <2>1, <2>2, <2>3, <3>1
  <2>4. CASE c # d
    <3>1. job'[d] = job[d]
      BY <2>1, <2>4 DEF TypeOK
    <3> QED
      BY <1>0, <2>1, <2>2, <2>4, <3>1
  <2> QED
    BY <2>3, <2>4
<1>4. ASSUME NEW s \in Session, DrainSettled(s) PROVE Owed(d)'
  <2>1. job' = job
    BY <1>4 DEF DrainSettled
  <2>2. CASE SessionOf[d] = s
    <3>1. ring'[s] = <<>>
      BY <1>4 DEF DrainSettled, TypeOK
    <3>2. InRing(d)' = 0
      <4>0. DOMAIN <<>> = {}
        OBVIOUS
      <4>1. DOMAIN ring'[SessionOf[d]] = {}
        BY <2>2, <3>1, <4>0
      <4>2. InRing(d)' = Cardinality({i \in DOMAIN ring'[SessionOf[d]] :
                                        ring'[SessionOf[d]][i].call = d})
        BY DEF InRing
      <4>3. {i \in DOMAIN ring'[SessionOf[d]] : ring'[SessionOf[d]][i].call = d} = {}
        BY <4>1
      <4> QED
        BY <4>2, <4>3, FS_EmptySet
    <3>3. heard'[d] = heard[d] + InRing(d)
      BY <1>4, <2>2 DEF DrainSettled
    <3> QED
      BY <1>0, <2>1, <3>2, <3>3
  <2>3. CASE SessionOf[d] # s
    <3>1. ring'[SessionOf[d]] = ring[SessionOf[d]] /\ heard'[d] = heard[d]
      BY <1>4, <2>3 DEF DrainSettled, TypeOK
    <3>2. InRing(d)' = InRing(d)
      BY <3>1 DEF InRing
    <3> QED
      BY <1>0, <2>1, <3>1, <3>2
  <2> QED
    BY <2>2, <2>3
<1>5. Quiet => ring' = ring /\ heard' = heard /\ job' = job
  BY DEF Quiet, regVars
<1>6. ASSUME NEW c \in Call, FireSink(c) PROVE ring' = ring /\ heard' = heard /\ job' = job
  BY <1>6 DEF FireSink, regVars
<1> HIDE DEF Owed
<1> QED
  BY <1>1, <1>2, <1>3, <1>4, <1>5, <1>6, StepKinds

\* Ring copies and deliveries count the settled jobs.
LEMMA VoiceAlways == Spec => []VoiceInv
<1>1. Init => VoiceInv
  <2> SUFFICES ASSUME Init, NEW c \in Call
               PROVE  InRing(c) + heard[c] = IF job[c] \in Terminal THEN 1 ELSE 0
    BY DEF VoiceInv
  <2>1. ring[SessionOf[c]] = <<>> /\ heard[c] = 0 /\ job[c] = "none"
    BY CallsAssumption DEF Init
  <2>2. {i \in DOMAIN ring[SessionOf[c]] : ring[SessionOf[c]][i].call = c} = {}
    BY <2>1
  <2> QED
    BY <2>1, <2>2, FS_EmptySet DEF InRing, Terminal
<1> QED
  BY <1>1, VoiceStep, RegInvAlways, PTL DEF Spec

\* The outcome of a call reaches the model once: plainly or as one delivery.
THEOREM OneVoice == Spec => []ExactlyOneVoice
<1>1. RegInv /\ VoiceInv => ExactlyOneVoice
  <2> SUFFICES ASSUME RegInv, VoiceInv, NEW c \in Call
               PROVE  (IF phase[c] = "plain" THEN 1 ELSE 0) + InRing(c) + heard[c]
                        = IF phase[c] = "plain" \/ job[c] \in Terminal THEN 1 ELSE 0
    BY DEF ExactlyOneVoice
  <2>1. /\ InRing(c) \in Nat
        /\ heard[c] \in Nat
        /\ InRing(c) + heard[c] = IF job[c] \in Terminal THEN 1 ELSE 0
    BY InRingType DEF VoiceInv, RegInv, TypeInv, TypeOK
  <2>2. phase[c] = "plain" => job[c] \notin Terminal
    BY DEF RegInv, NoPhantomLane, Terminal
  <2> QED
    BY <2>1, <2>2
<1> QED
  BY <1>1, VoiceAlways, RegInvAlways, PTL

-----------------------------------------------------------------------------
(* The lane's context *)

\* Nothing of a call has run before it is dispatched.
FreshIsIdle == \A c \in Call : phase[c] = "new" => work[c] = "none"

\* A killer about to settle has cancelled the lane's context.
CancelsFirst == \A k \in Call : work[k] = "cancelling" => target[k] \in ctxDead

ContextInv == FreshIsIdle /\ CancelsFirst /\ ContextFollowsLane

\* The lane has a goroutine that received its outcome, or is being killed.
Released(c) ==
    \/ work[c] \in {"taken", "reported"}
    \/ \E k \in KillCall : target[k] = c /\ work[k] \notin {"none", "running", "looked"}

\* Goroutines go forward only: what released a lane keeps it released, and what
\* killed its context before is not undone.
LEMMA ContextStays ==
    ASSUME TypeInv, ContextInv, Next
    PROVE  /\ FreshIsIdle'
           /\ ctxDead \subseteq ctxDead'
           /\ \A c \in Call : Released(c) => Released(c)'
<1> USE CallsAssumption DEF TypeInv, ContextInv
<1> DEFINE Kept == /\ FreshIsIdle'
                   /\ ctxDead \subseteq ctxDead'
                   /\ \A c \in Call : Released(c) => Released(c)'
<1>1. ASSUME NEW d \in Call, Refuse(d) \/ GraceExpires(d) \/ DrainEmpty(d) \/ Begin(d) \/ FireSink(d)
      PROVE  Kept
  BY <1>1 DEF Refuse, GraceExpires, DrainEmpty, Begin, FireSink, killVars, FreshIsIdle, Released,
              TypeOK
<1>2. ASSUME NEW d \in Call, Dispatch(d) PROVE Kept
  <2>1. work[d] = "none" /\ ctxDead' = ctxDead
    BY <1>2 DEF Dispatch, Arrives, FreshIsIdle
  <2>2. /\ phase' = [phase EXCEPT ![d] = "waiting"]
        /\ work' = [work EXCEPT ![d] = "running"]
        /\ \A k \in Call : k # d => target'[k] = target[k]
    BY <1>2 DEF Dispatch, TypeOK
  <2> QED
    BY <2>1, <2>2 DEF FreshIsIdle, Released, TypeOK
<1>3. ASSUME NEW d \in Call, AnswerPlainly(d) \/ SettlerTakes(d) \/ SettlerSettles(d)
      PROVE  Kept
  BY <1>3 DEF AnswerPlainly, SettlerTakes, SettlerSettles, killVars, FreshIsIdle, Released, TypeOK
<1>4. ASSUME NEW d \in Call, NEW o \in {"ok", "err"}, Finish(d, o) PROVE Kept
  BY <1>4 DEF Finish, killVars, FreshIsIdle, Released, TypeOK
<1>5. ASSUME NEW d \in Call, KillLooks(d) \/ KillAnswers(d) PROVE Kept
  BY <1>5 DEF KillLooks, KillAnswers, KillReturns, FreshIsIdle, Released, TypeOK
<1>6. ASSUME NEW d \in Call, KillCancels(d) \/ KillSettles(d) PROVE Kept
  BY <1>6 DEF KillCancels, KillSettles, killVars, FreshIsIdle, Released, TypeOK
<1>7. ASSUME NEW s \in Session, DrainSettled(s) PROVE Kept
  BY <1>7 DEF DrainSettled, killVars, FreshIsIdle, Released
<1> QED
  BY <1>1, <1>2, <1>3, <1>4, <1>5, <1>6, <1>7
  DEF Next, CallerStep, SettlerStep, KillStep, TakeDone, DrainDone

\* A context dies with its outcome received, or by a kill of this very lane.
LEMMA DiesReleased ==
    ASSUME TypeInv, Next, NEW c \in Call, c \in ctxDead', c \notin ctxDead
    PROVE  Released(c)'
<1> USE CallsAssumption DEF TypeInv
<1>1. ASSUME NEW d \in Call, AnswerPlainly(d) \/ SettlerTakes(d) PROVE Released(c)'
  <2>1. c = d
    BY <1>1 DEF AnswerPlainly, SettlerTakes
  <2>2. work'[c] = "taken" \/ work'[c] = "reported"
    BY <1>1, <2>1 DEF AnswerPlainly, SettlerTakes, TypeOK
  <2> QED
    BY <2>2 DEF Released
<1>2. ASSUME NEW k \in Call, KillCancels(k) PROVE Released(c)'
  <2>1. k \in KillCall /\ c = target[k]
    BY <1>2 DEF KillCancels, KillAims
  <2>2. work'[k] = "cancelling" /\ target' = target
    BY <1>2 DEF KillCancels, killVars, TypeOK
  <2> QED
    BY <2>1, <2>2 DEF Released
<1> QED
  BY <1>1, <1>2
  DEF Next, CallerStep, SettlerStep, KillStep, TakeDone, DrainDone, Refuse, Dispatch, GraceExpires,
      DrainEmpty, Begin, Finish, SettlerSettles, FireSink, KillLooks, KillSettles, KillAnswers,
      DrainSettled

\* A killer that gets as far as its settle has just cancelled.
LEMMA CancelsFirstStep == TypeInv /\ ContextInv /\ Next => CancelsFirst'
<1> SUFFICES ASSUME TypeInv, ContextInv, Next, NEW k \in Call, work'[k] = "cancelling"
             PROVE  target'[k] \in ctxDead'
  BY DEF CancelsFirst
<1> USE CallsAssumption DEF TypeInv
<1>1. CASE KillCancels(k)
  BY <1>1 DEF KillCancels, killVars
<1>2. CASE ~KillCancels(k)
  <2> DEFINE Same == work[k] = "cancelling" /\ target'[k] = target[k]
  <2>1. ASSUME NEW d \in Call, Refuse(d) \/ GraceExpires(d) \/ DrainEmpty(d) \/ Begin(d) \/ FireSink(d)
        PROVE  Same
    BY <2>1 DEF Refuse, GraceExpires, DrainEmpty, Begin, FireSink, killVars
  <2>2. ASSUME NEW d \in Call, Dispatch(d) PROVE Same
    BY <2>2 DEF Dispatch, TypeOK
  <2>3. ASSUME NEW d \in Call,
               AnswerPlainly(d) \/ SettlerTakes(d) \/ SettlerSettles(d) \/ KillSettles(d)
        PROVE  Same
    BY <2>3 DEF AnswerPlainly, SettlerTakes, SettlerSettles, KillSettles, killVars, TypeOK
  <2>4. ASSUME NEW d \in Call, NEW o \in {"ok", "err"}, Finish(d, o) PROVE Same
    BY <2>4 DEF Finish, killVars, TypeOK
  <2>5. ASSUME NEW d \in Call, KillLooks(d) \/ KillAnswers(d) PROVE Same
    BY <2>5 DEF KillLooks, KillAnswers, KillReturns, TypeOK
  <2>6. ASSUME NEW d \in Call, KillCancels(d) PROVE Same
    BY <1>2, <2>6 DEF KillCancels, killVars, TypeOK
  <2>7. ASSUME NEW s \in Session, DrainSettled(s) PROVE Same
    BY <2>7 DEF DrainSettled, killVars
  <2>8. Same
    BY <2>1, <2>2, <2>3, <2>4, <2>5, <2>6, <2>7
    DEF Next, CallerStep, SettlerStep, KillStep, TakeDone, DrainDone
  <2>9. target[k] \in ctxDead /\ ctxDead \subseteq ctxDead'
    BY <2>8, ContextStays DEF ContextInv, CancelsFirst
  <2> QED
    BY <2>8, <2>9
<1> QED
  BY <1>1, <1>2

\* A job is cancelled only by a killer that has cancelled its context.
LEMMA CancelledIsDead ==
    ASSUME TypeInv, ContextInv, Next, NEW c \in Call, job'[c] = "cancelled"
    PROVE  c \in ctxDead'
<1> USE CallsAssumption DEF TypeInv
<1>1. CASE job[c] = "cancelled"
  BY <1>1, ContextStays DEF ContextInv, ContextFollowsLane
<1>2. CASE job[c] # "cancelled"
  <2>1. ASSUME NEW k \in Call, KillSettles(k) PROVE c \in ctxDead'
    <3>1. target[k] \in ctxDead /\ ctxDead' = ctxDead
      BY <2>1 DEF KillSettles, ContextInv, CancelsFirst
    <3>2. c = target[k]
      BY <1>2, <2>1 DEF KillSettles, Settle, SettleIn, regVars, TypeOK
    <3> QED
      BY <3>1, <3>2
  <2>2. ASSUME NEW d \in Call, SettlerSettles(d) PROVE FALSE
    BY <1>2, <2>2 DEF SettlerSettles, Settle, SettleIn, regVars, TypeOK
  <2>3. ASSUME NEW d \in Call, Begin(d) PROVE FALSE
    BY <1>2, <2>3 DEF Begin, TypeOK
  <2> QED
    BY <1>2, <2>1, <2>2, <2>3
    DEF Next, CallerStep, SettlerStep, KillStep, TakeDone, DrainDone, Refuse, Dispatch,
        AnswerPlainly, GraceExpires, DrainEmpty, Finish, SettlerTakes, FireSink, KillLooks,
        KillCancels, KillAnswers, DrainSettled, regVars
<1> QED
  BY <1>1, <1>2

\* A lane's context is dead before the lane reads as cancelled, and dies of
\* nothing but its own outcome or a kill aimed at it.
THEOREM ContextHolds == Spec => []ContextFollowsLane
<1>1. Init => ContextInv
  BY DEF Init, ContextInv, FreshIsIdle, CancelsFirst, ContextFollowsLane
<1>2. TypeInv /\ ContextInv /\ [Next]_vars => ContextInv'
  <2>1. ASSUME TypeInv, ContextInv, Next PROVE ContextInv'
    <3>1. ASSUME NEW c \in Call, c \in ctxDead' PROVE Released(c)'
      <4>1. c \in ctxDead => Released(c)
        BY <2>1 DEF ContextInv, ContextFollowsLane, Released
      <4> QED
        BY <2>1, <3>1, <4>1, ContextStays, DiesReleased
    <3>2. ContextFollowsLane'
      BY <2>1, <3>1, CancelledIsDead DEF ContextFollowsLane, Released
    <3> QED
      BY <2>1, <3>2, ContextStays, CancelsFirstStep DEF ContextInv
  <2>2. ASSUME ContextInv, UNCHANGED vars PROVE ContextInv'
    BY <2>2 DEF vars, regVars, killVars, ContextInv, FreshIsIdle, CancelsFirst, ContextFollowsLane
  <2> QED
    BY <2>1, <2>2
<1>3. ContextInv => ContextFollowsLane
  BY DEF ContextInv
<1>4. RegInv => TypeInv
  BY DEF RegInv
<1> QED
  BY <1>1, <1>2, <1>3, <1>4, RegInvAlways, PTL DEF Spec

-----------------------------------------------------------------------------
(* The lanes implement the ledger *)

SimInv == RegInv /\ VoiceInv /\ RunningCountsWorking

\* A step that moves one entry is a move of the ledger.
LEMMA OneMove ==
    ASSUME NEW c \in Call, NEW from, NEW to,
           EntryOf(c) = from, EntryOf(c)' = to,
           \A d \in Call \ {c} : EntryOf(d)' = EntryOf(d)
    PROVE  Ledger!Move(c, from, to)
  BY DEF Ledger!Move, entries

\* A step that moves no entry is a stutter of the ledger.
LEMMA NoMove ==
    ASSUME \A d \in Call : EntryOf(d)' = EntryOf(d)
    PROVE  entries' = entries
  BY DEF entries

\* The ledger's tickets are the lanes the guard counts.
LEMMA TicketsAreLanes ==
    ASSUME SimInv, NEW c \in Call
    PROVE  Ledger!Cardinality(Ledger!Tickets(c)) = running[SessionOf[c]]
<1>1. \A d \in Call : EntryOf(d) = "ticket" <=> job[d] = "working"
  <2> SUFFICES ASSUME NEW d \in Call
               PROVE  EntryOf(d) = "ticket" <=> job[d] = "working"
    OBVIOUS
  <2>1. job[d] # "none" <=> phase[d] = "ticketed"
    BY DEF SimInv, RegInv, NoPhantomLane
  <2>2. phase[d] \in Phase
    BY DEF SimInv, RegInv, TypeInv, TypeOK
  <2> QED
    BY <2>1, <2>2 DEF EntryOf, Phase, Answered
<1>2. Ledger!Tickets(c) = {d \in CallsOf(SessionOf[c]) : job[d] = "working"}
  BY <1>1 DEF Ledger!Tickets, CallsOf, entries
<1>3. Ledger!Cardinality(Ledger!Tickets(c)) = Cardinality(Ledger!Tickets(c))
  BY DEF Ledger!Cardinality, Cardinality
<1> QED
  BY <1>2, <1>3, CallsAssumption DEF SimInv, RunningCountsWorking

\* Only the phase, the state and the deliveries of a call make its entry.
LEMMA SameEntry ==
    ASSUME NEW d \in Call, phase'[d] = phase[d], job'[d] = job[d], heard'[d] = heard[d]
    PROVE  EntryOf(d)' = EntryOf(d)
  BY DEF EntryOf

\* The caller's steps are ledger moves of that call.
LEMMA CallerSimulates ==
    ASSUME SimInv, NEW c \in Call,
           \/ Refuse(c) \/ Dispatch(c) \/ Begin(c) \/ GraceExpires(c) \/ DrainEmpty(c)
           \/ AnswerPlainly(c) /\ phase[c] \in {"waiting", "expired"}
    PROVE  [Ledger!LedgerNext]_entries
<1> USE CallsAssumption DEF SimInv, RegInv, TypeInv
<1>0. /\ running[SessionOf[c]] \in Nat
      /\ MaxPerSession \in Nat
      /\ Ledger!Cardinality(Ledger!Tickets(c)) = running[SessionOf[c]]
  BY LimitsAssumption, TicketsAreLanes DEF TypeOK
<1>1. heard' = heard /\ \A d \in Call \ {c} : phase'[d] = phase[d] /\ job'[d] = job[d]
  BY DEF Refuse, Dispatch, Begin, GraceExpires, DrainEmpty, AnswerPlainly, regVars, TypeOK
<1>2. \A d \in Call \ {c} : EntryOf(d)' = EntryOf(d)
  BY <1>1, SameEntry
<1>3. CASE Refuse(c)
  <2>1. phase[c] = "new" /\ phase'[c] = "refused" /\ running[SessionOf[c]] >= MaxPerSession
    BY <1>3 DEF Refuse, Arrives, AtCapacity, TypeOK
  <2>2. EntryOf(c) = "new" /\ EntryOf(c)' = "refused"
    BY <2>1 DEF EntryOf
  <2>3. Ledger!Refuse(c)
    BY <1>0, <1>2, <2>1, <2>2, OneMove DEF Ledger!Refuse
  <2> QED
    BY <2>3 DEF Ledger!LedgerNext
<1>4. CASE Dispatch(c)
  <2>0. phase[c] = "new" /\ ~(running[SessionOf[c]] >= MaxPerSession)
    BY <1>4 DEF Dispatch, Arrives, AtCapacity
  <2>1. phase'[c] = "waiting"
    BY <1>4 DEF Dispatch, TypeOK
  <2>4. running[SessionOf[c]] < MaxPerSession
    BY <1>0, <2>0
  <2>2. EntryOf(c) = "new" /\ EntryOf(c)' = "open"
    BY <2>0, <2>1 DEF EntryOf
  <2>3. Ledger!Open(c)
    BY <1>0, <1>2, <2>2, <2>4, OneMove DEF Ledger!Open
  <2> QED
    BY <2>3 DEF Ledger!LedgerNext
<1>5. CASE Begin(c)
  <2>1. phase[c] = "arming" /\ phase'[c] = "ticketed" /\ job'[c] = "working"
    BY <1>5 DEF Begin, TypeOK
  <2>2. EntryOf(c) = "open" /\ EntryOf(c)' = "ticket"
    BY <2>1 DEF EntryOf
  <2>3. Ledger!Ticket(c)
    BY <1>2, <2>2, OneMove DEF Ledger!Ticket
  <2> QED
    BY <2>3 DEF Ledger!LedgerNext
<1>6. CASE GraceExpires(c) \/ DrainEmpty(c)
  <2>1. phase[c] \in {"waiting", "expired"} /\ phase'[c] \in {"expired", "arming"}
    BY <1>6 DEF GraceExpires, DrainEmpty, TypeOK
  <2>2. EntryOf(c) = "open" /\ EntryOf(c)' = "open"
    BY <2>1 DEF EntryOf
  <2> QED
    BY <1>2, <2>2, NoMove
<1>7. CASE AnswerPlainly(c) /\ phase[c] \in {"waiting", "expired"}
  <2>1. phase'[c] = "plain"
    BY <1>7 DEF AnswerPlainly, TypeOK
  <2>2. EntryOf(c) = "open" /\ EntryOf(c)' = "answered"
    BY <1>7, <2>1 DEF EntryOf
  <2>3. Ledger!Answer(c)
    BY <1>2, <2>2, OneMove DEF Ledger!Answer
  <2> QED
    BY <2>3 DEF Ledger!LedgerNext
<1> QED
  BY <1>3, <1>4, <1>5, <1>6, <1>7

\* A settle closes a ledger entry, or leaves it alone.
LEMMA SettleSimulates ==
    ASSUME SimInv, NEW c \in Call, NEW st \in Terminal, NEW owner \in Call, Wins(c, st, owner)
    PROVE  Ledger!LedgerNext
<1> USE CallsAssumption DEF SimInv, RegInv, TypeInv
<1>1. /\ phase' = phase /\ heard' = heard
      /\ job[c] = "working" /\ job'[c] = st
      /\ \A d \in Call \ {c} : job'[d] = job[d]
  BY DEF Wins, Settle, SettleIn, TypeOK
<1>2. \A d \in Call \ {c} : EntryOf(d)' = EntryOf(d)
  BY <1>1, SameEntry
<1>3. phase[c] = "ticketed" /\ heard[c] = 0
  <2>1. InRing(c) + heard[c] = 0 /\ InRing(c) \in Nat /\ heard[c] \in Nat
    BY <1>1, InRingType DEF VoiceInv, Terminal, TypeOK
  <2> QED
    BY <1>1, <2>1 DEF NoPhantomLane
<1>4. EntryOf(c) = "ticket" /\ EntryOf(c)' = "settled"
  BY <1>1, <1>3 DEF EntryOf, Terminal
<1>5. Ledger!Close(c)
  BY <1>2, <1>4, OneMove DEF Ledger!Close
<1> QED
  BY <1>5 DEF Ledger!LedgerNext

\* A drain tells the chat's settled entries.
LEMMA DrainSimulates ==
    ASSUME SimInv, NEW s \in Session, DrainSettled(s)
    PROVE  [Ledger!LedgerNext]_entries
<1> USE CallsAssumption DEF SimInv, RegInv, TypeInv
<1> DEFINE told == {d \in Call : SessionOf[d] = s /\ EntryOf(d) = "settled"}
<1>1. phase' = phase /\ job' = job
  BY DEF DrainSettled
<1>2. ASSUME NEW d \in told PROVE EntryOf(d)' = "heard"
  <2>1. phase[d] \in Phase /\ job[d] \in JobState /\ heard[d] \in Nat /\ InRing(d) \in Nat
    BY InRingType DEF TypeOK
  <2>2. /\ phase[d] = "ticketed" /\ job[d] # "working" /\ heard[d] = 0
    BY <2>1 DEF EntryOf, Phase, Answered
  <2>3. job[d] \in Terminal
    BY <2>1, <2>2 DEF NoPhantomLane, JobState
  <2>4. InRing(d) = 1
    BY <2>1, <2>2, <2>3 DEF VoiceInv
  <2>5. heard'[d] = 1
    BY <2>2, <2>4 DEF DrainSettled
  <2> QED
    BY <1>1, <2>2, <2>5 DEF EntryOf
<1>3. ASSUME NEW d \in Call \ told PROVE EntryOf(d)' = EntryOf(d)
  <2>1. phase[d] \in Phase /\ job[d] \in JobState /\ heard[d] \in Nat /\ InRing(d) \in Nat
    BY InRingType DEF TypeOK
  <2>2. CASE SessionOf[d] # s
    BY <1>1, <2>2, SameEntry DEF DrainSettled
  <2>3. CASE SessionOf[d] = s /\ heard[d] = 0
    <3>1. EntryOf(d) # "settled"
      BY <2>3
    <3>2. phase[d] # "ticketed" \/ job[d] = "working"
      BY <2>3, <3>1 DEF EntryOf
    <3>3. job[d] \notin Terminal
      BY <3>2 DEF NoPhantomLane, Terminal
    <3>4. InRing(d) = 0
      BY <2>1, <2>3, <3>3 DEF VoiceInv
    <3>5. heard'[d] = heard[d]
      BY <2>1, <2>3, <3>4 DEF DrainSettled
    <3> QED
      BY <1>1, <3>5, SameEntry
  <2>4. CASE SessionOf[d] = s /\ heard[d] # 0
    <3>1. InRing(d) + heard[d] = IF job[d] \in Terminal THEN 1 ELSE 0
      BY DEF VoiceInv
    <3>2. InRing(d) = 0
      BY <2>1, <2>4, <3>1
    <3>3. heard'[d] = heard[d]
      BY <2>1, <2>4, <3>2 DEF DrainSettled
    <3> QED
      BY <1>1, <3>3, SameEntry
  <2> QED
    BY <2>2, <2>3, <2>4
<1>4. CASE told = {}
  BY <1>3, <1>4, NoMove
<1>5. CASE told # {}
  <2>1. PICK c \in told : TRUE
    BY <1>5
  <2>2. told = {d \in Call : SessionOf[d] = s
                  /\ entries[d] = "settled"}
    BY DEF entries
  <2>3. entries' = [d \in Call |-> IF d \in told THEN "heard" ELSE entries[d]]
    BY <1>2, <1>3 DEF entries
  <2> HIDE DEF told
  <2>4. Ledger!Tell(s)
    BY <1>5, <2>2, <2>3 DEF Ledger!Tell
  <2>5. c \in Call /\ SessionOf[c] = s
    BY <2>1 DEF told
  <2> QED
    BY <2>4, <2>5 DEF Ledger!LedgerNext
<1> QED
  BY <1>4, <1>5

\* Forgetting goroutines, channels and the timer, every step of the lanes is
\* a step of the ledger.
THEOREM LanesImplementLedger == Spec => Ledger!LedgerSafety
<1>1. Init => Ledger!LedgerInit
  BY DEF Init, Ledger!LedgerInit, EntryOf, entries
<1>2. SimInv /\ [Next]_vars => [Ledger!LedgerNext]_entries
  <2> SUFFICES ASSUME SimInv, [Next]_vars
               PROVE  [Ledger!LedgerNext]_entries
    OBVIOUS
  <2>1. CASE UNCHANGED <<phase, job, heard>>
    BY <2>1, SameEntry, NoMove
  <2>2. CASE ~UNCHANGED <<phase, job, heard>>
    <3>1. TypeInv
      BY DEF SimInv, RegInv
    <3>2. ASSUME NEW c \in Call,
                 \/ Refuse(c) \/ Dispatch(c) \/ CallerStep(c)
          PROVE  [Ledger!LedgerNext]_entries
      BY <3>2, CallerSimulates DEF CallerStep, TakeDone, DrainDone
    <3>3. CASE phase' = phase
      <4>1. CASE Quiet
        BY <2>2, <3>3, <4>1 DEF Quiet, regVars
      <4>2. ASSUME NEW c \in Call, FireSink(c) PROVE FALSE
        BY <2>2, <3>3, <4>2 DEF FireSink, regVars
      <4>3. ASSUME NEW c \in Call, Begin(c)
            PROVE  [Ledger!LedgerNext]_entries
        BY <4>3, CallerSimulates
      <4> QED
        BY <3>1, <4>1, <4>2, <4>3, StepKinds, SettleSimulates, DrainSimulates
    <3>4. CASE phase' # phase
      <4>1. \E c \in Call : Refuse(c) \/ Dispatch(c) \/ CallerStep(c)
        BY <3>4
        DEF Next, vars, Finish, SettlerStep, SettlerTakes, SettlerSettles, FireSink,
            KillStep, KillLooks, KillCancels, KillSettles, KillAnswers, DrainSettled
      <4> QED
        BY <4>1, <3>2
    <3> QED
      BY <3>3, <3>4
  <2> QED
    BY <2>1, <2>2
<1>3. Spec => []SimInv
  BY RegInvAlways, VoiceAlways, RunningCounts, PTL DEF SimInv
<1> QED
  BY <1>1, <1>2, <1>3, PTL DEF Spec, Ledger!LedgerSafety
=============================================================================
