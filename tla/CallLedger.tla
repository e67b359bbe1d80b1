----------------------------- MODULE CallLedger -----------------------------
(***************************************************************************)
(* What the job layer promises to the model about its tool calls, with no  *)
(* goroutine, channel, lock or timer in sight: a call is refused, or it is *)
(* answered plainly, or it gets a ticket, settles once and is heard of     *)
(* once.  JobLanes implements this ledger.                                 *)
(***************************************************************************)
EXTENDS Naturals, FiniteSets

CONSTANTS
    Call,           \* tool calls
    SessionOf,      \* the chat each call belongs to
    MaxPerSession   \* the lanes a chat may have working

VARIABLE ledger

Entry == {"new", "refused", "open", "answered", "ticket", "settled", "heard"}

LedgerTypeOK == ledger \in [Call -> Entry]

\* The lanes of c's chat that hold a ticket and have not settled.
Tickets(c) == {d \in Call : SessionOf[d] = SessionOf[c] /\ ledger[d] = "ticket"}

Move(c, from, to) ==
    /\ ledger[c] = from
    /\ ledger' = [ledger EXCEPT ![c] = to]

LedgerInit == ledger = [c \in Call |-> "new"]

Open(c)   == Cardinality(Tickets(c)) < MaxPerSession /\ Move(c, "new", "open")
Refuse(c) == Cardinality(Tickets(c)) >= MaxPerSession /\ Move(c, "new", "refused")
Answer(c) == Move(c, "open", "answered")
Ticket(c) == Move(c, "open", "ticket")
Close(c)  == Move(c, "ticket", "settled")

\* Everything settled in one chat is told at once, and never again.
Tell(s) ==
    LET told == {c \in Call : SessionOf[c] = s /\ ledger[c] = "settled"}
    IN  /\ told # {}
        /\ ledger' = [c \in Call |-> IF c \in told THEN "heard" ELSE ledger[c]]

LedgerNext ==
    \/ \E c \in Call : Open(c) \/ Refuse(c) \/ Answer(c) \/ Ticket(c) \/ Close(c)
    \/ \E c \in Call : Tell(SessionOf[c])

\* An open call never keeps its caller waiting for ever.
LedgerFairness == \A c \in Call : WF_ledger(Answer(c) \/ Ticket(c))

LedgerSafety == LedgerInit /\ [][LedgerNext]_ledger

LedgerSpec == LedgerSafety /\ LedgerFairness
=============================================================================
