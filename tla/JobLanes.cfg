\* One chat with a guard of two lanes: a tool and two job_kill calls, of
\* which each may outlive its window too and become the third lane.
CONSTANTS
    s1 = s1
    s2 = s2
    t1 = t1
    t2 = t2
    t3 = t3
    k1 = k1
    k2 = k2
    NoCall = NoCall
    Call = {t1, k1, k2}
    KillCall = {k1, k2}
    Session = {s1}
    SessionOf <- OneChat
    MaxPerSession = 2
    MaxInFlight = 2
    GraceEnabled = TRUE
SPECIFICATION Spec
INVARIANTS
    ExactlyOneVoice
    ExactlyOneRow
    ContextFollowsLane
PROPERTIES
    NeverTransition
    LaneEndsAsRow
    ImplementsLedger
\* A finite set of calls runs out.
CHECK_DEADLOCK FALSE
