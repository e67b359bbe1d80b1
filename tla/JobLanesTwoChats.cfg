\* A chat with three tools and a guard of one lane, and a job_kill call from
\* another chat.
CONSTANTS
    s1 = s1
    s2 = s2
    t1 = t1
    t2 = t2
    t3 = t3
    k1 = k1
    k2 = k2
    NoCall = NoCall
    Call = {t1, t2, t3, k1}
    KillCall = {k1}
    Session = {s1, s2}
    SessionOf <- TwoChats
    MaxPerSession = 1
    MaxInFlight = 2
    GraceEnabled = TRUE
SPECIFICATION Spec
INVARIANTS
    RunningCountsWorking
    CapacityWithinCallers
\* A finite set of calls runs out.
CHECK_DEADLOCK FALSE
