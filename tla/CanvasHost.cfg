\* PUTs of every age, with and without a stamp, and DELETEs against live
\* rooms whose journal is not trimmed.
CONSTANTS
    r1 = r1
    r2 = r2
    m1 = m1
    m2 = m2
    p1 = p1
    p2 = p2
    o1 = o1
    o2 = o2
    o3 = o3
    bad = bad
    None = None
    Host = Host
    Room = {r1, r2}
    Member = {m1}
    Poster = {p1}
    Op = {o1, o2}
    BadOp = {}
    GCThreshold = 9
    SubmitBuffer = 1
    JoinBuffer = 2
    LeaveBuffer = 2
    SlowLoads = FALSE
    CanCrash = TRUE
    MaxRequests = 1
    HostActs = {"stamped", "bare", "delete"}
SPECIFICATION HostSpec
SYMMETRY Symmetry
INVARIANTS
    AcceptedPutIsFresh
    StampSurvivesPuts
    OrphanIsVoided
\* Once the row is deleted nobody may have anything left to do.
CHECK_DEADLOCK FALSE
