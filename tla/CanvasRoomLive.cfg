\* A member and a poster, two good ops and a refused one, no crash.
CONSTANTS
    r1 = r1
    r2 = r2
    m1 = m1
    m2 = m2
    p1 = p1
    p2 = p2
    o1 = o1
    o2 = o2
    o3 = o3
    bad = bad
    None = None
    Host = Host
    Room = {r1}
    Member = {m1}
    Poster = {p1}
    Op = {o1, o2, bad}
    BadOp = {bad}
    GCThreshold = 2
    SubmitBuffer = 1
    JoinBuffer = 2
    LeaveBuffer = 2
    SlowLoads = FALSE
    CanCrash = FALSE
SPECIFICATION Spec
PROPERTIES
    EveryoneAnswered
    VacatedRoomEnds
    RowCatchesUp
