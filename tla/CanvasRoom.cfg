\* A member, a poster, three good ops and a refused one; every full trim, a
\* submit queue of one.
CONSTANTS
    r1 = r1
    r2 = r2
    m1 = m1
    m2 = m2
    p1 = p1
    p2 = p2
    o1 = o1
    o2 = o2
    o3 = o3
    bad = bad
    None = None
    Host = Host
    Room = {r1, r2}
    Member = {m1}
    Poster = {p1}
    Op = {o1, o2, o3, bad}
    BadOp = {bad}
    GCThreshold = 2
    SubmitBuffer = 1
    JoinBuffer = 2
    LeaveBuffer = 2
    SlowLoads = FALSE
    CanCrash = TRUE
SPECIFICATION Spec
SYMMETRY Symmetry
INVARIANTS
    OneWriter
    AckedIsRecoverable
    StampTellsTheDoc
    RoomHoldsTheDoc
    NoPhantomMember
PROPERTIES
    ClockNeverRewinds
    DeadRoomIsFlushed
