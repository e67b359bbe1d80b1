\* One icon; no loss is needed.
CONSTANTS
    i1 = i1
    v1 = v1
    v2 = v2
    Absent = Absent
    Icon = {i1}
    Val = {v1, v2}
    Seed = v1
    MaxEdits = 2
    MaxOthers = 1
    MaxBreaks = 1
    MaxPosts = 2
    CanTrim = TRUE
SPECIFICATION Spec
INVARIANTS
    EditsReachTheRoom
CHECK_DEADLOCK FALSE
