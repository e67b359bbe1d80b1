\* Two icons, two edits against one op of the others, one break.
CONSTANTS
    i1 = i1
    i2 = i2
    v1 = v1
    v2 = v2
    Absent = Absent
    Icon = {i1, i2}
    Val = {v1, v2}
    Seed = v1
    MaxEdits = 2
    MaxOthers = 1
    MaxBreaks = 1
    MaxPosts = 2
    CanTrim = TRUE
SPECIFICATION Spec
INVARIANTS
    Converges
    IconsNeverEcho
    NoDeafIcon
CHECK_DEADLOCK FALSE
