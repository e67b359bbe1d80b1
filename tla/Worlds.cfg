\* Two worlds, two edits, two switches, two boots, one fault.
CONSTANTS
    home = home
    b = b
    None = None
    World = {home, b}
    Home = home
    MaxEdits = 2
    MaxSwitches = 2
    MaxBoots = 2
    MaxFaults = 1
SPECIFICATION Spec
INVARIANTS
    OwnWorldUnlessCrossed
    SavedIsKept
    PayloadIsScheduled
CHECK_DEADLOCK FALSE
