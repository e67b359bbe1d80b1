\* One chat: a window of two rows, three rows in all, two connections.
SPECIFICATION Spec
CONSTANTS
    Window = 2
    MaxLog = 3
    MaxWire = 2
    MaxConns = 2
    MaxPipes = 2
INVARIANTS
    InOrderOnce
    NoHoleUnlessRaced
    ButtonTellsTheTurn
PROPERTIES
    CatchesUp
CHECK_DEADLOCK FALSE
