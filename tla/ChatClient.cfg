\* One chat, two messages, two network failures, one return of the page.
SPECIFICATION Spec
CONSTANTS
    m1 = m1
    m2 = m2
    Msg <- TypedMessages
    LongRungs = 2
    ShortRungs = 1
    MaxFrames = 1
    MaxBreaks = 2
    MaxRegains = 1
INVARIANTS
    SentOnce
    ReportedIsNotSent
    OneLiveSocket
    NeverStranded
PROPERTIES
    QueuedFrameIsSent
CHECK_DEADLOCK FALSE
