\* One chat, one park, two turns of its user, one crash.
SPECIFICATION Spec
CONSTANTS
    c1 = c1
    c2 = c2
    net = net
    quota = quota
    t1 = t1
    t2 = t2
    t3 = t3
    a1 = a1
    a2 = a2
    None = None
    Chats <- OneChat
    Signals <- OneSignal
    Timers <- ThreeTimers
    Autos <- TwoAutos
    MaxParks = 1
    MaxSends = 2
    MaxCrashes = 1
PROPERTIES
    ParkedIsContinued
CHECK_DEADLOCK FALSE
