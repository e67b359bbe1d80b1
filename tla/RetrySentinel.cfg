\* Two chats that share one signal: two parks, three turns of the users.
SPECIFICATION Spec
CONSTANTS
    c1 = c1
    c2 = c2
    net = net
    quota = quota
    t1 = t1
    t2 = t2
    t3 = t3
    a1 = a1
    a2 = a2
    None = None
    Chats <- TwoChats
    Signals <- OneSignal
    Timers <- TwoTimers
    Autos <- TwoAutos
    MaxParks = 2
    MaxSends = 3
    MaxCrashes = 0
INVARIANTS
    ParkedIsHeld
    OneTimerPerSignal
    UnheardTimerIsKilled
CHECK_DEADLOCK FALSE
