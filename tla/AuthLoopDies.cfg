SPECIFICATION Spec
CONSTANTS
    Sessions = {s1, s2}
    Lineups <- TwoClients
    Ids = {a, b, u}
    Registered = {a, b}
    Timeout = 0
    HelloBound <- OneEach
    MaxTime = 2
    MayStop = FALSE
    NoEntry = NoEntry
    NoVerification = NoVerification
    s1 = s1
    s2 = s2
    a = a
    b = b
    u = u
INVARIANTS ServiceLoopRuns
CHECK_DEADLOCK FALSE
