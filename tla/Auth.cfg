SPECIFICATION FairSpec
CONSTANTS
    Sessions = {s1, s2}
    Lineups <- AnyLineup
    Ids = {a, b, u}
    Registered = {a, b}
    Timeout = 0
    HelloBound <- AgainForA
    MaxTime = 1
    MayStop = TRUE
    NoEntry = NoEntry
    NoVerification = NoVerification
    s1 = s1
    s2 = s2
    a = a
    b = b
    u = u
INVARIANTS TypeOK AcceptedIsGone RefusedForAReason
PROPERTIES OnlyNewestAccepted StaleRemoved PromiseSpec
CHECK_DEADLOCK FALSE
