SPECIFICATION EitherFairSpec
CONSTANTS
    Languages = {"Python", "C#"}
    Files = {f1}
    MaxCalls = 2
    MaxFaults = 2
    MaxStops = 1
    MaxForeign = 1
    MaxTotal <- TotalOf
    MayQuit = TRUE
INVARIANTS TypeOK SuccessIsHonest
PROPERTIES CompletesForAReason CsCompletesForAReason NoTimeoutNeeded WatchSyncs
CHECK_DEADLOCK FALSE
