SPECIFICATION FairSpec
CONSTANTS
    Languages = {"Python"}
    Files = {f1}
    MaxCalls = 0
    MaxFaults = 0
    MaxStops = 1
    MaxForeign = 0
    MaxTotal <- OneEach
    MayQuit = FALSE
PROPERTIES WatchReacts
CHECK_DEADLOCK FALSE
