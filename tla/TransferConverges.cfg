SPECIFICATION FairSpec
CONSTANTS
    Paths <- OnePath
    LocalPaths <- OnePath
    LocalPath <- MapOne
    Packed <- FirstPackedOne
    Refused = {}
    Fids = {f1, f2, f3}
    Workers = {w1, w2}
    NumChunks = 2
    Ordered = TRUE
    MayStop = FALSE
    MaxEdits = 1
    MaxTrees = 2
    MaxLost = 0
    MaxAgain = 0
    MaxForeign = 0
    MaxHellos = 0
    MaxWriteErrors = 0
    MaxTotal = 2
    OtherFid = OtherFid
    NoBuffer = NoBuffer
    NoPath = NoPath
    NoTree = NoTree
    Idle = Idle
    NoChunk = NoChunk
    f1 = f1
    f2 = f2
    f3 = f3
    w1 = w1
    w2 = w2
PROPERTIES ClientConverges
CHECK_DEADLOCK FALSE
