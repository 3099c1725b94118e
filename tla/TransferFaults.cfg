SPECIFICATION Spec
CONSTANTS
    Paths <- OnePath
    LocalPaths <- OnePath
    LocalPath <- MapOne
    Packed <- FirstPackedOne
    Refused = {}
    Fids = {f1, f2}
    Workers = {w1, w2}
    NumChunks = 2
    Ordered = TRUE
    MayStop = TRUE
    MaxEdits = 2
    MaxTrees = 2
    MaxLost = 1
    MaxAgain = 1
    MaxForeign = 1
    MaxHellos = 1
    MaxWriteErrors = 1
    MaxTotal = 3
    OtherFid = OtherFid
    NoBuffer = NoBuffer
    NoPath = NoPath
    NoTree = NoTree
    Idle = Idle
    NoChunk = NoChunk
    f1 = f1
    f2 = f2
    f3 = f3
    w1 = w1
    w2 = w2
SYMMETRY Symmetry
INVARIANTS TypeOK ResultAccounting AuthenticContent DamageReported RawOnlyAfterFault NothingForgotten
PROPERTIES CompleteMeansSynced PromiseSpec
CHECK_DEADLOCK FALSE
