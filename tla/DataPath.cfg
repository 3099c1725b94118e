SPECIFICATION FairSpec
CONSTANTS
    Keys = {"k1", "k2"}
    NoConfig = NoConfig
    MaxPairs = 2
    Numbers <- SmallNumbers
    Decimal <- DecimalText
    Scenes <- AllScenes
    FileIds = {"f1", "f2", "f3", "f4", "f5"}
    ChunkSize = 2
    NoTree = NoTree
INVARIANTS
    TypeOK
    KeysBelongTogether
    MessagesRouted
    Delivered
    NothingAskedTwice
    SilenceIsRest
PROPERTIES
    
    WritesBelong
    SyncFinishes
CHECK_DEADLOCK FALSE
