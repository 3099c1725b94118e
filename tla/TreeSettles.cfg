SPECIFICATION FairSpec
CONSTANTS
    NumDirs = 2
    Timers = {t1, t2}
    OpenEvents = TRUE
    EarlyEdits = FALSE
    MaxEdits = 1
    MaxPublishes = 0
    MayStop = FALSE
    Main = Main
    NoTimer = NoTimer
    NoTree = NoTree
PROPERTIES Settles
CHECK_DEADLOCK FALSE
