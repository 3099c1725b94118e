SPECIFICATION FairSpec
CONSTANTS
    NumDirs = 2
    Timers = {t1, t2}
    OpenEvents = FALSE
    EarlyEdits = TRUE
    MaxEdits = 3
    MaxPublishes = 1
    MayStop = TRUE
    Main = Main
    NoTimer = NoTimer
    NoTree = NoTree
INVARIANTS TypeOK ChangeCovered RetainedUnlessOverlap
PROPERTIES ChangeRead Settles
CHECK_DEADLOCK FALSE
