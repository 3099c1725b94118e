SPECIFICATION Spec
CONSTANTS
    NumDirs = 2
    Timers = {t1, t2}
    OpenEvents = FALSE
    EarlyEdits = FALSE
    MaxEdits = 2
    MaxPublishes = 1
    MayStop = FALSE
    Main = Main
    NoTimer = NoTimer
    NoTree = NoTree
INVARIANTS RetainedIsCurrent
CHECK_DEADLOCK FALSE
