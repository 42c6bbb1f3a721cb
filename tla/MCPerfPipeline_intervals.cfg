SPECIFICATION Spec
CONSTANTS
    Output <- FourIntervals
    Requests <- AllKinds
    OutCap = 2
    PipeCap = 2
    ScanCap = 2
    BatchCap = 2
    MaxErrors = 1
    KillMayFail = TRUE
    MaxSessions = 1
INVARIANTS PrintedInOrder NoIntervalDropped NothingLeftBehind LossBounded ShutdownHasCause
