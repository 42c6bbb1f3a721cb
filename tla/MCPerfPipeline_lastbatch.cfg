SPECIFICATION Spec
CONSTANTS
    Output <- TwoIntervals
    Requests <- TimedOnly
    OutCap = 1
    PipeCap = 2
    ScanCap = 2
    BatchCap = 1
    MaxErrors = 1
    KillMayFail = TRUE
    MaxSessions = 1
INVARIANTS BatchesWhole
