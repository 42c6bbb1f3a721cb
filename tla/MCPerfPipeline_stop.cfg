SPECIFICATION FairSpec
CONSTANTS
    Output <- TwoIntervals
    Requests <- UntimedOnly
    OutCap = 2
    PipeCap = 2
    ScanCap = 1
    BatchCap = 1
    MaxErrors = 1
    KillMayFail = FALSE
    MaxSessions = 1
PROPERTIES StopHonored
CHECK_DEADLOCK FALSE
