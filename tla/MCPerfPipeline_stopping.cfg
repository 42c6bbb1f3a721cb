SPECIFICATION FairSpec
CONSTANTS
    Output <- TwoIntervals
    Requests <- AllKinds
    OutCap = 2
    PipeCap = 2
    ScanCap = 2
    BatchCap = 1
    MaxErrors = 1
    KillMayFail = TRUE
    MaxSessions = 2
INVARIANTS InnerBatchesWhole ProcessorStopsFirst
PROPERTIES Terminates StopEndsCollection ImplementsStream
