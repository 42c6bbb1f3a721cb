SPECIFICATION Spec
CONSTANTS
    CoreEvent <- MCCore
    UncoreEvent <- MCUncore
    OtherEvent = {"power"}
    Skipped = {"TSC"}
    Counter <- MCCounter
    FixedCounter <- MCFixed
    TakenAlone <- MCTakenAlone
    Offcore = {"ocr1", "ocr2", "ocr3"}
    PerfMetrics = {"pm1", "pm2"}
    Slots = "slots"
    RefTsc = {"ref", "ref:k"}
    Pebs = {"alone2"}
    Unit <- MCUnit
    NumGeneralPurposeCounters = 3
    NoEvent = "none"
    Metadatas <- MCMetadatas
    MetricLists <- TwoAlone
INVARIANT OneTakenAlone
CHECK_DEADLOCK FALSE
