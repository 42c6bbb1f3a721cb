SPECIFICATION FramesSpec
CONSTANTS
    CoreEvent <- MCCore
    UncoreEvent <- MCUncore
    OtherEvent = {"power"}
    Skipped = {"TSC"}
    Counter <- MCCounter
    FixedCounter <- MCFixed
    TakenAlone <- MCTakenAlone
    Offcore = {"ocr1", "ocr2", "ocr3"}
    PerfMetrics = {"pm1", "pm2"}
    Slots = "slots"
    RefTsc = {"ref", "ref:k"}
    Pebs = {"alone2"}
    Unit <- MCUnit
    NumGeneralPurposeCounters = 2
    NoEvent = "none"
    Metadatas <- MCTargets
    MetricLists <- FramesMetrics
    CPU = {0, 1, 2}
    SocketOf <- TwoSockets
    Devices = 2
    Cgroups = 2
    Modes = {"system", "socket", "cpu", "cgroup"}
    MaxIntervals = 2
INVARIANTS FramesFaithful Aligned
PROPERTY MetricsFromOneGroup
CHECK_DEADLOCK FALSE
