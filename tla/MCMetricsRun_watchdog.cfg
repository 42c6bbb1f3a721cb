SPECIFICATION Spec
CONSTANTS
    Targets <- TwoTargets
    NoRoot = FALSE
    Faults = FALSE
INVARIANTS WatchdogReset
