SPECIFICATION Spec
CONSTANTS
    Targets <- ThreeTargets
    NoRoot = TRUE
    Faults = FALSE
INVARIANTS FailedTargetsRemoved
