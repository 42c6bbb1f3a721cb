SPECIFICATION Spec
CONSTANTS
    Targets <- TwoTargets
    NoRoot = TRUE
    Faults = TRUE
INVARIANTS SomeTargetCollects
