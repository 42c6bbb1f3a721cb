SPECIFICATION FairSpec
CONSTANTS
    Targets <- TwoTargets
    NoRoot = FALSE
    Faults = TRUE
INVARIANTS SettingsRestored WatchdogNotForced UndisturbedCollection
PROPERTIES Ends
