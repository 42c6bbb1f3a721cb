SPECIFICATION FairSpec
CONSTANTS
    scripts <- KillFirst
    NeedsKill = {"mpstat"}
    Lines = 1
    MaxSignals = 1
PROPERTIES StopsOnSigint
CHECK_DEADLOCK FALSE
