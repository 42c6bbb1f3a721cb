SPECIFICATION Spec
CONSTANTS
    scripts <- KillFirst
    NeedsKill = {"mpstat"}
    Lines = 1
    MaxSignals = 1
INVARIANTS OwnStdout
CHECK_DEADLOCK FALSE
