SPECIFICATION FairSpec
CONSTANTS
    scripts <- KillFirst
    NeedsKill = {"mpstat"}
    Lines = 1
    MaxSignals = 2
INVARIANTS UndisturbedWhole EveryScriptReported PlainScriptsWaitedFor
PROPERTIES StopsWithPidFiles
CHECK_DEADLOCK FALSE
