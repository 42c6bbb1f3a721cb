SPECIFICATION FairSpec
CONSTANTS
    CpuOf <- XeonAndArm
    Requested <- CategoriesAndBenchmarks
    RawReports <- TwoFiles
    UnreliableLkms = {"msr"}
    HasAdhoc = {TRUE, FALSE}
INVARIANTS TempDirsRemoved ScriptsHaveTheirDirectory OutputsInOrder RawSavedFirst ReadsCollected FailureHasCause LkmsAsBefore
CHECK_DEADLOCK FALSE
