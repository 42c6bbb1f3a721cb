SPECIFICATION FairSpec
CONSTANTS
    CpuOf <- TwoXeons
    Requested <- benchmarkTableNames
    RawReports <- NoInput
    UnreliableLkms = {"msr"}
    HasAdhoc = {FALSE}
INVARIANTS SuccessMeansReports
CHECK_DEADLOCK FALSE
