SPECIFICATION FairSpec
CONSTANTS
    CpuOf <- OneXeon
    Requested <- flameTables
    RawReports <- NoInput
    UnreliableLkms = {"msr"}
    HasAdhoc = {FALSE}
INVARIANTS ReadsCollected
CHECK_DEADLOCK FALSE
