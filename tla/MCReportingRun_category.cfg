SPECIFICATION FairSpec
CONSTANTS
    CpuOf <- OneXeon
    Requested <- CpuCategory
    RawReports <- NoInput
    UnreliableLkms = {"msr"}
    HasAdhoc = {FALSE}
INVARIANTS ReadsCollected
CHECK_DEADLOCK FALSE
