SPECIFICATION FairSpec
CONSTANTS
    CpuOf <- OneXeon
    Requested <- telemetryCategories
    RawReports <- SameName
    UnreliableLkms = {"msr"}
    HasAdhoc = {FALSE}
INVARIANTS RawSavedFirst
CHECK_DEADLOCK FALSE
