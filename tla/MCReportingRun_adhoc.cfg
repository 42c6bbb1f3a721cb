SPECIFICATION FairSpec
CONSTANTS
    CpuOf <- TwoXeons
    Requested <- lockTables
    RawReports <- NoInput
    UnreliableLkms = {"msr"}
    HasAdhoc = {TRUE}
INVARIANTS AdhocOnOwnOutputs
CHECK_DEADLOCK FALSE
