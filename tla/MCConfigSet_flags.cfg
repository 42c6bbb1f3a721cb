SPECIFICATION FairSpec
CONSTANTS
    Setters <- AllFlags
    Requests <- FlagRequests
    Program <- AllPrograms
    Locked <- AllLocked
    EmptyLists = TRUE
    CPUs = {"cpu0", "cpu1"}
    Boot = "cpu0"
    CoreRatio <- Ratio21
    Main = "setOnTarget"
INVARIANTS LostOnlyToRivals BitsOfOwnRegister ModuleAccounted
PROPERTIES Ends
