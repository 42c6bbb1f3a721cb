SPECIFICATION Spec
CONSTANTS
    Setters <- AllFlags
    Requests <- OneFrequency
    Program <- AllPrograms
    Locked <- AllLocked
    EmptyLists = FALSE
    CPUs = {"cpu0", "cpu1"}
    Boot = "cpu0"
    CoreRatio <- Ratio21
    Main = "setOnTarget"
INVARIANTS SuccessMeansSet
