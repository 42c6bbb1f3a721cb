SPECIFICATION Spec
CONSTANTS
    MaxVersion = 3
    MaxSuffixes = 2
    MaxEdits = 2
INVARIANTS ProgramSurvives FailureRestores SuccessMeansUpdated
PROPERTY TempDirRemoved
