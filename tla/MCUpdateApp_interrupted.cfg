SPECIFICATION Spec
CONSTANTS
    MaxVersion = 1
    MaxSuffixes = 0
    MaxEdits = 0
INVARIANT TempDirRemovedOnSignal
