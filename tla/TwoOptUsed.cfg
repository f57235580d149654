\* What was saved in the last range of a row is not used.  TLC ends with a violation.
CONSTANTS
    N = 3
    Points <- MCPoints
    Tables <- MCTables
    SavedAtStart <- MCFresh
    AlgorithmTypes = {"TWO_OPT"}
    MayFail = FALSE
    MaxPauses = 1
SPECIFICATION Spec
CHECK_DEADLOCK FALSE
PROPERTY UsesWhatItSaved
