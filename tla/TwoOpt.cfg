\* Started afresh, or with what this task or another one saved, and paused twice.
CONSTANTS
    N = 4
    Points <- MCPoints
    Tables <- MCTables
    SavedAtStart <- MCSaved
    AlgorithmTypes = {"AUTO", "TWO_OPT", "UNKNOWN"}
    MayFail = TRUE
    MaxPauses = 2
SPECIFICATION Spec
CHECK_DEADLOCK FALSE
INVARIANTS
    RangesInBounds
    PermutationKept
    SequencesAgree
    EveryRangeTried
PROPERTY Ends
