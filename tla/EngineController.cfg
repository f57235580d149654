\* Three launches let a resume overlap a task that is winding down, and a task
\* follow one that failed; three iterations give a pause a beginning, a middle
\* and an end to fall into.
SPECIFICATION Spec
CONSTANTS
    Last = 2
    SavedAtStart <- MCAnySaved
    Rejected <- MCLastRejected
    MayThrow = TRUE
    MaxLaunches = 3
INVARIANTS
    TypeOK
    OneActiveTask
    NoIterationSkipped
    NoTaskOutlivesController
PROPERTIES
    TaskEnds
    CallsReturn
    ImplementsResumableRun
