\* Three calls start a task, pause or stop it and resume it, on two workers one of
\* which may crash.  Of three iterations one can be resumed at and one is refused.
SPECIFICATION Spec
CONSTANTS
    Tasks = {t1}
    Workers = {w1, w2}
    Last = 2
    Rejected <- MCLastRejected
    MaxAttempts = 3
    FaultKinds = {}
    MaxFaults = 0
    MaxCrashes = 1
    MaxCalls = 3
    CallsFail = FALSE
SYMMETRY MCSymmetry
CHECK_DEADLOCK FALSE
INVARIANT
    FinishedHasFinalSolution
PROPERTIES
    SavedProgressKept
    TasksImplementResumableRun
