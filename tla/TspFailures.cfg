\* Any call may fail, two of them do, and two workers may crash, or one twice.
\* Two calls give both workers the same task, and one of them an interruption.
SPECIFICATION Spec
CONSTANTS
    Tasks = {t1}
    Workers = {w1, w2}
    Last = 1
    Rejected = {}
    MaxAttempts = 3
    FaultKinds = {"worker", "catch", "engine", "handler", "store"}
    MaxFaults = 2
    MaxCrashes = 2
    MaxCalls = 2
    CallsFail = TRUE
SYMMETRY MCSymmetry
CHECK_DEADLOCK FALSE
INVARIANTS
    TypeOK
    OneWorkerPerTask
PROPERTIES
    TasksImplementResumableRun
