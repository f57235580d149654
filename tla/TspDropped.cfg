\* A task is started, paused and resumed, with a worker left to resume it on.
SPECIFICATION Spec
CONSTANTS
    Tasks = {t1}
    Workers = {w1, w2}
    Last = 0
    Rejected = {}
    MaxAttempts = 5
    FaultKinds = {}
    MaxFaults = 0
    MaxCrashes = 0
    MaxCalls = 3
    CallsFail = FALSE
CHECK_DEADLOCK FALSE
PROPERTIES
    DroppedOnlyIfWorkedOn
