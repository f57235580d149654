\* One task on one worker, which is paused in the end.
SPECIFICATION Spec
CONSTANTS
    Tasks = {t1}
    Workers = {w1}
    Last = 0
    Rejected = {}
    MaxAttempts = 5
    FaultKinds = {}
    MaxFaults = 0
    MaxCrashes = 0
    MaxCalls = 2
    CallsFail = FALSE
CHECK_DEADLOCK FALSE
PROPERTIES
    FinishedStays
