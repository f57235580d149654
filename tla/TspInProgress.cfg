\* One task on one worker, nobody else does anything.
SPECIFICATION Spec
CONSTANTS
    Tasks = {t1}
    Workers = {w1}
    Last = 0
    Rejected = {}
    MaxAttempts = 5
    FaultKinds = {}
    MaxFaults = 0
    MaxCrashes = 0
    MaxCalls = 1
    CallsFail = FALSE
CHECK_DEADLOCK FALSE
INVARIANTS
    InProgressIsWorkedOn
