\* One worker, so that all depends on it.  Three calls let a handler that is late
\* meet the next session; a call of the main thread or of the engine may fail.
SPECIFICATION Spec
CONSTANTS
    Tasks = {t1}
    Workers = {w1}
    Last = 0
    Rejected = {}
    MaxAttempts = 2
    FaultKinds = {"worker", "engine"}
    MaxFaults = 1
    MaxCrashes = 0
    MaxCalls = 3
    CallsFail = FALSE
CHECK_DEADLOCK FALSE
PROPERTIES
    LockReleased
