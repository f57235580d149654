\* A route that failed is negative for the scheduler.  TLC ends with a violation.
CONSTANTS
    Parts = {"call"}
    Waybills <- MCWaybills
    Durations = {0, 1, 3, 84}
    Starts = {0, 1}
    InfiniteInterval = 84
    Forever = 999
    Half = 50
    Numbers <- MCNumbers
    Streams = {s1, s2}
    MaxSessions = 1
    MaxSolutions = 2
    MaxForeign = 1
    None = None
    MaxJobs = 2
    MaxSignals = 2
SPECIFICATION ServicesSpec
CHECK_DEADLOCK FALSE
INVARIANT FailedRoutesAreInfinite
