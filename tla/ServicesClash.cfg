\* One task and one signal: the handler's call meets the engine's, in the library.  TLC
\* ends with a violation.
CONSTANTS
    Parts = {"channel"}
    Waybills <- MCWaybills
    Durations = {0, 1}
    Starts = {0, 1}
    InfiniteInterval = 84
    Forever = 999
    Half = 50
    Numbers <- MCNumbers
    Streams = {s1, s2}
    MaxSessions = 1
    MaxSolutions = 2
    MaxForeign = 1
    None = None
    MaxJobs = 1
    MaxSignals = 1
SPECIFICATION ServicesSpec
CHECK_DEADLOCK FALSE
INVARIANT NeverBroken
