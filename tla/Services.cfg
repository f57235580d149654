\* Waybills and calls of the scheduler; settings; two subscribers of a task that finds
\* two solutions and ends, or is paused and stopped; two jobs of a worker, each with up
\* to two signals.
CONSTANTS
    Parts = {"algorithm", "call", "settings", "updates", "channel"}
    Waybills <- MCWaybills
    Durations = {0, 1, 3, 84}
    Starts = {0, 1}
    InfiniteInterval = 84
    Forever = 999
    Half = 50
    Numbers <- MCNumbers
    Streams = {s1, s2}
    MaxSessions = 1
    MaxSolutions = 2
    MaxForeign = 1
    None = None
    MaxJobs = 2
    MaxSignals = 2
SPECIFICATION ServicesSpec
SYMMETRY MCSymmetry
CHECK_DEADLOCK FALSE
INVARIANTS
    Feasible
    EndsAsEarly
    WaitsOnlyWithoutSlack
    ComesBackScheduled
    SettingsArrive
    RequestOfTheTask
    NoStreamOnClosedChannel
    NoGapInUpdates
    SharedWithoutClash
PROPERTY ShiftKeepsOnTime
