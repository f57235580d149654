\* Allocations with two windows, of which the second is never looked at.  TLC ends
\* with a violation.
CONSTANTS
    Parts = {"algorithm"}
    Waybills <- MCTwoWindows
    Durations = {0, 1}
    Starts = {0, 1}
    InfiniteInterval = 84
    Forever = 999
    Half = 50
    Numbers <- MCNumbers
    Streams = {s1, s2}
    MaxSessions = 1
    MaxSolutions = 2
    MaxForeign = 1
    None = None
    MaxJobs = 2
    MaxSignals = 2
SPECIFICATION ServicesSpec
CHECK_DEADLOCK FALSE
INVARIANT LateOnlyIfWindowsAreTooTight
