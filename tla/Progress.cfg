\* Two subscribers that hang up or not, of a task that is paused, stopped or ended;
\* four requests of up to two replies each, and a window of one message, so that both
\* sides are blocked by the other's messages; two callers of a matrix of two locations.
SPECIFICATION ProgressSpec
CONSTANTS
    Streams = {s1, s2}
    MaxSessions = 1
    MaxSolutions = 1
    MaxForeign = 0
    MayCancel = TRUE
    MayStop = TRUE
    None = None
    Requests = 4
    MaxReplies = 2
    Window = 1
    Callers = {c1, c2}
    Locations <- MCLocations
    Unroutable <- MCUnroutable
    ErrorPolicy = "ON_ERROR_THROW"
    NoRequest = NoRequest
    NoReply = NoReply
    Nobody = Nobody
CHECK_DEADLOCK FALSE
INVARIANTS
    AllAnswered
PROPERTIES
    StreamEnds
    StreamedCallEnds
    ImplementsDistanceMatrix
