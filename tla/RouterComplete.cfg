\* A call with two origins is enough: one reply is kept.  TLC ends with a violation.
SPECIFICATION RouterSpec
CONSTANTS
    Parts = {"batch"}
    Callers = {c1, c2}
    Locations <- MCTwoLocations
    ErrorPolicy = "ON_ERROR_RETURN_INFINITY"
    NoRequest = NoRequest
    NoReply = NoReply
    Nobody = Nobody
    Unroutable <- MCUnroutable
    AddsWhileReading = TRUE
    BatchLocations <- MCTwoLocations
    MaxLength = 2
    Engines = {e1, e2}
    CacheLocations = {"here", "there"}
    Settings = {"car", "bicycle"}
    Precision = 2
    Distances <- MCDistances
    MaxCalls = 3
    CacheMayFail = TRUE
    None = None
SYMMETRY MCSymmetry
INVARIANT EveryRouteReturned
