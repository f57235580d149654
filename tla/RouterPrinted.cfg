\* Nothing fails; a distance is rounded when it is printed.  TLC ends with a
\* violation.
SPECIFICATION RouterSpec
CONSTANTS
    Parts = {"cache"}
    Callers = {c1, c2}
    Locations <- MCLocations
    ErrorPolicy = "ON_ERROR_RETURN_INFINITY"
    NoRequest = NoRequest
    NoReply = NoReply
    Nobody = Nobody
    Unroutable <- MCUnroutable
    AddsWhileReading = TRUE
    BatchLocations <- MCLocations
    MaxLength = 2
    Engines = {e1, e2}
    CacheLocations = {"here", "there"}
    Settings = {"car", "bicycle"}
    Precision = 2
    Distances <- MCDistances
    MaxCalls = 3
    CacheMayFail = FALSE
    None = None
SYMMETRY MCSymmetry
INVARIANT SameResultReturned
