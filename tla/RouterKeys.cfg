\* Two of the locations have the same key in the matrix.  TLC ends with a violation.
SPECIFICATION RouterSpec
CONSTANTS
    Parts = {"matrix"}
    Callers = {c1, c2}
    Locations <- MCLocations
    ErrorPolicy = "ON_ERROR_RETURN_INFINITY"
    NoRequest = NoRequest
    NoReply = NoReply
    Nobody = Nobody
    Unroutable <- MCUnroutable
    AddsWhileReading = FALSE
    BatchLocations <- MCLocations
    MaxLength = 2
    Engines = {e1, e2}
    CacheLocations = {"here", "there"}
    Settings = {"car", "bicycle"}
    Precision = 2
    Distances <- MCDistances
    MaxCalls = 3
    CacheMayFail = TRUE
    None = None
SYMMETRY MCSymmetry
INVARIANT CacheOnlyForKnown
