\* Nothing fails, and all distances can be printed: an older answer is found that was
\* put later than the forced update, or before it was executed.  TLC ends with a violation.
SPECIFICATION RouterSpec
CONSTANTS
    Parts = {"cache"}
    Callers = {c1, c2}
    Locations <- MCLocations
    ErrorPolicy = "ON_ERROR_RETURN_INFINITY"
    NoRequest = NoRequest
    NoReply = NoReply
    Nobody = Nobody
    Unroutable <- MCUnroutable
    AddsWhileReading = TRUE
    BatchLocations <- MCLocations
    MaxLength = 2
    Engines = {e1, e2}
    CacheLocations = {"here", "there"}
    Settings = {"car", "bicycle"}
    Precision = 2
    Distances <- MCShortDistances
    MaxCalls = 3
    CacheMayFail = FALSE
    None = None
SYMMETRY MCSymmetry
INVARIANT UpdatedOnForceUpdate
