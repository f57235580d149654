\* Two callers that add locations to a matrix while the other one reads; calls
\* with every list of up to two of three locations, of which two share a key in the
\* server's matrix; two engines with a cache that may fail.
SPECIFICATION RouterSpec
CONSTANTS
    Parts = {"matrix", "batch", "cache"}
    Callers = {c1, c2}
    Locations <- MCDistinctLocations
    ErrorPolicy = "ON_ERROR_RETURN_INFINITY"
    NoRequest = NoRequest
    NoReply = NoReply
    Nobody = Nobody
    Unroutable <- MCUnroutable
    AddsWhileReading = TRUE
    BatchLocations <- MCLocations
    MaxLength = 2
    Engines = {e1, e2}
    CacheLocations = {"here", "there"}
    Settings = {"car", "bicycle"}
    Precision = 2
    Distances <- MCDistances
    MaxCalls = 3
    CacheMayFail = TRUE
    None = None
SYMMETRY MCSymmetry
INVARIANTS
    ReadsInBounds
    EntriesInPlace
    EveryPairRepliedToOnce
    RoutesInPlace
    RoutesOfTheBackend
    OnlyMissingAsked
PROPERTIES
    EntriesKept
