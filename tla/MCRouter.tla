------------------------------ MODULE MCRouter -------------------------------
(***************************************************************************)
(* The ways of a route, on small instances: the matrix it is kept in, the  *)
(* call of the router that brings it, and the cache in Redis the router    *)
(* looks it up in.  The three share no state; part is the one a behaviour  *)
(* is about, and the variables of the others rest.                         *)
(***************************************************************************)
EXTENDS FullMatrixCache, TLC

CONSTANTS
    Parts,         \* the parts to look at
    BatchLocations, MaxLength,  \* see RoutesBatch
    Engines, CacheLocations, Settings, Distances, Precision, MaxCalls,
    CacheMayFail,  \* see RouteCache
    None           \* see both

VARIABLES
    part,
    \* of RoutesBatch
    call, message, handler, todo, stream, status, response, result, sent,
    \* of RouteCache
    version, entries, engine, pending, place, wanted, given, calls,
    answered, missed, forced

batchVars == <<call, message, handler, todo, stream, status, response, result, sent>>
cacheVars == <<version, entries, engine, pending, place, wanted, given, calls,
               answered, missed, forced>>
routerVars == <<part, vars, batchVars, cacheVars>>

----------------------------------------------------------------------------
MCSymmetry == Permutations(Callers) \union Permutations(Engines)

\* The keys of the first two in a matrix are 123; those of the client differ.
MCLocations ==
    {[lat |-> 1, lon |-> 23], [lat |-> 12, lon |-> 3], [lat |-> 1, lon |-> -2]}

\* All keys differ.
MCDistinctLocations ==
    {[lat |-> 1, lon |-> 23], [lat |-> 2, lon |-> 3], [lat |-> 1, lon |-> -2]}

MCTwoLocations == MCLocations \ {[lat |-> 12, lon |-> 3]}

\* One route may be missing, in one direction.
MCUnroutable == {<<[lat |-> 1, lon |-> 23], [lat |-> 1, lon |-> -2]>>}

\* With a precision of two digits the second one is printed as 120.
MCDistances == <<95, 123>>

\* Both can be printed.
MCShortDistances == <<95, 120>>

----------------------------------------------------------------------------
Batch == INSTANCE RoutesBatch WITH request <- message, Locations <- BatchLocations

Cache == INSTANCE RouteCache
    WITH Locations <- CacheLocations, MayFail <- CacheMayFail,
         cache <- entries, pc <- place, request <- wanted, reply <- given

ASSUME BatchAssumption == Batch!BatchAssumption
ASSUME CacheAssumption == Cache!CacheAssumption

RouterInit == part \in Parts /\ Init /\ Batch!Init /\ Cache!Init

RouterNext ==
    \/ part = "matrix" /\ Next /\ UNCHANGED <<part, batchVars, cacheVars>>
    \/ part = "batch" /\ Batch!Next /\ UNCHANGED <<part, vars, cacheVars>>
    \/ part = "cache" /\ Cache!Next /\ UNCHANGED <<part, vars, batchVars>>

RouterSpec == RouterInit /\ [][RouterNext]_routerVars

----------------------------------------------------------------------------
\* The server replies to every pair of a call once: see RoutesBatch.
EveryPairRepliedToOnce == Batch!EveryPairRepliedToOnce

\* A route a call returns is one of its row and column: see RoutesBatch.
RoutesInPlace == Batch!RoutesInPlace

\* A way a call says is missing is the one of its pair: see RoutesBatch.
MissingOfItsPair == Batch!MissingOfItsPair

\* A call returns a route for each pair the router has one for: see RoutesBatch.
EveryRouteReturned == Batch!EveryRouteReturned

\* A call returns zero for the way from a location to itself only: see RoutesBatch.
ZeroForSelfOnly == Batch!ZeroForSelfOnly

\* What is found in the cache, the backend has answered: see RouteCache.
RoutesOfTheBackend == Cache!RoutesOfTheBackend

\* The backend is asked for what is not in the cache: see RouteCache.
OnlyMissingAsked == Cache!OnlyMissingAsked

\* Nobody gets a route older than a forced update: see RouteCache.
UpdatedOnForceUpdate == Cache!UpdatedOnForceUpdate

\* What is found is what was answered: see RouteCache.
SameResultReturned == Cache!SameResultReturned

=============================================================================
