-------------------------- MODULE FullMatrixCache ---------------------------
(***************************************************************************)
(* FullMatrixCacheDistanceMatrixEngine: a matrix of routes between the     *)
(* locations that were added to it, calculated as a whole when a route is  *)
(* asked for, and again when a location was added since.  Adding and       *)
(* calculating exclude one another by cache_update_lock; is_initialized,   *)
(* the mapping of locations to indices and the matrix itself are read      *)
(* without it.                                                             *)
(*                                                                         *)
(* Indices start at 1, in the code at 0.  An IndexedLocation is a location *)
(* that was added: its index never changes.  One with the tag of another   *)
(* matrix is looked up like a raw location.                                *)
(***************************************************************************)
EXTENDS RouterConcepts, FiniteSets

CONSTANTS
    Callers, Locations, ErrorPolicy, NoRequest, NoReply,  \* see DistanceMatrix
    Nobody,           \* who holds a free lock
    Unroutable,       \* pairs of locations the provider may find no route for
    AddsWhileReading  \* whether locations are added while routes are asked for

ASSUME NobodyAssumption == Nobody \notin Callers
ASSUME PolicyAssumption ==
    ErrorPolicy \in ErrorPolicies /\ AddsWhileReading \in BOOLEAN

VARIABLES
    known_locations,          \* the locations, in the order they were added
    known_locations_mapping,  \* their indices, by encodeLocation
    is_initialized,
    cache,                    \* route_details_cache: its size and its entries
    cache_update_lock,        \* who holds the mutex
    adding,                   \* the location that is being added
    added,                    \* locations for which an IndexedLocation exists
    pc,                       \* what each caller is about to do
    ids,                      \* the indices a caller reads the matrix at
    pointer,                  \* the matrix a caller reads: current or freed
    request, reply            \* see DistanceMatrix

locations == <<known_locations, known_locations_mapping, adding, added>>
matrix == <<is_initialized, cache, cache_update_lock>>
callers == <<pc, ids, pointer, request, reply>>
vars == <<locations, matrix, callers>>

----------------------------------------------------------------------------
Pc == {"idle", "store", "find", "engine", "test", "initialize", "publish",
       "load", "copy"}

Pairs(n) == (1..n) \X (1..n)
Known == Len(known_locations)
KnownKeys == DOMAIN known_locations_mapping

TypeOK ==
    /\ known_locations \in Seq(Locations)
    /\ \A k \in KnownKeys : known_locations_mapping[k] \in 1..Known
    /\ is_initialized \in BOOLEAN
    /\ cache.size \in 0..Known
    /\ cache_update_lock \in Callers \union {Nobody}
    /\ added \subseteq Locations
    /\ pc \in [Callers -> Pc]
    /\ ids \in [Callers -> Nat \X Nat]
    /\ pointer \in [Callers -> {"none", "current", "freed"}]

Init ==
    /\ known_locations = <<>>
    /\ known_locations_mapping = [k \in {} |-> 0]
    /\ is_initialized = FALSE
    /\ cache = [size |-> 0, at |-> [p \in Pairs(0) |-> NoReply]]
    /\ cache_update_lock = Nobody
    /\ adding = NoRequest
    /\ added = {}
    /\ pc = [c \in Callers |-> "idle"]
    /\ ids = [c \in Callers |-> <<0, 0>>]
    /\ pointer = [c \in Callers |-> "none"]
    /\ request = [c \in Callers |-> NoRequest]
    /\ reply = [c \in Callers |-> NoReply]

Goto(c, from, to) == pc[c] = from /\ pc' = [pc EXCEPT ![c] = to]

Finish(c, from, r) ==
    /\ Goto(c, from, "idle")
    /\ reply' = [reply EXCEPT ![c] = r]

----------------------------------------------------------------------------
(* addLocation                                                             *)

Reading == \E c \in Callers : pc[c] \notin {"idle", "store"}

\* The lock is taken and is_initialized cleared, whether the location is known
\* or not.
AddLocation(c, loc) ==
    /\ Goto(c, "idle", "store")
    /\ AddsWhileReading \/ ~Reading
    /\ cache_update_lock = Nobody
    /\ cache_update_lock' = c
    /\ is_initialized' = FALSE
    /\ adding' = loc
    /\ UNCHANGED <<known_locations, known_locations_mapping, added, cache,
                   ids, pointer, request, reply>>

StoreLocation(c) ==
    LET key == encodeLocation(adding) IN
    /\ Goto(c, "store", "idle")
    /\ IF key \in KnownKeys
         THEN UNCHANGED <<known_locations, known_locations_mapping>>
         ELSE /\ known_locations' = Append(known_locations, adding)
              /\ known_locations_mapping' =
                     [k \in KnownKeys \union {key} |->
                         IF k = key THEN Known + 1 ELSE known_locations_mapping[k]]
    /\ added' = added \union {adding}
    /\ adding' = NoRequest
    /\ cache_update_lock' = Nobody
    /\ UNCHANGED <<is_initialized, cache, ids, pointer, request, reply>>

----------------------------------------------------------------------------
(* getRouteInfo and getRouteDetails                                        *)

Ask(c, a, b, where) ==
    /\ Goto(c, "idle", where)
    /\ AddsWhileReading \/ \A d \in Callers : pc[d] # "store"
    /\ request' = [request EXCEPT ![c] = [from |-> a, to |-> b]]
    /\ reply' = [reply EXCEPT ![c] = NoReply]

IdOf(loc) == known_locations_mapping[encodeLocation(loc)]

\* Of two indexed locations with the tag of this matrix.
GetRouteByIndex(c, a, b) ==
    /\ {a, b} \subseteq added
    /\ Ask(c, a, b, "test")
    /\ ids' = [ids EXCEPT ![c] = <<IdOf(a), IdOf(b)>>]
    /\ UNCHANGED <<locations, matrix, pointer>>

\* Of two raw locations, or of indexed ones of another matrix.
GetRoute(c, a, b) ==
    /\ Ask(c, a, b, "find")
    /\ UNCHANGED <<locations, matrix, ids, pointer>>

\* The mapping may change while it is searched: then a location that is there
\* may or may not be found.
FindLocations(c) ==
    LET q == request[c]
        present == {encodeLocation(q.from), encodeLocation(q.to)} \subseteq KnownKeys
    IN
    /\ pc[c] = "find"
    /\ \/ /\ present
          /\ Goto(c, "find", "test")
          /\ ids' = [ids EXCEPT ![c] = <<IdOf(q.from), IdOf(q.to)>>]
       \/ /\ ~present \/ adding # NoRequest
          /\ Goto(c, "find", "engine")
          /\ UNCHANGED ids
    /\ UNCHANGED <<locations, matrix, pointer, request, reply>>

\* Routes between locations the matrix does not know are asked of the provider.
AskProvider(c) ==
    LET q == request[c] IN
    /\ pc[c] = "engine"
    /\ \/ Finish(c, "engine", route(q.from, q.to))
       \/ Finish(c, "engine", zero(q.from, q.to)) /\ q.from = q.to
       \/ /\ <<q.from, q.to>> \in Unroutable
          /\ Finish(c, "engine", processError(ErrorPolicy, q.from, q.to))
    /\ UNCHANGED <<locations, matrix, ids, pointer, request>>

----------------------------------------------------------------------------
(* getCachedRouteDetails and initialize                                    *)

\* Fault: any matrix will do.
TestCached(c) ==
    /\ Goto(c, "test", IF cache.size > 0 THEN "load" ELSE "initialize")
    /\ UNCHANGED <<locations, matrix, ids, pointer, request, reply>>

TestInitialized(c) ==
    /\ Goto(c, "test", IF is_initialized THEN "load" ELSE "initialize")
    /\ UNCHANGED <<locations, matrix, ids, pointer, request, reply>>

\* Somebody else has initialized the matrix while this caller came for the lock.
AlreadyInitialized(c) ==
    /\ cache_update_lock = Nobody
    /\ is_initialized
    /\ Goto(c, "initialize", "load")
    /\ UNCHANGED <<locations, matrix, ids, pointer, request, reply>>

\* Fault: a part of the old matrix is copied only if it has as many rows as the
\* new one has.
KeptIfComplete(p) == cache.size = Known

Kept(p) == p[1] <= cache.size /\ p[2] <= cache.size

\* Fault: origin and destination are swapped when the provider is asked.
EntrySwapped(p, failed) ==
    LET a == known_locations[p[1]]
        b == known_locations[p[2]]
    IN
    IF Kept(p) THEN cache.at[p]
    ELSE IF p[1] = p[2] THEN zero(a, b)
    ELSE IF p \in failed THEN processError(ErrorPolicy, a, b)
    ELSE route(b, a)

Entry(p, failed) ==
    LET a == known_locations[p[1]]
        b == known_locations[p[2]]
    IN
    IF Kept(p) THEN cache.at[p]
    ELSE IF p[1] = p[2] THEN zero(a, b)
    ELSE IF p \in failed THEN processError(ErrorPolicy, a, b)
    ELSE route(a, b)

\* Entries the provider is asked for and may have no route for.
MayFail ==
    {p \in Pairs(Known) :
        /\ ~Kept(p) /\ p[1] # p[2]
        /\ <<known_locations[p[1]], known_locations[p[2]]>> \in Unroutable}

\* A new matrix is made, whose old part is copied, and swapped in; the old one is
\* freed, whoever reads it.
Calculate(c) ==
    /\ Goto(c, "initialize", "publish")
    /\ cache_update_lock = Nobody
    /\ ~is_initialized
    /\ cache_update_lock' = c
    /\ \E failed \in SUBSET MayFail :
           /\ ErrorPolicy = "ON_ERROR_THROW" => failed = {}
           /\ cache' = [size |-> Known,
                        at |-> [p \in Pairs(Known) |-> Entry(p, failed)]]
    /\ pointer' = [d \in Callers |-> IF pointer[d] = "current" THEN "freed"
                                     ELSE pointer[d]]
    /\ UNCHANGED <<locations, is_initialized, ids, request, reply>>

\* The error policy is to throw and a route is missing: the new matrix is lost.
FailToCalculate(c) ==
    /\ cache_update_lock = Nobody
    /\ ~is_initialized
    /\ ErrorPolicy = "ON_ERROR_THROW"
    /\ MayFail # {}
    /\ Finish(c, "initialize", Thrown)
    /\ UNCHANGED <<locations, matrix, ids, pointer, request>>

Publish(c) ==
    /\ Goto(c, "publish", "load")
    /\ is_initialized' = TRUE
    /\ cache_update_lock' = Nobody
    /\ UNCHANGED <<locations, cache, ids, pointer, request, reply>>

\* The pointer to the matrix is read, then the entry is copied.
LoadPointer(c) ==
    /\ Goto(c, "load", "copy")
    /\ pointer' = [pointer EXCEPT ![c] = "current"]
    /\ UNCHANGED <<locations, matrix, ids, request, reply>>

\* What is read from a matrix that was freed is undefined.
Garbage == [kind |-> "garbage"]

CopyEntry(c) ==
    /\ pc[c] = "copy"
    /\ \/ Finish(c, "copy", cache.at[ids[c]])
       \/ Finish(c, "copy", Garbage) /\ pointer[c] = "freed"
    /\ pointer' = [pointer EXCEPT ![c] = "none"]
    /\ ids' = [ids EXCEPT ![c] = <<0, 0>>]
    /\ UNCHANGED <<locations, matrix, request>>

----------------------------------------------------------------------------
Begin(c) ==
    \/ \E loc \in Locations : AddLocation(c, loc)
    \/ \E a, b \in Locations : GetRoute(c, a, b) \/ GetRouteByIndex(c, a, b)

Step(c) ==
    \/ StoreLocation(c)
    \/ FindLocations(c) \/ AskProvider(c)
    \/ TestInitialized(c) \/ AlreadyInitialized(c)
    \/ Calculate(c) \/ FailToCalculate(c) \/ Publish(c)
    \/ LoadPointer(c) \/ CopyEntry(c)

Next == \E c \in Callers : Begin(c) \/ Step(c)

Spec == Init /\ [][Next]_vars /\ \A c \in Callers : WF_vars(Step(c))

----------------------------------------------------------------------------
(* Properties                                                              *)

\* A matrix that passes for initialized has a row for every known location, at
\* whatever moment somebody looks: addLocation clears the flag before it stores,
\* and initialize sets it after it has swapped.
MatrixCoversKnown == is_initialized => cache.size = Known

\* Callers read the matrix without a lock, at indices they got long before: they
\* are within its bounds whoever adds locations or calculates it meanwhile.
ReadsInBounds ==
    \A c \in Callers : pc[c] \in {"load", "copy"} => ids[c] \in Pairs(cache.size)

\* Every entry is a route between the locations of its row and its column, zero on
\* the diagonal and nowhere else.
EntriesInPlace ==
    \A p \in Pairs(cache.size) :
        /\ cache.at[p].from = known_locations[p[1]]
        /\ cache.at[p].to = known_locations[p[2]]
        /\ cache.at[p].kind = "zero" <=> p[1] = p[2]

\* What was calculated once is never calculated again, a route that was not found
\* no more than one that was ("2x2 initial cache matrix must remain the same",
\* FullMatrixCacheDistanceMatrixEngineTest.cpp:151).
EntriesKept ==
    [][\A p \in Pairs(cache.size) :
           p \in Pairs(cache'.size) /\ cache'.at[p] = cache.at[p]]_vars

\* If locations are added only while nobody asks for routes, nobody reads a matrix
\* that was freed: callers that find it uninitialized together calculate it once.
NobodyReadsFreed ==
    AddsWhileReading \/ \A c \in Callers : pointer[c] # "freed"

\* In that case the engine is a distance matrix, unless two locations share a key.
DM == INSTANCE DistanceMatrix
ImplementsDistanceMatrix == DM!Spec

\* "CacheIsNotUsedIfAnyLocationInRequestIsUnknown", says a test of that name
\* (FullMatrixCacheDistanceMatrixEngineTest.cpp:216).
CacheOnlyForKnown ==
    \A c \in Callers :
        pc[c] \in {"test", "initialize", "publish", "load", "copy"} =>
            {request[c].from, request[c].to} \subseteq added

=============================================================================
