----------------------------- MODULE RouteCache -----------------------------
(***************************************************************************)
(* RedisRouteProviderEngine with its CppRedisCacheConnector and the        *)
(* DefaultRedisSerializer: routes are looked up in Redis before a backend  *)
(* is asked, and its answers are put there.  Every request to the router   *)
(* makes an engine with a connection of its own.  Redis executes the       *)
(* commands of one connection in order; nobody waits for a put, and an     *)
(* error it answers a put with is only logged.  Entries do not expire.     *)
(***************************************************************************)
EXTENDS Naturals, Sequences, FiniteSets, FiniteSetsExt, SequencesExt

CONSTANTS
    Engines,      \* engines that exist at the same time
    Locations,    \* the locations they are asked for
    Settings,     \* engine type, profile and settings, the suffix of a key
    Distances,    \* what the backend answers, at first and later
    Precision,    \* digits a number is printed with: 6
    MaxCalls,     \* how many routes are asked for
    MayFail,      \* whether Redis may fail or lose a put, and the backend throw
    None          \* no entry, no engine or no result

CacheAssumption ==
    Distances \in Seq(Nat) /\ Precision \in Nat \ {0} /\ MayFail \in BOOLEAN

VARIABLES
    version,   \* how often the backend's routes have changed
    cache,     \* the entries in Redis, by key
    engine,    \* the settings and force_update of each engine
    pending,   \* its puts that Redis has not executed
    pc,        \* what it is about to do
    request,   \* the route it was asked for
    reply,     \* what it was answered last
    calls,
    answered,  \* history: all the backend has answered
    missed,    \* history: the keys an engine asked the backend for, since a get
               \* of its failed, but those whose put Redis rejected
    forced     \* history: the latest version a forced update returned, by key

engines == <<engine, pending, pc, request, reply, calls>>
history == <<answered, missed, forced>>
vars == <<version, cache, engines, history>>

----------------------------------------------------------------------------
(* DefaultRedisSerializer                                                  *)

\* Fault: the way back has the key of the way there.
KeyOfSet(q) == <<{q.from, q.to}, q.settings>>

\* serializeKey
Key(q) == <<q.from, q.to, q.settings>>

Magnitude[n \in Nat] ==
    IF n < 10^Precision THEN 1 ELSE 10 * Magnitude[n \div 10]

\* An ostream prints a double with so many significant digits, rounded.
Printed(n) == LET m == Magnitude[n] IN ((n + m \div 2) \div m) * m

serialized(details) == [details EXCEPT !.distance = Printed(@)]

----------------------------------------------------------------------------
Init ==
    /\ version = 1
    /\ cache = [k \in {} |-> None]
    /\ engine = [e \in Engines |-> None]
    /\ pending = [e \in Engines |-> <<>>]
    /\ pc = [e \in Engines |-> "idle"]
    /\ request = [e \in Engines |-> None]
    /\ reply = [e \in Engines |-> None]
    /\ calls = 0
    /\ answered = {}
    /\ missed = [e \in Engines |-> {}]
    /\ forced = [k \in {} |-> 0]

\* createCacheWrappedEngine
CreateEngine(e) ==
    /\ engine[e] = None
    /\ \E s \in Settings, force \in BOOLEAN :
           engine' = [engine EXCEPT ![e] = [settings |-> s, force_update |-> force]]
    /\ missed' = [missed EXCEPT ![e] = {}]
    /\ UNCHANGED <<version, cache, pending, pc, request, reply, calls, answered, forced>>

\* The connection is closed; commands on their way are executed or lost.
DestroyEngine(e) ==
    /\ engine[e] # None
    /\ pc[e] = "idle"
    /\ MayFail \/ pending[e] = <<>>
    /\ engine' = [engine EXCEPT ![e] = None]
    /\ pending' = [pending EXCEPT ![e] = <<>>]
    /\ request' = [request EXCEPT ![e] = None]
    /\ reply' = [reply EXCEPT ![e] = None]
    /\ UNCHANGED <<version, cache, pc, calls, history>>

----------------------------------------------------------------------------
(* retrieveSingleRouteDetails                                              *)

Goto(e, from, to) == pc[e] = from /\ pc' = [pc EXCEPT ![e] = to]

\* Entries, with one of them set.
With(f, k, v) == [l \in DOMAIN f \union {k} |-> IF l = k THEN v ELSE f[l]]

\* The version that a call that begins now may rely on.
Promised(k) == IF k \in DOMAIN forced THEN forced[k] ELSE 0

Finish(e, from, r) ==
    /\ Goto(e, from, "idle")
    /\ reply' = [reply EXCEPT ![e] = r]

Zero(q) == [from |-> q.from, to |-> q.to, settings |-> q.settings,
            version |-> 0, distance |-> 0]

Backend(q) == [Zero(q) EXCEPT !.version = version, !.distance = Distances[version]]

\* The cache is not asked for the way from a location to itself.
getSingleRouteDetails(e) ==
    /\ engine[e] # None
    /\ calls < MaxCalls
    /\ calls' = calls + 1
    /\ \E a, b \in Locations :
           LET key == Key([from |-> a, to |-> b, settings |-> engine[e].settings])
               q == [from |-> a, to |-> b, settings |-> engine[e].settings,
                     promised |-> Promised(key)]
           IN
           /\ request' = [request EXCEPT ![e] = q]
           /\ IF a = b THEN Finish(e, "idle", Zero(q))
              ELSE Goto(e, "idle", "get") /\ reply' = [reply EXCEPT ![e] = None]
    /\ UNCHANGED <<version, cache, engine, pending, history>>

\* The reply to a get comes after the replies to the puts before it.
Hit(e) ==
    /\ pc[e] = "get"
    /\ pending[e] = <<>>
    /\ Key(request[e]) \in DOMAIN cache
    /\ ~engine[e].force_update
    /\ Finish(e, "get", cache[Key(request[e])])
    /\ UNCHANGED <<version, cache, engine, pending, request, calls, history>>

\* Fault: gets are sent on a connection of their own.
MissUnordered(e) ==
    /\ pc[e] = "get"
    /\ \/ Key(request[e]) \notin DOMAIN cache
       \/ engine[e].force_update
    /\ Goto(e, "get", "backend")
    /\ UNCHANGED <<version, cache, engine, pending, request, reply, calls, history>>

Miss(e) ==
    /\ pc[e] = "get"
    /\ pending[e] = <<>>
    /\ \/ Key(request[e]) \notin DOMAIN cache
       \/ engine[e].force_update
    /\ Goto(e, "get", "backend")
    /\ UNCHANGED <<version, cache, engine, pending, request, reply, calls, history>>

\* An error counts as a miss; commands on their way are lost with the connection.
GetFails(e) ==
    /\ MayFail
    /\ Goto(e, "get", "backend")
    /\ pending' = [pending EXCEPT ![e] = <<>>]
    /\ missed' = [missed EXCEPT ![e] = {}]
    /\ UNCHANGED <<version, cache, engine, request, reply, calls, answered, forced>>

AskBackend(e) ==
    /\ Goto(e, "backend", "put")
    /\ reply' = [reply EXCEPT ![e] = Backend(request[e])]
    /\ answered' = answered \union {Backend(request[e])}
    /\ missed' = [missed EXCEPT ![e] = @ \union {Key(request[e])}]
    /\ UNCHANGED <<version, cache, engine, pending, request, calls, forced>>

BackendThrows(e) ==
    /\ MayFail
    /\ Finish(e, "backend", None)
    /\ UNCHANGED <<version, cache, engine, pending, request, calls, history>>

\* The call returns when the put is sent.
Put(e) ==
    LET k == Key(request[e]) IN
    /\ Goto(e, "put", "idle")
    /\ pending' = [pending EXCEPT ![e] = Append(@, <<k, serialized(reply[e])>>)]
    /\ forced' = IF engine[e].force_update
                   THEN With(forced, k, Max({reply[e].version, Promised(k)}))
                   ELSE forced
    /\ UNCHANGED <<version, cache, engine, request, reply, calls, answered, missed>>

----------------------------------------------------------------------------
(* Redis and the world                                                     *)

Execute(e) ==
    /\ pending[e] # <<>>
    /\ cache' = With(cache, Head(pending[e])[1], Head(pending[e])[2])
    /\ pending' = [pending EXCEPT ![e] = Tail(@)]
    /\ UNCHANGED <<version, engine, pc, request, reply, calls, history>>

\* Redis answers a put with an error: it is logged, and the connection stays.
Reject(e) ==
    /\ MayFail
    /\ pending[e] # <<>>
    /\ pending' = [pending EXCEPT ![e] = Tail(@)]
    /\ missed' = [missed EXCEPT ![e] = @ \ {Head(pending[e])[1]}]
    /\ UNCHANGED <<version, cache, engine, pc, request, reply, calls, answered, forced>>

RoutesChange ==
    /\ version < Len(Distances)
    /\ version' = version + 1
    /\ UNCHANGED <<cache, engines, history>>

----------------------------------------------------------------------------
Next ==
    \/ RoutesChange
    \/ \E e \in Engines :
           \/ CreateEngine(e) \/ DestroyEngine(e) \/ getSingleRouteDetails(e)
           \/ Hit(e) \/ Miss(e) \/ GetFails(e)
           \/ AskBackend(e) \/ BackendThrows(e) \/ Put(e) \/ Execute(e) \/ Reject(e)

Spec == Init /\ [][Next]_vars

----------------------------------------------------------------------------
(* Properties                                                              *)

\* Whatever fails, and whoever shares the cache, a route is an answer the backend
\* gave for these locations and settings, as it was or as it was printed.
RoutesOfTheBackend ==
    \A e \in Engines :
        (pc[e] = "idle" /\ reply[e] # None) =>
            \/ request[e].from = request[e].to /\ reply[e] = Zero(request[e])
            \/ \E a \in answered :
                   /\ a.from = request[e].from
                   /\ a.to = request[e].to
                   /\ a.settings = request[e].settings
                   /\ reply[e] \in {a, serialized(a)}

\* An engine that updates nothing by force asks the backend for a route once, as
\* long as its gets do not fail and Redis does not reject what it has put: a put that
\* nobody waits for is executed before the next get on its connection
\* ("OnlyMissingRoutesAreRequestedAtBackend", RedisRouteProviderEngineTest.cpp:153).
OnlyMissingAsked ==
    \A e \in Engines :
        (pc[e] = "backend" /\ ~engine[e].force_update) =>
            Key(request[e]) \notin missed[e]

\* "CacheIsUpdatedOnForceUpdate", says a test (RedisRouteProviderEngineTest.cpp:122):
\* a call that begins when a forced update has returned gets no older route.
UpdatedOnForceUpdate ==
    \A e \in Engines :
        (pc[e] = "idle" /\ reply[e] # None /\ request[e].from # request[e].to) =>
            reply[e].version >= request[e].promised

\* "SameResultIsReturnedForRepeatedCallsOnDifferentBackendResponses", says a test
\* (RedisRouteProviderEngineTest.cpp:86): what is found is what was answered.
SameResultReturned ==
    \A e \in Engines :
        (pc[e] = "idle" /\ reply[e] # None /\ request[e].from # request[e].to) =>
            reply[e] \in answered

=============================================================================
