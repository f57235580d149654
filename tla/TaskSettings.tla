---------------------------- MODULE TaskSettings ----------------------------
(***************************************************************************)
(* What a client asks of the service, on its way through the processes: a  *)
(* TSP task (client, server, store, worker), a waybill to schedule (client,*)
(* scheduler) or a route (client alone), and then the request for routes   *)
(* that the worker, the scheduler or the client sends to the router, which *)
(* makes a route provider of it.  Every hop is a message of proto3, where  *)
(* an enumeration is a number, any number, and 0 when it is left out; the  *)
(* translators make API values of them and back.                           *)
(*                                                                         *)
(* Points, speeds, allocations and the cost per kilometre are left out,    *)
(* for they are copied.  A client in C++ says it with the API and its      *)
(* translators, any other client sends the message it wants.               *)
(***************************************************************************)
EXTENDS Integers, Sequences, SequencesExt

CONSTANTS
    Numbers   \* bound: what a message of another client has for an enumeration

NumbersAssumption == Numbers \subseteq Nat

VARIABLES
    application,   \* "tsp", "scheduler" or "router", what the client uses
    pc,            \* "client", "sent", "planned", "asked", "routed",
                   \* "refused" (the client's call throws), "error" (the server's)
    meant,         \* <<settings>> of a client that uses the API
    task,          \* <<message>> as it is sent and stored
    plan,          \* <<settings>> as the worker, the scheduler or the client has them
    algorithm,     \* the algorithm the worker makes
    request,       \* <<message>> to the router
    provider       \* <<the route provider>> of the router

vars == <<application, pc, meant, task, plan, algorithm, request, provider>>

----------------------------------------------------------------------------
(* The enumerations of the messages: the API's name of the number n at     *)
(* n + 1.  Two numbers with one name are UNSPECIFIED and the default.      *)

Engines == <<"EUCLIDEAN", "RANDOM", "CROWFLIGHT", "OSRM">>
Geometries == <<"SIMPLIFIED", "FULL", "STRAIGHT_LINE">>
Algorithms == <<"AUTO", "AUTO", "TWO_OPT", "TIME_WASTING">>
CostFunctions == <<"DEFAULT", "DEFAULT", "TOTAL_DISTANCE">>
Validators == <<"DEFAULT", "DEFAULT", "FAIL_ON_ANY_VIOLATION">>

invalid_argument == "invalid_argument"   \* std::invalid_argument, of either way

FromProto(names, n) == IF n + 1 \in DOMAIN names THEN names[n + 1] ELSE invalid_argument

\* The last number of the name, for UNSPECIFIED is never written; -1: it throws.
ToProto(names, name) == SelectLastInSeq(names, LAMBDA x : x = name) - 1

----------------------------------------------------------------------------
(* RouteProviderSettings and the engine's type.  A message may do without  *)
(* osrm_settings, and then the default of the API is kept.                 *)

\* What is a settings object of the API; UNKNOWN and UNSPECIFIED are in the
\* API's enumerations only.
RoutingSettings ==
    [engine : ToSet(Engines) \cup {"UNKNOWN"},
     geometry : ToSet(Geometries) \cup {"UNSPECIFIED"},
     force_update : BOOLEAN, retrieve_waypoints : BOOLEAN]

RoutingMessages ==
    [engine : Numbers, osrm : {<<>>} \cup {<<n>> : n \in Numbers},
     force_update : BOOLEAN, retrieve_waypoints : BOOLEAN]

\* Fault: the geometry of a message without osrm_settings is its 0.
RoutingFromProtoUnasked(m) ==
    [engine |-> FromProto(Engines, m.engine),
     geometry |-> FromProto(Geometries, IF m.osrm = <<>> THEN 0 ELSE m.osrm[1]),
     force_update |-> m.force_update, retrieve_waypoints |-> m.retrieve_waypoints]

RoutingFromProto(m) ==
    [engine |-> FromProto(Engines, m.engine),
     geometry |-> IF m.osrm = <<>> THEN "STRAIGHT_LINE" ELSE FromProto(Geometries, m.osrm[1]),
     force_update |-> m.force_update, retrieve_waypoints |-> m.retrieve_waypoints]

RoutingToProto(s) ==
    [engine |-> ToProto(Engines, s.engine),
     osrm |-> <<ToProto(Geometries, s.geometry)>>,
     force_update |-> s.force_update, retrieve_waypoints |-> s.retrieve_waypoints]

----------------------------------------------------------------------------
(* The rest of TspSolverSettings.                                          *)

SolverSettings ==
    [algorithm : ToSet(Algorithms), cost_function : ToSet(CostFunctions),
     validator : ToSet(Validators)]

SolverMessages ==
    [algorithm : Numbers, cost_function : Numbers, validator : Numbers]

SolverFromProto(m) ==
    [algorithm |-> FromProto(Algorithms, m.algorithm),
     cost_function |-> FromProto(CostFunctions, m.cost_function),
     validator |-> FromProto(Validators, m.validator)]

SolverToProto(s) ==
    [algorithm |-> ToProto(Algorithms, s.algorithm),
     cost_function |-> ToProto(CostFunctions, s.cost_function),
     validator |-> ToProto(Validators, s.validator)]

\* createAlgorithm
createAlgorithm(type) ==
    IF type = "TIME_WASTING" THEN "TimeWastingTspAlgorithm" ELSE "TwoOptTspAlgorithm"

----------------------------------------------------------------------------
(* A task is routing settings, and of a TSP task solver settings as well.  *)

Solvers(set) == IF application = "tsp" THEN {<<s>> : s \in set} ELSE {<<>>}

Written(s) == [routing |-> RoutingToProto(s.routing),
               solver |-> [k \in DOMAIN s.solver |-> SolverToProto(s.solver[k])]]

Read(m) == [routing |-> RoutingFromProto(m.routing),
            solver |-> [k \in DOMAIN m.solver |-> SolverFromProto(m.solver[k])]]

CanWrite(routing) == -1 \notin {ToProto(Engines, routing.engine), ToProto(Geometries, routing.geometry)}

CanRead(m) ==
    /\ invalid_argument \notin {RoutingFromProto(m.routing).engine, RoutingFromProto(m.routing).geometry}
    /\ \A k \in DOMAIN m.solver : LET s == SolverFromProto(m.solver[k]) IN
        invalid_argument \notin {s.algorithm, s.cost_function, s.validator}

Init ==
    /\ application \in {"tsp", "scheduler", "router"}
    /\ pc = "client"
    /\ meant = <<>> /\ task = <<>> /\ plan = <<>> /\ algorithm = "none"
    /\ request = <<>> /\ provider = <<>>

----------------------------------------------------------------------------
(* A C++ client writes the message itself, and throws if it cannot; the    *)
(* router's client has no message before the request for a route.          *)
Mean(r, s) ==
    /\ meant' = <<[routing |-> r, solver |-> s]>>
    /\ IF application = "router"
       THEN pc' = "planned" /\ plan' = meant' /\ UNCHANGED task
       ELSE IF CanWrite(r)
            THEN pc' = "sent" /\ task' = <<Written(meant'[1])>> /\ UNCHANGED plan
            ELSE pc' = "refused" /\ UNCHANGED <<task, plan>>
    /\ UNCHANGED <<application, algorithm, request, provider>>

\* Another client's task, which the TSP server stores without reading it.
SendTask(r, s) ==
    /\ application # "router"
    /\ pc' = "sent"
    /\ task' = <<[routing |-> r, solver |-> s]>>
    /\ UNCHANGED <<application, meant, plan, algorithm, request, provider>>

\* Another client's request for a route.
SendRequest(r) ==
    /\ application = "router"
    /\ pc' = "asked"
    /\ request' = <<r>>
    /\ UNCHANGED <<application, meant, task, plan, algorithm, provider>>

\* RedisTaskProvider::retrieveTask and solveTsp, or ScheduleWaybill: the
\* translators throw, or the session is made, with its algorithm.
RetrieveTask ==
    /\ pc = "sent"
    /\ IF CanRead(task[1])
       THEN /\ pc' = "planned"
            /\ plan' = <<Read(task[1])>>
            /\ algorithm' = IF application = "tsp"
                            THEN createAlgorithm(plan'[1].solver[1].algorithm) ELSE "none"
       ELSE pc' = "error" /\ UNCHANGED <<plan, algorithm>>
    /\ UNCHANGED <<application, meant, task, request, provider>>

\* GrpcRouteProviderEngine, for details of a route (the full matrix of the
\* worker, getRouteDetails) or for its summary (the scheduler, getRouteInfo).
AskForRoute(summary) ==
    /\ pc = "planned"
    /\ application = "tsp" => ~summary
    /\ application = "scheduler" => summary
    /\ LET r == plan[1].routing IN
        IF CanWrite(r)
        THEN /\ pc' = "asked"
             /\ request' = <<[RoutingToProto(r) EXCEPT !.retrieve_waypoints = @ /\ ~summary]>>
        ELSE pc' = "refused" /\ UNCHANGED request
    /\ UNCHANGED <<application, meant, task, plan, algorithm, provider>>

\* Fault: the geometry asked for is used for a route without waypoints, too.
createEngineUnasked(s) ==
    [engine |-> s.engine,
     geometry |-> IF s.engine = "OSRM" THEN s.geometry ELSE "none",
     force_update |-> s.force_update]

\* createEngine, behind the cache
createEngine(s) ==
    [engine |-> s.engine,
     geometry |-> IF s.engine # "OSRM" THEN "none"
                  ELSE IF s.retrieve_waypoints THEN s.geometry ELSE "STRAIGHT_LINE",
     force_update |-> s.force_update]

\* RouterService::GetSingleRoute
GetSingleRoute ==
    /\ pc = "asked"
    /\ IF CanRead([routing |-> request[1], solver |-> <<>>])
       THEN pc' = "routed" /\ provider' = <<createEngine(RoutingFromProto(request[1]))>>
       ELSE pc' = "error" /\ UNCHANGED provider
    /\ UNCHANGED <<application, meant, task, plan, algorithm, request>>

Next ==
    \/ pc = "client" /\ \E r \in RoutingSettings, s \in Solvers(SolverSettings) : Mean(r, s)
    \/ pc = "client" /\ \E r \in RoutingMessages, s \in Solvers(SolverMessages) : SendTask(r, s)
    \/ pc = "client" /\ \E r \in RoutingMessages : SendRequest(r)
    \/ RetrieveTask
    \/ \E summary \in BOOLEAN : AskForRoute(summary)
    \/ GetSingleRoute

Spec == Init /\ [][Next]_vars

----------------------------------------------------------------------------
(* What a client meant, which is what became of it, is said without the    *)
(* numbers.                                                                *)

\* What is meant arrives: the router uses the engine the client named, with
\* the geometry it named when waypoints are wanted, and updates its cache if
\* the client wanted it; the worker has the algorithm, cost function and
\* validator the client named.  Two translations and one change of waypoints
\* are on the way.
SettingsArrive ==
    meant # <<>> =>
        /\ provider # <<>> =>
            /\ provider[1].engine = meant[1].routing.engine
            /\ provider[1].force_update = meant[1].routing.force_update
            /\ provider[1].engine = "OSRM" =>
                  provider[1].geometry = IF request[1].retrieve_waypoints
                                         THEN meant[1].routing.geometry ELSE "STRAIGHT_LINE"
        /\ plan # <<>> => plan[1].solver = meant[1].solver

\* A worker or scheduler asks the router for exactly what it was asked for,
\* by any client: the numbers are those of the task, though they were
\* translated twice, and a geometry left out is a straight line.
RequestOfTheTask ==
    request # <<>> /\ task # <<>> =>
        LET t == task[1].routing IN
        /\ request[1].engine = t.engine
        /\ request[1].osrm = IF t.osrm = <<>> THEN <<2>> ELSE t.osrm
        /\ request[1].force_update = t.force_update
        /\ request[1].retrieve_waypoints => t.retrieve_waypoints

=============================================================================
