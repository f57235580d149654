----------------------------- MODULE MCProgress ------------------------------
(***************************************************************************)
(* What somebody waits for, on small instances: the status updates of a    *)
(* task, the replies to a stream of requests for routes, and the answers   *)
(* of a distance matrix of either kind.  The parts share no state, but for *)
(* the questions and answers of the two matrices; part is the one a        *)
(* behaviour is about, and the variables of the others rest.               *)
(***************************************************************************)
EXTENDS TspStatusStream

CONSTANTS
    Callers, Locations, ErrorPolicy, NoRequest, NoReply, Nobody, Unroutable,
                                     \* see FullMatrixCache
    Requests, MaxReplies, Window     \* see RoutesStream

VARIABLES
    part,
    \* of RoutesStream
    supplied, writer, up, todo, down, status, reader, asked, read,
    \* of FullMatrixCache and DirectRequestMatrix
    known_locations, known_locations_mapping, is_initialized, cache,
    cache_update_lock, adding, added, stage, ids, pointer, called, request, reply

routesVars == <<supplied, writer, up, todo, down, status, reader, asked, read>>
matrixVars ==
    <<known_locations, known_locations_mapping, is_initialized, cache,
      cache_update_lock, adding, added, stage, ids, pointer>>
progressVars == <<part, vars, routesVars, matrixVars, called, request, reply>>

----------------------------------------------------------------------------
MCLocations == {[lat |-> 1, lon |-> 2], [lat |-> 1, lon |-> -2]}

\* One route may be missing, in one direction.
MCUnroutable == {<<[lat |-> 1, lon |-> 2], [lat |-> 1, lon |-> -2]>>}

Routes == INSTANCE RoutesStream

Matrix == INSTANCE FullMatrixCache WITH AddsWhileReading <- FALSE, pc <- stage

Direct == INSTANCE DirectRequestMatrix

ASSUME StreamAssumption == Routes!StreamAssumption
ASSUME DirectAssumption == Direct!DirectAssumption
ASSUME NobodyAssumption == Nobody \notin Callers

----------------------------------------------------------------------------
ProgressInit ==
    /\ part \in {"updates", "routes", "matrix", "direct"}
    /\ Init /\ Routes!Init /\ Matrix!Init /\ Direct!Init

Updates ==
    part = "updates" /\ UNCHANGED <<part, routesVars, matrixVars, called, request, reply>>
Streamed ==
    part = "routes" /\ UNCHANGED <<part, vars, matrixVars, called, request, reply>>
Cached == part = "matrix" /\ UNCHANGED <<part, vars, routesVars, called>>
Asked == part = "direct" /\ UNCHANGED <<part, vars, routesVars, matrixVars>>

ProgressNext ==
    \/ Updates /\ Next
    \/ Streamed /\ Routes!Next
    \/ Cached /\ Matrix!Next
    \/ Asked /\ Direct!Next

\* The fairness of each part: the calls of the server, the thread and the caller
\* and the handler of a stream, and the callers of a matrix, go on while they can.
ProgressSpec ==
    /\ ProgressInit
    /\ [][ProgressNext]_progressVars
    /\ \A s \in Streams :
        /\ WF_progressVars(Updates /\ StreamStep(s))
        /\ WF_progressVars(Updates /\ SelectUpdate(s))
    /\ WF_progressVars(Streamed /\ Routes!Thread)
    /\ WF_progressVars(Streamed /\ Routes!Handler)
    /\ WF_progressVars(Streamed /\ Routes!Caller)
    /\ \A c \in Callers :
        /\ WF_progressVars(Cached /\ Matrix!Step(c))
        /\ WF_progressVars(Asked /\ Direct!ProviderAnswers(c))

----------------------------------------------------------------------------
\* A call that returns has read the replies to all its requests: see RoutesStream.
AllAnswered == Routes!AllAnswered

\* A call with a stream of requests ends, whatever blocks a Write: see RoutesStream.
StreamedCallEnds == part = "routes" => Routes!CallEnds

\* Both matrices keep the promise of DistanceMatrix, that every question is answered
\* at last included.
ImplementsDistanceMatrix == Matrix!ImplementsDistanceMatrix

=============================================================================
