-------------------------- MODULE ScheduleWaybill ---------------------------
(***************************************************************************)
(* A waybill scheduled by the scheduler server: what the algorithms of     *)
(* WaybillScheduling make of it when the waybill, and every route between  *)
(* its allocations, has crossed the wire, where a time has 32 bits.        *)
(*                                                                         *)
(* The client may have set any algorithm, another client even one that the *)
(* server does not know.  The server may hang, for it calls the router     *)
(* without a deadline; the client gives it 60 seconds.                     *)
(***************************************************************************)
EXTENDS Integers, Sequences

CONSTANTS
    Waybills,         \* as in WaybillScheduling
    Durations,        \* durations of the routes the router finds
    Starts,
    InfiniteInterval,
    Forever,
    Half              \* 2^31: the wire has the integers from -Half to Half - 1

WireAssumption ==
    /\ Half \in Nat \ {0}
    /\ Durations \subseteq 0..(Half - 1)
    /\ InfiniteInterval >= Half

VARIABLES
    call,      \* the client: "calling", "waiting", "returned" or "thrown"
    mine,      \* the client's waybill
    sent,      \* history: as it was when the client called
    asked,     \* the algorithm asked for
    request,   \* the waybill on its way to the server, as of the last call
    handler,   \* the server: "idle", "scheduling", "ok" or "error"
    algorithm, waybill, shift_start, i, current_time, shift_budget

server == <<algorithm, waybill, shift_start, i, current_time, shift_budget>>
vars == <<call, mine, sent, asked, request, handler, server>>

----------------------------------------------------------------------------
(* The translators.                                                        *)

\* An int64 assigned to an int32 field.
toInt32(t) == ((t + Half) % (2 * Half)) - Half

windowToProto(w) == [start |-> toInt32(w.start), end |-> toInt32(w.end)]

allocationToProto(a) ==
    [a EXCEPT !.start = toInt32(@), !.end = toInt32(@), !.next = toInt32(@),
              !.planned = toInt32(@),
              !.windows = [k \in 1..Len(@) |-> windowToProto(@[k])]]

waybillToProto(w) == [j \in 1..Len(w) |-> allocationToProto(w[j])]

\* DirectRequestDistanceMatrixEngine of the scheduler: the duration that the router
\* sent, infinity if the router's own provider failed, or infinity of its own when
\* the call of the router failed.
RoutesReceived ==
    {toInt32(d) : d \in Durations \union {InfiniteInterval}} \union {InfiniteInterval}

Engine == INSTANCE WaybillScheduling WITH Durations <- RoutesReceived

AlgorithmTypes == {"AUTO", "LINEAR", "BILINEAR"}

----------------------------------------------------------------------------
Init ==
    /\ call = "calling"
    /\ mine \in Waybills
    /\ asked \in AlgorithmTypes \union {"unknown"}
    /\ sent = <<>>
    /\ request = <<>>
    /\ handler = "idle"
    /\ algorithm = "LINEAR" /\ waybill = <<>> /\ shift_start \in Starts
    /\ i = 1 /\ current_time = 0 /\ shift_budget = 0

\* RemoteWaybillSchedulingAlgorithm: the client sends its waybill.
scheduleWaybill ==
    /\ call = "calling"
    /\ call' = "waiting"
    /\ sent' = mine
    /\ request' = waybillToProto(mine)
    /\ UNCHANGED <<mine, asked, handler, server>>

\* EngineWaybillSchedulerFactory, and what the algorithm starts with.
createWaybillScheduler ==
    /\ call # "calling" /\ handler = "idle"
    /\ asked \in AlgorithmTypes
    /\ handler' = "scheduling"
    /\ algorithm' = IF asked = "AUTO" THEN "BILINEAR" ELSE asked
    /\ waybill' = request
    /\ i' = 1
    /\ current_time' = shift_start
    /\ shift_budget' = InfiniteInterval
    /\ UNCHANGED <<call, mine, sent, asked, request, shift_start>>

\* The algorithm is unknown: the response is cleared.
HandlerThrows ==
    /\ call # "calling" /\ handler = "idle"
    /\ asked \notin AlgorithmTypes
    /\ handler' = "error"
    /\ UNCHANGED <<call, mine, sent, asked, request, server>>

\* An allocation is scheduled; it does not matter to the server who still waits.
Schedule ==
    /\ handler = "scheduling"
    /\ Engine!Next
    /\ UNCHANGED <<call, mine, sent, asked, request, handler>>

\* Fault: the response is written before the last allocation is scheduled.
HandlerReturnsEarly ==
    /\ handler = "scheduling"
    /\ i >= Len(waybill)
    /\ handler' = "ok"
    /\ UNCHANGED <<call, mine, sent, asked, request, server>>

HandlerReturns ==
    /\ handler = "scheduling"
    /\ ~Engine!InLoop(waybill)
    /\ handler' = "ok"
    /\ UNCHANGED <<call, mine, sent, asked, request, server>>

\* The waybill of the response takes the place of the client's.
Return ==
    /\ call = "waiting" /\ handler = "ok"
    /\ mine' = waybillToProto(waybill)
    /\ call' = "returned"
    /\ UNCHANGED <<sent, asked, request, handler, server>>

\* An error of the server or of the connection, or the deadline has passed: the
\* client's waybill stays.
Throw ==
    /\ call = "waiting"
    /\ call' = "thrown"
    /\ UNCHANGED <<mine, sent, asked, request, handler, server>>

Next ==
    \/ scheduleWaybill
    \/ createWaybillScheduler \/ HandlerThrows \/ Schedule \/ HandlerReturns
    \/ Return \/ Throw

Spec == Init /\ [][Next]_vars

----------------------------------------------------------------------------
\* What the wire holds of it comes through.
Fits(w) == waybillToProto(w) = w

\* What a client gets that sent a waybill the wire can hold, and whose routes and
\* times it can hold: the waybill it sent, scheduled so that it can be driven, and by
\* the algorithm it asked for.
ComesBackScheduled ==
    (call = "returned" /\ Fits(sent) /\ Fits(waybill)
        /\ \A j \in 1..Len(waybill) : waybill[j].next >= 0) =>
        /\ Len(mine) = Len(sent)
        /\ \A j \in 1..Len(mine) :
            LET tw == Engine!getNearestNextTimeWindow(mine[j]) IN
            /\ mine[j].windows = sent[j].windows
            /\ mine[j].planned = sent[j].planned
            /\ mine[j].end = mine[j].start + mine[j].planned
            /\ mine[j].start >= Engine!max(shift_start, tw.start)
            /\ j > 1 => mine[j].start >= mine[j - 1].end + mine[j - 1].next
            /\ asked # "LINEAR" /\ j > 1
                 /\ mine[j].start > mine[j - 1].end + mine[j - 1].next =>
                    \E k \in 1..(j - 1) :
                        mine[k].end >= Engine!getNearestNextTimeWindow(mine[k]).end

\* A route that failed is infinite: "ReturnsInfinityOnErrorWithDefaultErrorPolicy", a
\* test says of the engine the server uses (DirectRequestDistanceMatrixEngineTest.cpp:96).
FailedRoutesAreInfinite ==
    call = "returned" =>
        \A j \in 1..Len(mine) :
            mine[j].next \in Durations \union {0} \/ mine[j].next >= InfiniteInterval

=============================================================================
