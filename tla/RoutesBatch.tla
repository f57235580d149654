---------------------------- MODULE RoutesBatch -----------------------------
(***************************************************************************)
(* GrpcRouteProviderEngine and RouterService: a client asks a server for   *)
(* one route, or for the routes between all origins and all destinations.  *)
(* The server streams one reply for each pair; the connection may break at *)
(* any time.  Calls are made one after another.                            *)
(***************************************************************************)
EXTENDS RouterConcepts, FiniteSets, SequencesExt, FiniteSetsExt

CONSTANTS
    Locations,    \* the locations the client asks for
    MaxLength,    \* how many origins and destinations it asks for at most
    Unroutable,   \* pairs of locations the provider may find no route for
    None          \* no call, no handler, no reply, no result or no location

Methods == {"GetSingleRoute", "GetRoutesBatch"}

BatchAssumption ==
    /\ Locations \subseteq Location /\ MaxLength \in Nat
    /\ None \notin [method : Methods, origins : Seq(Locations), destinations : Seq(Locations)]

VARIABLES
    call,      \* what the client asks for: the method, origins, destinations
    request,   \* the message on its way to the server
    handler,   \* the message the server works on
    todo,      \* pairs it has still to reply to
    stream,    \* replies on their way to the client
    status,    \* grpc::Status of the call: "open" until the server returns
    response,  \* the reply the client read last
    result,    \* what the last call returned
    sent       \* history: the pairs replied to in the last call

client == <<call, response, result>>
server == <<handler, todo, sent>>
vars == <<client, server, request, stream, status>>

----------------------------------------------------------------------------
Init ==
    /\ call = None
    /\ request = None
    /\ handler = None
    /\ todo = <<>>
    /\ stream = <<>>
    /\ status = "OK"
    /\ response = None
    /\ result = None
    /\ sent = <<>>

(* The client's request.                                                   *)

keyed(locs) == [i \in DOMAIN locs |-> buildLocationKey(locs[i])]

\* Fault: a location goes into the message each time it occurs.
AllOf(locs) == locs

\* A location goes into the message the first time its key is met.
FirstOfEach(locs) ==
    LET first(i) == \A j \in 1..i - 1 : keyed(locs)[j] # keyed(locs)[i] IN
    FoldLeftDomain(LAMBDA acc, i : IF first(i) THEN Append(acc, locs[i]) ELSE acc,
                   <<>>, locs)

Send(method, origins, destinations) ==
    /\ call = None
    /\ call' = [method |-> method, origins |-> origins, destinations |-> destinations]
    /\ request' = [method |-> method,
                   origins |-> FirstOfEach(origins),
                   destinations |-> FirstOfEach(destinations)]
    /\ status' = "open"
    /\ result' = None
    /\ sent' = <<>>
    /\ UNCHANGED <<handler, todo, stream, response>>

getSingleRouteDetails(a, b) == Send("GetSingleRoute", <<a>>, <<b>>)

getRouteDetailsMatrix(origins, destinations) ==
    Send("GetRoutesBatch", origins, destinations)

----------------------------------------------------------------------------
(* The server.                                                             *)

\* In row-major order.
AllPairs(rows, columns) ==
    FlattenSeq([i \in DOMAIN rows |->
                    [j \in DOMAIN columns |-> <<rows[i], columns[j]>>]])

Receive ==
    /\ request # None
    /\ handler' = request
    /\ request' = None
    /\ todo' = AllPairs(request.origins, request.destinations)
    /\ UNCHANGED <<client, sent, stream, status>>

\* No distance matrix can be created: the cache in Redis cannot be reached.
HandlerThrows ==
    /\ handler # None
    /\ todo = AllPairs(handler.origins, handler.destinations)
    /\ handler' = None
    /\ todo' = <<>>
    /\ status' = "UNKNOWN"
    /\ UNCHANGED <<client, sent, request, stream>>

\* FULL_MATRIX_PRECACHING finds locations by encodeLocation: the first one that
\* was added with a key stands for every location with this key.
InMatrix(loc) ==
    LET added == handler.origins \o handler.destinations
        same == {i \in DOMAIN added : encodeLocation(added[i]) = encodeLocation(loc)}
    IN
    added[Min(same)]

\* With NO_CACHING the provider is asked, for the route from a to a as well.  The
\* error policy is the default one: a route that is missing is an infinite one.
DirectAnswers(a, b) ==
    {route(a, b)}
        \union {zero(a, b) : same \in {a} \intersect {b}}
        \union {processError("ON_ERROR_RETURN_INFINITY", p[1], p[2]) :
                    p \in Unroutable \intersect {<<a, b>>}}

FullMatrixAnswers(a, b) ==
    LET m == InMatrix(a)
        n == InMatrix(b)
    IN
    IF m = n THEN {zero(m, n)} ELSE DirectAnswers(m, n)

OK(a, b, details) == [origin |-> a, destination |-> b, details |-> details]

SameLocation(a, b) == a = b

WriteRoute ==
    /\ handler # None
    /\ todo # <<>>
    /\ LET a == Head(todo)[1]
           b == Head(todo)[2]
           reply(answers) ==
               \E details \in answers :
                   /\ stream' = Append(stream, OK(a, b, details))
                   /\ sent' = Append(sent, <<a, b>>)
       IN
       CASE handler.method = "GetSingleRoute" -> reply(DirectAnswers(a, b))
         [] handler.method = "GetRoutesBatch" ->
                IF SameLocation(a, b) THEN UNCHANGED <<stream, sent>>
                                      ELSE reply(FullMatrixAnswers(a, b))
    /\ todo' = Tail(todo)
    /\ UNCHANGED <<client, handler, request, status>>

HandlerReturns ==
    /\ handler # None
    /\ todo = <<>>
    /\ handler' = None
    /\ status' = "OK"
    /\ UNCHANGED <<client, todo, sent, request, stream>>

\* Replies that have not arrived are lost.  What the handler goes on to do nobody
\* sees: it ends here.
ConnectionBreaks ==
    /\ status = "open"
    /\ status' = "UNAVAILABLE"
    /\ request' = None
    /\ handler' = None
    /\ todo' = <<>>
    /\ \E n \in 0..Len(stream) : stream' = SubSeq(stream, 1, n)
    /\ UNCHANGED <<client, sent>>

----------------------------------------------------------------------------
(* The client reads replies until the stream ends.                         *)

\* response.CopyFrom(reply): the reply before it is gone.
Read ==
    /\ stream # <<>>
    /\ response' = Head(stream)
    /\ stream' = Tail(stream)
    /\ UNCHANGED <<call, result, server, request, status>>

\* origins_mapping and destinations_mapping.
Positions(locs, loc) == {i \in DOMAIN locs : keyed(locs)[i] = buildLocationKey(loc)}

\* The way to a location that lies past the end of the origins, in the call's place j.
Past == [DOMAIN call.destinations \ DOMAIN call.origins -> Locations \union {None}]

\* The missing way of row i and column j: the matrix is made of origins[i] and
\* origins[j], and what lies past the last origin is read as if it were one.
Missing(i, j, past) ==
    infinity(call.origins[i], IF j \in DOMAIN past THEN past[j] ELSE call.origins[j])

\* Fault: row and column are swapped.
FillTransposed(reply, past) ==
    LET rows == Positions(call.origins, reply.origin)
        columns == Positions(call.destinations, reply.destination)
    IN
    [i \in DOMAIN call.origins |-> [j \in DOMAIN call.destinations |->
        IF ~(j \in rows /\ i \in columns) THEN Missing(i, j, past)
        ELSE IF i = j THEN zero(reply.origin, reply.destination)
                      ELSE reply.details]]

\* Each entry is missing but those the reply is for.
Fill(reply, past) ==
    LET rows == Positions(call.origins, reply.origin)
        columns == Positions(call.destinations, reply.destination)
    IN
    [i \in DOMAIN call.origins |-> [j \in DOMAIN call.destinations |->
        IF ~(i \in rows /\ j \in columns) THEN Missing(i, j, past)
        ELSE IF i = j THEN zero(reply.origin, reply.destination)
                      ELSE reply.details]]

Return(ending, routes) ==
    /\ result' = [call |-> call, ending |-> ending, routes |-> routes]
    /\ call' = None
    /\ response' = None
    /\ UNCHANGED <<server, request, stream, status>>

\* The status is not OK, or no reply came, whose status would be OK.
Throw ==
    /\ call # None
    /\ status # "open"
    /\ stream = <<>>
    /\ status # "OK" \/ response = None
    /\ Return("thrown", <<>>)

ReturnRoutes ==
    /\ call # None
    /\ status = "OK"
    /\ stream = <<>>
    /\ response # None
    /\ \/ /\ call.method = "GetSingleRoute"
          /\ Return("returned", <<<<response.details>>>>)
       \/ /\ call.method = "GetRoutesBatch"
          /\ \E past \in Past : Return("returned", Fill(response, past))
       \/ /\ call.method = "GetRoutesBatch"    \* what is read past the end may be none
          /\ Len(call.destinations) > Len(call.origins)
          /\ Return("crashed", <<>>)

----------------------------------------------------------------------------
Lists == UNION {[1..n -> Locations] : n \in 0..MaxLength}

Call ==
    \/ \E a, b \in Locations : getSingleRouteDetails(a, b)
    \/ \E rows, columns \in Lists : getRouteDetailsMatrix(rows, columns)

Serve == Receive \/ WriteRoute \/ HandlerReturns

Consume == Read \/ Throw \/ ReturnRoutes

Next == Call \/ Serve \/ HandlerThrows \/ ConnectionBreaks \/ Consume

Spec == Init /\ [][Next]_vars

----------------------------------------------------------------------------
(* Properties                                                              *)

\* The client leaves repeated locations out and the server leaves out pairs of the
\* same location: if it returns OK, it has replied to every other pair of the
\* lists it was asked for, and to none twice.
EveryPairRepliedToOnce ==
    (call # None /\ status = "OK" /\ call.method = "GetRoutesBatch") =>
        /\ IsInjective(sent)
        /\ ToSet(sent) = {p \in ToSet(call.origins) \X ToSet(call.destinations) :
                              p[1] # p[2]}

\* Whichever reply the client reads last, and however the lists repeat locations, a
\* route that a call returns leads from a location of the call that the matrix takes
\* for the origin of its row to one it takes for the destination of its column.  Off
\* the diagonal a way is zero only if the matrix takes the two for the same.
RoutesInPlace ==
    result # None =>
        LET from == result.call.origins
            to == result.call.destinations
            asked == ToSet(from) \union ToSet(to)
            taken(a, b) == a \in asked /\ encodeLocation(a) = encodeLocation(b)
        IN
        \A i \in DOMAIN result.routes : \A j \in DOMAIN result.routes[i] :
            LET r == result.routes[i][j] IN
            /\ r.kind = "route" => taken(r.from, from[i]) /\ taken(r.to, to[j])
            /\ r.kind = "zero" => i = j \/ encodeLocation(from[i]) = encodeLocation(to[j])

\* "RouteDetails::infinity(origins[i], origins[j])" (GrpcRouteProviderEngine.cpp:170) is
\* meant to say, as with every other engine, that the way of this pair is missing.
MissingOfItsPair ==
    result # None =>
        \A i \in DOMAIN result.routes : \A j \in DOMAIN result.routes[i] :
            result.routes[i][j].kind = "infinity" =>
                result.routes[i][j]
                    = infinity(result.call.origins[i], result.call.destinations[j])

\* "EXPECT_EQ(result.at(r, c).getDuration().toSeconds(), seconds[r][c]);", off the
\* diagonal, says GrpcRouteProviderEngineTest.cpp:196 of a call that returns.
EveryRouteReturned ==
    result # None =>
        \A i \in DOMAIN result.routes : \A j \in DOMAIN result.routes[i] :
            <<result.call.origins[i], result.call.destinations[j]>> \in Unroutable
                \/ result.routes[i][j].kind # "infinity"
                \/ result.call.origins[i] = result.call.destinations[j]

\* "100s must be ignored as they represent self-self route (0 must be returned by
\* engine)", says a comment (GrpcRouteProviderEngineTest.cpp:175).
ZeroForSelfOnly ==
    result # None =>
        \A i \in DOMAIN result.routes : \A j \in DOMAIN result.routes[i] :
            result.routes[i][j].kind = "zero" =>
                result.call.origins[i] = result.call.destinations[j]

=============================================================================
