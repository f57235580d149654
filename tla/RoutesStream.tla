---------------------------- MODULE RoutesStream ----------------------------
(***************************************************************************)
(* GrpcProtobufClient::getRoutesBatch with a supplier of requests, and     *)
(* RouterService::GetStreamingRoutesBatch.  A thread of its own writes the *)
(* requests while the caller reads the replies; the server reads the next  *)
(* request when it has written all replies to the one before.  Flow        *)
(* control blocks a Write when too much is on its way.                     *)
(***************************************************************************)
EXTENDS Naturals, Sequences

CONSTANTS
    Requests,    \* how many requests the supplier has
    MaxReplies,  \* how many replies a request has at most
    Window       \* how many messages are on their way at most, in each direction

StreamAssumption == Requests \in Nat /\ MaxReplies \in Nat /\ Window \in Nat \ {0}

VARIABLES
    supplied,   \* requests the supplier has given
    writer,     \* the thread that writes: "writing", "done"
    up,         \* requests on their way, each the number of its replies
    todo,       \* replies the server has still to write
    down,       \* how many replies are on their way
    status,     \* grpc::Status of the call: "open" until the server returns
    reader,     \* the caller: "reading", "joining" the thread, "returned", "thrown"
    asked, read \* history: replies asked for by all requests, and read

vars == <<supplied, writer, up, todo, down, status, reader, asked, read>>

Init ==
    /\ supplied = 0
    /\ writer = "writing"
    /\ up = <<>>
    /\ todo = 0
    /\ down = 0
    /\ status = "open"
    /\ reader = "reading"
    /\ asked = 0
    /\ read = 0

----------------------------------------------------------------------------
(* The thread: while(request_supplier(request) && Write(request));         *)

Write ==
    /\ writer = "writing"
    /\ supplied < Requests
    /\ status = "open"
    /\ Len(up) < Window
    /\ supplied' = supplied + 1
    /\ \E n \in 0..MaxReplies : up' = Append(up, n) /\ asked' = asked + n
    /\ UNCHANGED <<writer, todo, down, status, reader, read>>

\* The supplier has no more, or Write returned false; then WritesDone.
WritesDone ==
    /\ writer = "writing"
    /\ supplied = Requests \/ status # "open"
    /\ writer' = "done"
    /\ UNCHANGED <<supplied, up, todo, down, status, reader, asked, read>>

----------------------------------------------------------------------------
(* The handler.                                                            *)

HandlerReads ==
    /\ status = "open"
    /\ todo = 0
    /\ up # <<>>
    /\ todo' = Head(up)
    /\ up' = Tail(up)
    /\ UNCHANGED <<supplied, writer, down, status, reader, asked, read>>

HandlerWrites ==
    /\ status = "open"
    /\ todo > 0
    /\ down < Window
    /\ todo' = todo - 1
    /\ down' = down + 1
    /\ UNCHANGED <<supplied, writer, up, status, reader, asked, read>>

\* Fault: the handler returns when the client has no more to say, whatever it has
\* still to read.
HandlerReturnsEarly ==
    /\ status = "open"
    /\ todo = 0
    /\ writer = "done"
    /\ status' = "OK"
    /\ UNCHANGED <<supplied, writer, up, todo, down, reader, asked, read>>

\* Read has returned false.
HandlerReturns ==
    /\ status = "open"
    /\ todo = 0
    /\ up = <<>>
    /\ writer = "done"
    /\ status' = "OK"
    /\ UNCHANGED <<supplied, writer, up, todo, down, reader, asked, read>>

\* A request that was read cannot be processed.
HandlerThrows ==
    /\ status = "open"
    /\ todo > 0
    /\ status' = "UNKNOWN"
    /\ todo' = 0
    /\ up' = <<>>
    /\ UNCHANGED <<supplied, writer, down, reader, asked, read>>

ConnectionBreaks ==
    /\ status = "open"
    /\ status' = "UNAVAILABLE"
    /\ todo' = 0
    /\ up' = <<>>
    /\ down' \in 0..down
    /\ UNCHANGED <<supplied, writer, reader, asked, read>>

----------------------------------------------------------------------------
(* The caller.                                                             *)

\* Fault: the requests are written before the first reply is read, as they are
\* with std::launch::deferred.
ReadDeferred ==
    /\ reader = "reading"
    /\ writer = "done"
    /\ down > 0
    /\ down' = down - 1
    /\ read' = read + 1
    /\ UNCHANGED <<supplied, writer, up, todo, status, reader, asked>>

Read ==
    /\ reader = "reading"
    /\ down > 0
    /\ down' = down - 1
    /\ read' = read + 1
    /\ UNCHANGED <<supplied, writer, up, todo, status, reader, asked>>

Finish ==
    /\ reader = "reading"
    /\ down = 0
    /\ status # "open"
    /\ reader' = "joining"
    /\ UNCHANGED <<supplied, writer, up, todo, down, status, asked, read>>

\* The destructor of the future waits for the thread, if the call throws as well.
Return ==
    /\ reader = "joining"
    /\ writer = "done"
    /\ reader' = IF status = "OK" THEN "returned" ELSE "thrown"
    /\ UNCHANGED <<supplied, writer, up, todo, down, status, asked, read>>

----------------------------------------------------------------------------
Thread == Write \/ WritesDone
Handler == HandlerReads \/ HandlerWrites \/ HandlerReturns
Caller == Read \/ Finish \/ Return

Next == Thread \/ Handler \/ HandlerThrows \/ ConnectionBreaks \/ Caller

Spec == Init /\ [][Next]_vars /\ WF_vars(Thread) /\ WF_vars(Handler) /\ WF_vars(Caller)

----------------------------------------------------------------------------
(* Properties                                                              *)

\* A call that returns has read every reply to every request of the supplier.
AllAnswered == reader = "returned" => supplied = Requests /\ read = asked

\* However little may be on its way, nobody waits for the other for ever: requests
\* and replies do not wait for one another, because two threads attend to them.
CallEnds == <>(reader \in {"returned", "thrown"})

=============================================================================
