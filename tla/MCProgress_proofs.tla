------------------------- MODULE MCProgress_proofs --------------------------
(***************************************************************************)
(* Safety of what MCProgress puts together, for every value of the         *)
(* constants: a stream of requests for routes, the two matrices, and the   *)
(* subscribers of a task.                                                  *)
(*                                                                         *)
(* Of the liveness that MCProgress is about, the part that is safety is    *)
(* here: nobody ever waits for something that nobody will do, and each     *)
(* step leaves less to do.                                                 *)
(***************************************************************************)
EXTENDS MCProgress, TLAPS

----------------------------------------------------------------------------
(* A stream of requests (RoutesStream).                                    *)

StreamTypes ==
    /\ supplied \in 0..Requests
    /\ writer \in {"writing", "done"}
    /\ up \in Seq(0..MaxReplies)
    /\ todo \in Nat /\ down \in Nat /\ asked \in Nat /\ read \in Nat
    /\ status \in {"open", "OK", "UNKNOWN", "UNAVAILABLE"}
    /\ reader \in {"reading", "joining", "returned", "thrown"}

\* How many replies have been asked for before and with each request on its way:
\* those read, on their way, and owed by the server come first.
AskedBy(f) ==
    /\ f \in [0..Len(up) -> 0..asked]
    /\ f[0] = read + down + todo
    /\ \A n \in 1..Len(up) : f[n] = f[n - 1] + up[n]
    /\ f[Len(up)] = asked

\* As long as the server has not given up, every reply is somewhere.
Counted == status \in {"open", "OK"} => \E f : AskedBy(f)

\* The server returns when there is nothing left, the caller when there is nothing
\* left of what the server sent.
Ordered ==
    /\ status = "OK" => up = <<>> /\ todo = 0 /\ writer = "done" /\ supplied = Requests
    /\ status = "open" /\ writer = "done" => supplied = Requests
    /\ status # "open" => todo = 0
    /\ reader # "reading" => status # "open" /\ down = 0
    /\ reader \in {"returned", "thrown"} => writer = "done"
    /\ reader = "returned" => status = "OK"

RoutesInv == StreamTypes /\ Counted /\ Ordered

\* A request more is asked for after all others.
LEMMA CountedWrite ==
  ASSUME RoutesInv, Routes!Write
  PROVE  Counted'
<1>1. PICK n \in 0..MaxReplies : up' = Append(up, n) /\ asked' = asked + n
  BY DEF Routes!Write
<1>2. /\ status = "open" /\ status' = status
      /\ read' = read /\ down' = down /\ todo' = todo
  BY DEF Routes!Write
<1>3. PICK f : AskedBy(f)
  BY <1>2 DEF RoutesInv, Counted
<1> DEFINE g == [m \in 0..(Len(up) + 1) |-> IF m <= Len(up) THEN f[m] ELSE asked + n]
<1>4. /\ asked \in Nat /\ n \in Nat /\ Len(up) \in Nat /\ Len(up') = Len(up) + 1
      /\ up'[Len(up) + 1] = n /\ \A m \in 1..Len(up) : up'[m] = up[m]
  BY <1>1 DEF RoutesInv, StreamTypes
<1>5. \A m \in 0..Len(up) : g[m] = f[m] /\ f[m] \in 0..asked
  BY <1>3, <1>4 DEF AskedBy
<1>6. g \in [0..Len(up') -> 0..asked']
  <2>1. ASSUME NEW m \in 0..(Len(up) + 1)
        PROVE  g[m] \in 0..(asked + n)
    <3>1. g[m] = IF m <= Len(up) THEN f[m] ELSE asked + n
      OBVIOUS
    <3> HIDE DEF g
    <3>2. m <= Len(up) => f[m] \in 0..asked
      BY <1>4, <1>5
    <3> QED
      BY <1>4, <3>1, <3>2
  <2>2. g \in [0..(Len(up) + 1) -> 0..(asked + n)]
    BY ONLY <2>1, Zenon
  <2> QED
    BY <1>1, <1>4, <2>2
<1>7. g[Len(up')] = asked'
  BY <1>1, <1>4
<1>8. g[0] = read' + down' + todo'
  BY <1>2, <1>3, <1>4, <1>5 DEF AskedBy
<1>9. ASSUME NEW m \in 1..Len(up')
      PROVE  g[m] = g[m - 1] + up'[m]
  <2>1. CASE m <= Len(up)
    <3>1. m \in 1..Len(up) /\ m \in 0..Len(up) /\ m - 1 \in 0..Len(up)
      BY <1>4, <2>1
    <3> HIDE DEF g
    <3> QED
      BY <1>3, <1>4, <1>5, <3>1 DEF AskedBy
  <2>2. CASE m = Len(up) + 1
    <3>1. g[m] = asked + n /\ m - 1 = Len(up)
      BY <1>4, <2>2
    <3>2. g[Len(up)] = asked
      BY <1>3, <1>4, <1>5 DEF AskedBy
    <3> HIDE DEF g
    <3> QED
      BY <1>4, <2>2, <3>1, <3>2
  <2> HIDE DEF g
  <2>3. m <= Len(up) \/ m = Len(up) + 1
    BY <1>4
  <2> QED
    BY <2>1, <2>2, <2>3
<1> HIDE DEF g
<1>10. PICK h : h = g
  OBVIOUS
<1>11. AskedBy(h)'
  BY <1>6, <1>7, <1>8, <1>9, <1>10 DEF AskedBy
<1> QED
  BY <1>11 DEF Counted

\* The server takes the first request, and owes its replies.
LEMMA CountedRead ==
  ASSUME RoutesInv, Routes!HandlerReads
  PROVE  Counted'
<1>1. /\ status = "open" /\ todo = 0 /\ up # <<>>
      /\ todo' = Head(up) /\ up' = Tail(up)
      /\ read' = read /\ down' = down /\ asked' = asked
  BY DEF Routes!HandlerReads
<1>2. PICK f : AskedBy(f)
  BY <1>1 DEF RoutesInv, Counted
<1> DEFINE g == [m \in 0..(Len(up) - 1) |-> f[m + 1]]
<1>3. /\ Len(up) \in Nat /\ Len(up) >= 1 /\ Len(up') = Len(up) - 1
      /\ up[1] = todo' /\ \A m \in 1..(Len(up) - 1) : up'[m] = up[m + 1]
  BY <1>1 DEF RoutesInv, StreamTypes
<1>4. \A m \in 0..Len(up') : m + 1 \in 0..Len(up) /\ g[m] = f[m + 1]
  BY <1>3
<1>5. g \in [0..Len(up') -> 0..asked']
  BY <1>1, <1>2, <1>3, <1>4 DEF AskedBy
<1>6. g[Len(up')] = asked'
  BY <1>1, <1>2, <1>3, <1>4 DEF AskedBy
<1>7. g[0] = read' + down' + todo'
  <2>1. g[0] = f[1] /\ f[1] = f[0] + up[1]
    BY <1>2, <1>3 DEF AskedBy
  <2> HIDE DEF g
  <2> QED
    BY <1>1, <1>2, <1>3, <2>1 DEF AskedBy, RoutesInv, StreamTypes
<1>8. ASSUME NEW m \in 1..Len(up')
      PROVE  g[m] = g[m - 1] + up'[m]
  <2>1. m + 1 \in 1..Len(up) /\ m \in 0..Len(up') /\ m - 1 \in 0..Len(up')
        /\ m \in 1..(Len(up) - 1) /\ (m + 1) - 1 = m /\ (m - 1) + 1 = m
    BY <1>3
  <2>2. f[m + 1] = f[m] + up[m + 1]
    BY <1>2, <2>1 DEF AskedBy
  <2> HIDE DEF g
  <2> QED
    BY <1>3, <1>4, <2>1, <2>2
<1> HIDE DEF g
<1>9. PICK h : h = g
  OBVIOUS
<1>10. AskedBy(h)'
  BY <1>5, <1>6, <1>7, <1>8, <1>9 DEF AskedBy
<1> QED
  BY <1>10 DEF Counted

\* A reply goes on from one place to the next.
LEMMA CountedMove ==
  ASSUME RoutesInv, UNCHANGED <<up, asked>>, read' + down' + todo' = read + down + todo,
         status' = status \/ (status = "open" /\ status' = "OK")
  PROVE  Counted'
<1>1. CASE status' \in {"open", "OK"}
  <2>1. PICK f : AskedBy(f)
    BY <1>1 DEF RoutesInv, Counted
  <2>2. AskedBy(f)'
    BY <2>1 DEF AskedBy
  <2> QED
    BY <2>2 DEF Counted
<1>2. CASE status' \notin {"open", "OK"}
  BY <1>2 DEF Counted
<1> QED
  BY <1>1, <1>2

\* Every step of the stream, of either side or of the connection, keeps the invariant.
LEMMA RoutesKept ==
  ASSUME RoutesInv, Routes!Next
  PROVE  RoutesInv'
<1> USE DEF RoutesInv
<1>1. Window \in Nat \ {0} /\ MaxReplies \in Nat /\ Requests \in Nat
  BY StreamAssumption DEF Routes!StreamAssumption
<1>2. CASE Routes!Write
  <2>1. PICK n \in 0..MaxReplies : up' = Append(up, n) /\ asked' = asked + n
    BY <1>2 DEF Routes!Write
  <2>2. up' \in Seq(0..MaxReplies) /\ asked' \in Nat
    BY <1>1, <2>1 DEF StreamTypes
  <2>3. StreamTypes' /\ Ordered'
    BY <1>1, <1>2, <2>2 DEF Routes!Write, StreamTypes, Ordered
  <2> QED
    BY <1>2, <2>3, CountedWrite
<1>3. CASE Routes!WritesDone
  <2>1. StreamTypes' /\ Ordered'
    BY <1>1, <1>3 DEF Routes!WritesDone, StreamTypes, Ordered
  <2>2. Counted'
    BY <1>3, CountedMove DEF Routes!WritesDone, StreamTypes
  <2> QED
    BY <2>1, <2>2
<1>4. CASE Routes!HandlerReads
  <2>1. up' \in Seq(0..MaxReplies) /\ todo' \in Nat
    BY <1>1, <1>4 DEF Routes!HandlerReads, StreamTypes
  <2>2. StreamTypes' /\ Ordered'
    BY <1>1, <1>4, <2>1 DEF Routes!HandlerReads, StreamTypes, Ordered
  <2> QED
    BY <1>4, <2>2, CountedRead
<1>5. CASE Routes!HandlerWrites
  <2>1. StreamTypes' /\ Ordered'
    BY <1>1, <1>5 DEF Routes!HandlerWrites, StreamTypes, Ordered
  <2>2. Counted'
    BY <1>5, CountedMove DEF Routes!HandlerWrites, StreamTypes
  <2> QED
    BY <2>1, <2>2
<1>6. CASE Routes!HandlerReturns
  <2>1. StreamTypes' /\ Ordered'
    BY <1>1, <1>6 DEF Routes!HandlerReturns, StreamTypes, Ordered
  <2>2. Counted'
    BY <1>6, CountedMove DEF Routes!HandlerReturns, StreamTypes
  <2> QED
    BY <2>1, <2>2
<1>7. CASE Routes!HandlerThrows
  BY <1>1, <1>7 DEF Routes!HandlerThrows, StreamTypes, Ordered, Counted
<1>8. CASE Routes!ConnectionBreaks
  BY <1>1, <1>8 DEF Routes!ConnectionBreaks, StreamTypes, Ordered, Counted
<1>9. CASE Routes!Read
  <2>1. StreamTypes' /\ Ordered'
    BY <1>1, <1>9 DEF Routes!Read, StreamTypes, Ordered
  <2>2. Counted'
    BY <1>9, CountedMove DEF Routes!Read, StreamTypes
  <2> QED
    BY <2>1, <2>2
<1>10. CASE Routes!Finish
  <2>1. StreamTypes' /\ Ordered'
    BY <1>1, <1>10 DEF Routes!Finish, StreamTypes, Ordered
  <2>2. Counted'
    BY <1>10, CountedMove DEF Routes!Finish, StreamTypes
  <2> QED
    BY <2>1, <2>2
<1>11. CASE Routes!Return
  <2>1. StreamTypes' /\ Ordered'
    BY <1>1, <1>11 DEF Routes!Return, StreamTypes, Ordered
  <2>2. Counted'
    BY <1>11, CountedMove DEF Routes!Return, StreamTypes
  <2> QED
    BY <2>1, <2>2
<1> QED
  BY <1>2, <1>3, <1>4, <1>5, <1>6, <1>7, <1>8, <1>9, <1>10, <1>11
     DEF Routes!Next, Routes!Thread, Routes!Handler, Routes!Caller

LEMMA RoutesInvariant == ProgressSpec => []RoutesInv
<1>1. ProgressInit => RoutesInv
  <2> SUFFICES ASSUME ProgressInit PROVE RoutesInv
    OBVIOUS
  <2>1. Routes!Init /\ Requests \in Nat
    BY StreamAssumption DEF ProgressInit, Routes!StreamAssumption
  <2>2. StreamTypes /\ Ordered
    BY <2>1 DEF Routes!Init, StreamTypes, Ordered
  <2>3. AskedBy([n \in 0..0 |-> 0])
    BY <2>1 DEF Routes!Init, AskedBy
  <2> QED
    BY <2>2, <2>3 DEF RoutesInv, Counted
<1>2. RoutesInv /\ [ProgressNext]_progressVars => RoutesInv'
  <2> SUFFICES ASSUME RoutesInv, [ProgressNext]_progressVars PROVE RoutesInv'
    OBVIOUS
  <2>1. Routes!Next \/ UNCHANGED routesVars
    BY DEF ProgressNext, Updates, Streamed, Cached, Asked, progressVars
  <2>2. CASE UNCHANGED routesVars
    BY <2>2 DEF routesVars, RoutesInv, StreamTypes, Counted, AskedBy, Ordered
  <2> QED
    BY <2>1, <2>2, RoutesKept
<1> QED
  BY <1>1, <1>2, PTL DEF ProgressSpec

\* A call that returns has read a reply for every one that was asked for, and has
\* had all requests of its supplier answered: what the server owes, what is on its
\* way and what is still to be read is nothing when it returns.
THEOREM Answering == ProgressSpec => []AllAnswered
<1>1. RoutesInv => AllAnswered
  <2> SUFFICES ASSUME RoutesInv, reader = "returned"
               PROVE  supplied = Requests /\ read = asked
    BY DEF AllAnswered, Routes!AllAnswered
  <2>1. /\ status = "OK" /\ up = <<>> /\ todo = 0 /\ down = 0 /\ supplied = Requests
        /\ read \in Nat
    BY DEF RoutesInv, Ordered, StreamTypes
  <2>2. PICK f : AskedBy(f)
    BY <2>1 DEF RoutesInv, Counted
  <2> QED
    BY <2>1, <2>2 DEF AskedBy
<1> QED
  BY <1>1, RoutesInvariant, PTL

----------------------------------------------------------------------------
(* What is left to do in a stream.                                         *)

\* What the thread, the server and the caller each wait for.
MayWrite == writer = "writing" /\ (supplied = Requests \/ status # "open" \/ Len(up) < Window)
MayServe ==
    status = "open" /\ IF todo > 0 THEN down < Window ELSE up # <<>> \/ writer = "done"
MayRead ==
    \/ reader = "reading" /\ (down > 0 \/ status # "open")
    \/ reader = "joining" /\ writer = "done"

\* Until the call is over, somebody has something to do: the thread, the server and
\* the caller never wait for one another in a circle, however narrow the window.
SomebodyGoesOn ==
    reader \in {"returned", "thrown"} \/ MayWrite \/ MayServe \/ MayRead

\* Deadlock of a streamed call is excluded for all requests, replies and windows
\* (the streaming getRoutesBatch of the client, GetStreamingRoutesBatch).
THEOREM NoCircle == ProgressSpec => []SomebodyGoesOn
<1>1. RoutesInv => SomebodyGoesOn
  <2>1. Window \in Nat \ {0}
    BY StreamAssumption DEF Routes!StreamAssumption
  <2> QED
    BY <2>1 DEF RoutesInv, StreamTypes, Ordered, SomebodyGoesOn, MayWrite, MayServe, MayRead
<1> QED
  BY <1>1, RoutesInvariant, PTL

\* What is left of a request: writing it, reading it, and for each of its replies the
\* writing and the reading.
PerRequest == 2 * MaxReplies + 2

\* The steps that are still to come, at most: of the requests not yet written, of
\* the server, of the thread that writes and the caller, and of the whole call.
Written == PerRequest * (Requests - supplied)
OfServer ==
    IF status = "open" THEN Written + Len(up) + 2 * (asked - read - down) + 1 ELSE 0
OfClient ==
    (IF writer = "writing" THEN 1 ELSE 0)
    + (IF reader = "reading" THEN 2 ELSE IF reader = "joining" THEN 1 ELSE 0)
StepsLeft == OfServer + down + OfClient

\* Replies that are owed or on their way were asked for and not read.
LEMMA Outstanding ==
  ASSUME RoutesInv, status = "open"
  PROVE  read + down + todo <= asked
<1>1. PICK f : AskedBy(f)
  BY DEF RoutesInv, Counted
<1> QED
  BY <1>1 DEF AskedBy, RoutesInv, StreamTypes

\* The types of what StepsLeft adds up.
LEMMA StepsLeftType ==
  ASSUME RoutesInv
  PROVE  /\ PerRequest \in Nat /\ PerRequest >= 2 * MaxReplies + 2 /\ MaxReplies \in Nat
         /\ Requests - supplied \in Nat /\ PerRequest * (Requests - supplied) \in Nat
         /\ Len(up) \in Nat /\ down \in Nat /\ read \in Nat /\ todo \in Nat /\ asked \in Nat
         /\ status = "open" => asked - read - down >= todo
         /\ Written \in Nat /\ OfServer \in Nat /\ OfClient \in Nat /\ StepsLeft \in Nat
<1>1. /\ PerRequest \in Nat /\ PerRequest >= 2 * MaxReplies + 2 /\ MaxReplies \in Nat
      /\ Requests - supplied \in Nat
  BY StreamAssumption DEF Routes!StreamAssumption, PerRequest, RoutesInv, StreamTypes
<1>2. PerRequest * (Requests - supplied) \in Nat
  <2> HIDE DEF PerRequest
  <2>1. \A m, n \in Nat : m * n \in Nat
    OBVIOUS
  <2> QED
    BY <1>1, <2>1
<1>3. /\ Len(up) \in Nat /\ down \in Nat /\ read \in Nat /\ todo \in Nat /\ asked \in Nat
      /\ status = "open" => asked - read - down >= todo
  BY Outstanding DEF RoutesInv, StreamTypes
<1>4. Written \in Nat /\ OfServer \in Nat /\ OfClient \in Nat /\ StepsLeft \in Nat
  <2>1. Written \in Nat /\ OfServer \in Nat
    <3>2. Written \in Nat
      BY <1>2 DEF Written
    <3>1. CASE status = "open"
      <4>1. 2 * (asked - read - down) \in Nat
        BY <1>3, <3>1
      <4> QED
        BY <1>3, <3>1, <3>2, <4>1 DEF OfServer
    <3> QED
      BY <3>1, <3>2 DEF OfServer
  <2>2. OfClient \in Nat
    BY DEF OfClient
  <2> QED
    BY <1>3, <2>1, <2>2 DEF StepsLeft
<1> QED
  BY <1>1, <1>2, <1>3, <1>4

\* A sum is less when one of its terms is and the others are no more.
LEMMA SumLess ==
  ASSUME OfServer \in Nat, down \in Nat, OfClient \in Nat,
         OfServer' \in Int, down' \in Nat, OfClient' \in Nat,
         OfServer' <= OfServer, down' <= down, OfClient' <= OfClient,
         OfServer' < OfServer \/ down' < down \/ OfClient' < OfClient
  PROVE  StepsLeft' < StepsLeft
<1>1. \A a, b, c \in Nat, x \in Int, y, z \in Nat :
          x <= a /\ y <= b /\ z <= c /\ (x < a \/ y < b \/ z < c) => x + y + z < a + b + c
  OBVIOUS
<1>2. StepsLeft' = OfServer' + down' + OfClient'
  BY DEF StepsLeft
<1>3. StepsLeft = OfServer + down + OfClient
  BY DEF StepsLeft
<1> QED
  BY <1>1, <1>2, <1>3

\* Each step of the call is one of those that were left.
LEMMA StepShortens ==
  ASSUME RoutesInv, Routes!Next
  PROVE  StepsLeft' < StepsLeft
<1>1. /\ MaxReplies \in Nat /\ Written \in Nat /\ OfServer \in Nat /\ OfClient \in Nat
      /\ Len(up) \in Nat /\ down \in Nat /\ read \in Nat /\ todo \in Nat /\ asked \in Nat
      /\ status = "open" => asked - read - down >= todo
  BY StepsLeftType
<1>2. CASE Routes!Write
  <2>1. PICK n \in 0..MaxReplies : up' = Append(up, n) /\ asked' = asked + n
    BY <1>2 DEF Routes!Write
  <2>2. /\ status = "open" /\ status' = "open" /\ supplied' = supplied + 1
        /\ UNCHANGED <<writer, reader, read, down>> /\ Len(up') = Len(up) + 1
    BY <1>2, <2>1 DEF Routes!Write, RoutesInv, StreamTypes
  <2>3. Written' = Written - PerRequest
    <3>1. \A r, m \in Int : r * (m - 1) = r * m - r
      OBVIOUS
    <3>2. Requests - supplied' = (Requests - supplied) - 1 /\ Requests - supplied \in Int
      BY <2>2, StepsLeftType, StreamAssumption
         DEF Routes!StreamAssumption, RoutesInv, StreamTypes
    <3>3. PerRequest * (Requests - supplied') = PerRequest * (Requests - supplied) - PerRequest
      BY <3>1, <3>2, StepsLeftType
    <3> QED
      BY <3>3 DEF Written, PerRequest
  <2>4. PerRequest >= 2 * n + 2 /\ PerRequest \in Nat /\ n \in Nat
    BY StepsLeftType
  <2>5. OfServer' < OfServer
    BY <1>1, <2>1, <2>2, <2>3, <2>4 DEF OfServer
  <2>6. OfServer' \in Int
    BY <1>1, <2>1, <2>2, <2>3, <2>4 DEF OfServer
  <2>7. OfClient' = OfClient
    BY <2>2 DEF OfClient
  <2> QED
    BY <1>1, <2>2, <2>5, <2>6, <2>7, SumLess
<1>3. CASE Routes!WritesDone
  BY <1>1, <1>3 DEF Routes!WritesDone, StepsLeft, OfServer, OfClient, Written, PerRequest
<1>4. CASE Routes!HandlerReads
  <2>1. Len(up') = Len(up) - 1
    BY <1>4 DEF Routes!HandlerReads, RoutesInv, StreamTypes
  <2>2. Written' = Written /\ OfClient' = OfClient
    BY <1>4 DEF Routes!HandlerReads, Written, PerRequest, OfClient
  <2> QED
    BY <1>1, <1>4, <2>1, <2>2 DEF Routes!HandlerReads, StepsLeft, OfServer
<1>5. CASE Routes!HandlerWrites
  <2>1. Written' = Written /\ OfClient' = OfClient
    BY <1>5 DEF Routes!HandlerWrites, Written, PerRequest, OfClient
  <2> QED
    BY <1>1, <1>5, <2>1 DEF Routes!HandlerWrites, StepsLeft, OfServer
<1>6. CASE Routes!HandlerReturns \/ Routes!HandlerThrows
  <2>1. status = "open" /\ status' # "open" /\ down' = down /\ OfClient' = OfClient
    BY <1>6 DEF Routes!HandlerReturns, Routes!HandlerThrows, OfClient
  <2>2. OfServer > 0 /\ OfServer' = 0
    BY <1>1, <2>1 DEF OfServer
  <2> QED
    BY <1>1, <2>1, <2>2 DEF StepsLeft
<1>7. CASE Routes!ConnectionBreaks
  <2>1. /\ status = "open" /\ status' # "open" /\ down' \in 0..down /\ OfClient' = OfClient
    BY <1>7 DEF Routes!ConnectionBreaks, OfClient
  <2>2. OfServer > 0 /\ OfServer' = 0
    BY <1>1, <2>1 DEF OfServer
  <2> QED
    BY <1>1, <2>1, <2>2, SumLess
<1>8. CASE Routes!Read
  <2>1. Written' = Written /\ OfClient' = OfClient
    BY <1>8 DEF Routes!Read, Written, PerRequest, OfClient
  <2> QED
    BY <1>1, <1>8, <2>1 DEF Routes!Read, StepsLeft, OfServer
<1>9. CASE Routes!Finish \/ Routes!Return
  <2>1. Written' = Written /\ OfServer' = OfServer /\ down' = down
    BY <1>9 DEF Routes!Finish, Routes!Return, Written, PerRequest, OfServer
  <2>2. OfClient' < OfClient /\ OfClient' \in Nat
    BY <1>9 DEF Routes!Finish, Routes!Return, OfClient
  <2> QED
    BY <1>1, <2>1, <2>2, SumLess
<1> QED
  BY <1>2, <1>3, <1>4, <1>5, <1>6, <1>7, <1>8, <1>9
     DEF Routes!Next, Routes!Thread, Routes!Handler, Routes!Caller

\* A call of a stream is over after so many steps: each of them, a break of the
\* connection included, leaves fewer, and there are never less than none.
THEOREM Shortening ==
  ProgressSpec => [](StepsLeft \in Nat) /\ [][StepsLeft' < StepsLeft]_routesVars
<1>1. RoutesInv => StepsLeft \in Nat
  BY StepsLeftType
<1>2. RoutesInv /\ [ProgressNext]_progressVars => [StepsLeft' < StepsLeft]_routesVars
  <2> SUFFICES ASSUME RoutesInv, [ProgressNext]_progressVars, ~ UNCHANGED routesVars
               PROVE  StepsLeft' < StepsLeft
    OBVIOUS
  <2>1. Routes!Next
    BY DEF ProgressNext, Updates, Streamed, Cached, Asked, progressVars
  <2> QED
    BY <2>1, StepShortens
<1> QED
  BY <1>1, <1>2, RoutesInvariant, PTL DEF ProgressSpec

----------------------------------------------------------------------------
(* The matrix that asks each time (DirectRequestMatrix) implements         *)
(* DistanceMatrix, for any callers, locations and error policy.            *)

Questions == {[from |-> a, to |-> b] : a \in Locations, b \in Locations}

DirectReplies ==
    {NoReply, Direct!Thrown}
        \union {Direct!route(a, b) : a \in Locations, b \in Locations}
        \union {Direct!zero(a, b) : a \in Locations, b \in Locations}
        \union {Direct!infinity(a, b) : a \in Locations, b \in Locations}

\* A caller is asking the provider exactly when it has no answer yet, and for what
\* it was asked.
DirectInv ==
    /\ called \in [Callers -> Questions \union {NoRequest}]
    /\ request \in [Callers -> Questions \union {NoRequest}]
    /\ reply \in [Callers -> DirectReplies]
    /\ \A c \in Callers :
        /\ called[c] # NoRequest => called[c] = request[c] /\ reply[c] = NoReply
        /\ called[c] = NoRequest => ~Direct!DM!Pending(c)

\* Nobody has asked for anything at first.
LEMMA DirectInit == Direct!Init => DirectInv
BY DEF Direct!Init, DirectInv, DirectReplies, Direct!DM!Pending

\* A question is asked: of nobody before it, and of the provider now.
LEMMA DirectAsks ==
    ASSUME Direct!DirectAssumption, DirectInv, NEW c \in Callers,
           NEW a \in Locations, NEW b \in Locations,
           Direct!Call(c, a, b)
    PROVE  DirectInv' /\ Direct!DM!Next
<1> DEFINE q == [from |-> a, to |-> b]
<1>1. q \in Questions /\ q # NoRequest
  BY DEF Direct!DirectAssumption, Questions
<1>2. /\ called[c] = NoRequest
      /\ called' = [called EXCEPT ![c] = q]
      /\ request' = [request EXCEPT ![c] = q]
      /\ reply' = [reply EXCEPT ![c] = NoReply]
  BY DEF Direct!Call
<1>3. Direct!DM!Next
  <2>1. Direct!DM!Ask(c)
    BY <1>2 DEF Direct!DM!Ask, DirectInv
  <2> QED
    BY <2>1 DEF Direct!DM!Next
<1> HIDE DEF q
<1>4. DirectInv'
  <2>1. NoReply \in DirectReplies
    BY DEF DirectReplies
  <2> QED
    BY <1>1, <1>2, <2>1 DEF DirectInv, Direct!DM!Pending
<1> QED
  BY <1>3, <1>4

\* An answer is returned, of those the abstract matrix allows.
LEMMA DirectReturns ==
    ASSUME DirectInv, NEW c \in Callers, called[c] # NoRequest, NEW r, Direct!Return(c, r),
           r \in DirectReplies, r # NoReply, r \in Direct!DM!Answers(request[c])
    PROVE  DirectInv' /\ Direct!DM!Next
<1>1. Direct!DM!Pending(c)
  BY DEF DirectInv, Direct!DM!Pending
<1>2. Direct!DM!Next
  <2>1. Direct!DM!Answer(c)
    BY <1>1 DEF Direct!DM!Answer, Direct!Return
  <2> QED
    BY <2>1 DEF Direct!DM!Next
<1>3. DirectInv'
  BY DEF DirectInv, Direct!Return, Direct!DM!Pending
<1> QED
  BY <1>2, <1>3

\* What the provider answers, or the error policy, is an answer to the question.
LEMMA DirectAllowed ==
    ASSUME Direct!DirectAssumption, DirectInv, NEW c \in Callers, called[c] # NoRequest,
           NEW r \in {Direct!route(called[c].from, called[c].to),
                      Direct!processError(ErrorPolicy, called[c].from, called[c].to)}
                     \union {Direct!zero(called[c].from, called[c].to) :
                                 same \in {called[c].from} \intersect {called[c].to}}
    PROVE  r \in DirectReplies /\ r # NoReply /\ r \in Direct!DM!Answers(request[c])
<1>1. called[c] = request[c] /\ called[c] \in Questions
  BY DEF DirectInv
<1>2. PICK a \in Locations, b \in Locations : called[c] = [from |-> a, to |-> b]
  BY <1>1 DEF Questions
<1>3. called[c].from = a /\ called[c].to = b
  BY <1>2
<1>4. r \in {Direct!route(a, b), Direct!zero(a, b), Direct!infinity(a, b), Direct!Thrown}
  BY <1>3 DEF Direct!processError
<1>5. r \in DirectReplies /\ r # NoReply
  BY <1>4 DEF Direct!DirectAssumption, DirectReplies
<1>6. r \in Direct!DM!Answers(request[c])
  BY <1>1 DEF Direct!DM!Answers, Direct!DM!route, Direct!DM!zero, Direct!DM!infinity,
              Direct!DM!Thrown, Direct!DM!processError, Direct!route, Direct!zero,
              Direct!infinity, Direct!Thrown, Direct!processError
<1> QED
  BY <1>5, <1>6

\* Every step keeps the invariant, and is a step of the abstract matrix or none.
LEMMA DirectStep ==
    ASSUME Direct!DirectAssumption
    PROVE  DirectInv /\ [Direct!Next]_(Direct!vars)
               => DirectInv' /\ [Direct!DM!Next]_(Direct!DM!matrix)
<1> SUFFICES ASSUME DirectInv, [Direct!Next]_(Direct!vars)
             PROVE  DirectInv' /\ [Direct!DM!Next]_(Direct!DM!matrix)
  OBVIOUS
<1>1. ASSUME NEW c \in Callers, Direct!getRouteDetails(c) PROVE DirectInv' /\ Direct!DM!Next
  BY <1>1, DirectAsks DEF Direct!getRouteDetails
<1>2. ASSUME NEW c \in Callers, Direct!ProviderAnswers(c) PROVE DirectInv' /\ Direct!DM!Next
  <2>1. called[c] # NoRequest
    BY <1>2 DEF Direct!ProviderAnswers
  <2>2. CASE Direct!Return(c, Direct!route(called[c].from, called[c].to))
    BY <2>1, <2>2, DirectAllowed, DirectReturns
  <2>3. CASE called[c].from = called[c].to
             /\ Direct!Return(c, Direct!zero(called[c].from, called[c].to))
    BY <2>1, <2>3, DirectAllowed, DirectReturns
  <2> QED
    BY <1>2, <2>2, <2>3 DEF Direct!ProviderAnswers
<1>3. ASSUME NEW c \in Callers, Direct!ProviderThrows(c) PROVE DirectInv' /\ Direct!DM!Next
  <2>1. called[c] # NoRequest
        /\ Direct!Return(c, Direct!processError(ErrorPolicy, called[c].from, called[c].to))
    BY <1>3 DEF Direct!ProviderThrows
  <2> QED
    BY <2>1, DirectAllowed, DirectReturns
<1>4. CASE UNCHANGED Direct!vars
  BY <1>4 DEF Direct!vars, DirectInv, Direct!DM!Pending, Direct!DM!matrix
<1> QED
  BY <1>1, <1>2, <1>3, <1>4 DEF Direct!Next

----------------------------------------------------------------------------
\* Callers that use the matrix at the same time each get a route between the two
\* locations they asked for, or what the error policy says, whoever they are.
THEOREM DirectImplements ==
    ASSUME Direct!DirectAssumption
    PROVE  Direct!Spec => Direct!ImplementsDistanceMatrix
<1>1. Direct!Init => Direct!DM!Init
  BY DEF Direct!Init, Direct!DM!Init
<1> QED
  BY <1>1, DirectInit, DirectStep, PTL
     DEF Direct!Spec, Direct!ImplementsDistanceMatrix, Direct!DM!Safety

----------------------------------------------------------------------------
(* Both matrices, one of which is at work in a behaviour, implement        *)
(* DistanceMatrix.  What FullMatrixCache_proofs proves holds of Matrix,    *)
(* which is the same module under another name.                            *)

Full == INSTANCE FullMatrixCache_proofs WITH AddsWhileReading <- FALSE, pc <- stage

\* What those proofs assume of their constants.
LEMMA FullAssumes ==
  /\ Nobody \notin Callers
  /\ ErrorPolicy \in Full!ErrorPolicies /\ FALSE \in BOOLEAN
  /\ ~FALSE
  /\ Full!NoneApart
BY NobodyAssumption, DirectAssumption
   DEF Direct!DirectAssumption, Direct!ErrorPolicies, Direct!route, Direct!zero,
       Direct!infinity, Direct!Thrown, Full!ErrorPolicies, Full!NoneApart, Full!route,
       Full!zero, Full!infinity, Full!Thrown

\* The matrix begins as those proofs say.
LEMMA FullBegins == Full!Init => Full!IInv /\ Full!AInv /\ Full!DM!Init
BY FullAssumes, Full!InitIInv, Full!InitAInv

\* Each of its steps keeps what those proofs keep, and answers as they say.
LEMMA FullGoes ==
  ASSUME Full!KeysDiffer, Full!IInv, Full!AInv, [Full!Next]_(Full!vars)
  PROVE  Full!IInv' /\ Full!AInv' /\ [Full!DM!Next]_(Full!DM!matrix)
<1>1. Full!IInv'
  BY FullAssumes, Full!NextIInv
<1>2. Full!AInv' /\ [Full!DM!Next]_(Full!DM!matrix)
  BY FullAssumes, Full!StepAnswers
<1> QED
  BY <1>1, <1>2

\* Locations are found by the same keys.
LEMMA SameKeys ==
  ASSUME NEW l
  PROVE  /\ Matrix!encodeLocation(l) = Full!encodeLocation(l)
         /\ Matrix!IdOf(l) = Full!IdOf(l)
<1>1. Matrix!Digits = Full!Digits
  BY Zenon DEF Matrix!Digits, Full!Digits
<1>2. Matrix!encodeLocation(l) = Full!encodeLocation(l)
  BY <1>1, Zenon DEF Matrix!encodeLocation, Full!encodeLocation, Matrix!to_string,
                     Full!to_string, Matrix!Minus, Full!Minus
<1> QED
  BY <1>2, Zenon DEF Matrix!IdOf, Full!IdOf

\* Calls begin, and locations are stored and found, in the same way.
LEMMA SameLocations ==
  ASSUME NEW c
  PROVE  /\ Matrix!Begin(c) <=> Full!Begin(c)
         /\ Matrix!StoreLocation(c) <=> Full!StoreLocation(c)
         /\ Matrix!FindLocations(c) <=> Full!FindLocations(c)
<1> USE DEF Matrix!Goto, Full!Goto, Matrix!locations, Full!locations, Matrix!matrix,
            Full!matrix
<1>1. ASSUME NEW a PROVE Matrix!AddLocation(c, a) <=> Full!AddLocation(c, a)
  BY DEF Matrix!AddLocation, Full!AddLocation, Matrix!Reading, Full!Reading
<1>2. ASSUME NEW a, NEW b
      PROVE  /\ Matrix!GetRoute(c, a, b) <=> Full!GetRoute(c, a, b)
             /\ Matrix!GetRouteByIndex(c, a, b) <=> Full!GetRouteByIndex(c, a, b)
  <2>1. ASSUME NEW w PROVE Matrix!Ask(c, a, b, w) <=> Full!Ask(c, a, b, w)
    BY Zenon DEF Matrix!Ask, Full!Ask
  <2>2. Matrix!GetRoute(c, a, b) <=> Full!GetRoute(c, a, b)
    BY <2>1, Zenon DEF Matrix!GetRoute, Full!GetRoute
  <2>3. Matrix!GetRouteByIndex(c, a, b) <=> Full!GetRouteByIndex(c, a, b)
    BY <2>1, SameKeys DEF Matrix!GetRouteByIndex, Full!GetRouteByIndex
  <2> QED
    BY <2>2, <2>3
<1>3. Matrix!Begin(c) <=> Full!Begin(c)
  BY <1>1, <1>2, Zenon DEF Matrix!Begin, Full!Begin
<1>4. Matrix!StoreLocation(c) <=> Full!StoreLocation(c)
  <2>1. Matrix!Known = Full!Known /\ Matrix!KnownKeys = Full!KnownKeys
    BY DEF Matrix!Known, Full!Known, Matrix!KnownKeys, Full!KnownKeys
  <2> QED
    BY <2>1, SameKeys DEF Matrix!StoreLocation, Full!StoreLocation
<1>5. Matrix!FindLocations(c) <=> Full!FindLocations(c)
  BY SameKeys DEF Matrix!FindLocations, Full!FindLocations, Matrix!KnownKeys,
                  Full!KnownKeys
<1> QED
  BY <1>3, <1>4, <1>5

\* A matrix is calculated, and read, in the same way.
LEMMA SameMatrices ==
  ASSUME NEW c
  PROVE  Matrix!Step(c) <=> Full!Step(c)
<1> USE DEF Matrix!Goto, Full!Goto, Matrix!Finish, Full!Finish, Matrix!locations,
            Full!locations, Matrix!matrix, Full!matrix, Matrix!Thrown, Full!Thrown,
            Matrix!route, Full!route, Matrix!zero, Full!zero,
            Matrix!processError, Full!processError, Matrix!infinity, Full!infinity,
            Matrix!Kept, Full!Kept, Matrix!Pairs, Full!Pairs, Matrix!Known, Full!Known
<1>1. Matrix!AskProvider(c) <=> Full!AskProvider(c)
  BY DEF Matrix!AskProvider, Full!AskProvider
<1>2. /\ Matrix!TestInitialized(c) <=> Full!TestInitialized(c)
      /\ Matrix!AlreadyInitialized(c) <=> Full!AlreadyInitialized(c)
      /\ Matrix!Publish(c) <=> Full!Publish(c)
  BY DEF Matrix!TestInitialized, Full!TestInitialized, Matrix!AlreadyInitialized,
         Full!AlreadyInitialized, Matrix!Publish, Full!Publish
<1>3. Matrix!Calculate(c) <=> Full!Calculate(c)
  BY Zenon DEF Matrix!Calculate, Full!Calculate, Matrix!MayFail, Full!MayFail,
               Matrix!Entry, Full!Entry
<1>4. Matrix!FailToCalculate(c) <=> Full!FailToCalculate(c)
  BY Zenon DEF Matrix!FailToCalculate, Full!FailToCalculate, Matrix!MayFail, Full!MayFail
<1>5. /\ Matrix!LoadPointer(c) <=> Full!LoadPointer(c)
      /\ Matrix!CopyEntry(c) <=> Full!CopyEntry(c)
  BY DEF Matrix!LoadPointer, Full!LoadPointer, Matrix!CopyEntry, Full!CopyEntry,
         Matrix!Garbage, Full!Garbage
<1> QED
  BY <1>1, <1>2, <1>3, <1>4, <1>5, SameLocations DEF Matrix!Step, Full!Step

\* Both matrices promise the same.
LEMMA SamePromise ==
  /\ Full!DM!Init => Matrix!DM!Init
  /\ [Full!DM!Next]_(Full!DM!matrix) => [Matrix!DM!Next]_(Matrix!DM!matrix)
  /\ [Direct!DM!Next]_(Direct!DM!matrix) => [Matrix!DM!Next]_(Matrix!DM!matrix)
<1>1. Full!DM!Init => Matrix!DM!Init
  BY DEF Full!DM!Init, Matrix!DM!Init
<1>2. ASSUME NEW q
      PROVE  /\ Full!DM!Answers(q) = Matrix!DM!Answers(q)
             /\ Direct!DM!Answers(q) = Matrix!DM!Answers(q)
  BY Zenon
     DEF Full!DM!Answers, Matrix!DM!Answers, Direct!DM!Answers, Full!DM!route,
         Matrix!DM!route, Direct!DM!route, Full!DM!zero, Matrix!DM!zero, Direct!DM!zero,
         Full!DM!infinity, Matrix!DM!infinity, Direct!DM!infinity, Full!DM!Thrown,
         Matrix!DM!Thrown, Direct!DM!Thrown, Full!DM!processError,
         Matrix!DM!processError, Direct!DM!processError
<1>3. /\ Full!DM!Next <=> Matrix!DM!Next
      /\ Direct!DM!Next <=> Matrix!DM!Next
  <2>1. ASSUME NEW c
        PROVE  /\ Full!DM!Ask(c) <=> Matrix!DM!Ask(c)
               /\ Direct!DM!Ask(c) <=> Matrix!DM!Ask(c)
    BY DEF Full!DM!Ask, Matrix!DM!Ask, Direct!DM!Ask, Full!DM!Pending, Matrix!DM!Pending,
           Direct!DM!Pending
  <2>2. ASSUME NEW c
        PROVE  /\ Full!DM!Answer(c) <=> Matrix!DM!Answer(c)
               /\ Direct!DM!Answer(c) <=> Matrix!DM!Answer(c)
    BY <1>2 DEF Full!DM!Answer, Matrix!DM!Answer, Direct!DM!Answer, Full!DM!Pending,
                Matrix!DM!Pending, Direct!DM!Pending
  <2> QED
    BY <2>1, <2>2 DEF Full!DM!Next, Matrix!DM!Next, Direct!DM!Next
<1>4. /\ UNCHANGED Full!DM!matrix <=> UNCHANGED Matrix!DM!matrix
      /\ UNCHANGED Direct!DM!matrix <=> UNCHANGED Matrix!DM!matrix
  BY DEF Full!DM!matrix, Matrix!DM!matrix, Direct!DM!matrix
<1> QED
  BY <1>1, <1>3, <1>4

\* The questions and the answers are those of the matrix a behaviour is about, and so
\* is the invariant.
MatricesInv ==
    /\ part = "matrix" => Full!IInv /\ Full!AInv
    /\ part = "direct" => DirectInv

\* Whichever matrix is asked, if no two locations share a key, whatever callers ask at
\* the same time is answered as the abstract matrix answers.
THEOREM BothImplement ==
  ASSUME Full!KeysDiffer
  PROVE  ProgressSpec => Matrix!DM!Safety
<1>1. ProgressInit => MatricesInv /\ Matrix!DM!Init
  <2>1. Matrix!Init <=> Full!Init
    BY DEF Matrix!Init, Full!Init, Matrix!Pairs, Full!Pairs
  <2> QED
    BY <2>1, FullBegins, DirectInit, SamePromise DEF ProgressInit, MatricesInv
<1>2. MatricesInv /\ [ProgressNext]_progressVars
          => MatricesInv' /\ [Matrix!DM!Next]_(Matrix!DM!matrix)
  <2> SUFFICES ASSUME MatricesInv, [ProgressNext]_progressVars
               PROVE  MatricesInv' /\ [Matrix!DM!Next]_(Matrix!DM!matrix)
    OBVIOUS
  <2>1. CASE Cached /\ Matrix!Next
    <3>1. part = "matrix" /\ part' = part
      BY <2>1 DEF Cached
    <3>2. Full!Next
      BY <2>1, SameLocations, SameMatrices DEF Matrix!Next, Full!Next
    <3>3. Full!IInv' /\ Full!AInv' /\ [Full!DM!Next]_(Full!DM!matrix)
      BY <3>1, <3>2, FullGoes DEF MatricesInv
    <3> QED
      BY <3>1, <3>3, SamePromise DEF MatricesInv
  <2>2. CASE Asked /\ Direct!Next
    <3>1. part = "direct" /\ part' = part
      BY <2>2 DEF Asked
    <3>2. DirectInv' /\ [Direct!DM!Next]_(Direct!DM!matrix)
      BY <2>2, <3>1, DirectStep, DirectAssumption DEF MatricesInv
    <3> QED
      BY <3>1, <3>2, SamePromise DEF MatricesInv
  <2>3. CASE (Updates /\ Next) \/ (Streamed /\ Routes!Next)
    BY <2>3 DEF Updates, Streamed, MatricesInv, Matrix!DM!matrix
  <2>4. CASE UNCHANGED progressVars
    <3>1. /\ part' = part /\ UNCHANGED Full!vars /\ UNCHANGED Direct!vars
          /\ UNCHANGED Matrix!DM!matrix
      BY <2>4 DEF progressVars, matrixVars, Full!vars, Full!locations, Full!matrix,
                  Full!callers, Direct!vars, Matrix!DM!matrix
    <3>2. part = "matrix" => Full!IInv' /\ Full!AInv'
      BY <3>1, FullGoes DEF MatricesInv
    <3>3. part = "direct" => DirectInv'
      BY <3>1, DirectStep, DirectAssumption DEF MatricesInv
    <3> QED
      BY <3>1, <3>2, <3>3 DEF MatricesInv
  <2> QED
    BY <2>1, <2>2, <2>3, <2>4 DEF ProgressNext
<1> QED
  BY <1>1, <1>2, PTL DEF ProgressSpec, Matrix!DM!Safety

----------------------------------------------------------------------------
(* The subscribers of a task (TspStatusStream): what StreamEnds rests on.  *)

\* A call is in time for the last update of its task: its queue is bound, and the
\* worker has its channel.
InTime(s) == bound[s] /\ publisher # "broken"

\* An update that ends the call is at place n of its queue.
EndsAt(s, n) == n \in 1..Len(queue[s]) /\ isTerminalState(queue[s][n])

\* A call with such an update is about to read its queue, and nothing is closed.
EndIsRead ==
    \A s \in Streams, n \in Nat :
        EndsAt(s, n) => bound[s] /\ channel = "open" /\ pc[s] \in {"consume", "select"}

\* A call stays in time until it ends; in time, it gets the update its task ends
\* with; and that stays in its queue, one place nearer with each update the call
\* takes, until the call has ended.
EndGetsNearer ==
    [][\A s \in Streams :
        /\ InTime(s) => InTime(s)' \/ pc'[s] = "ended"
        /\ InTime(s) /\ worker = "running" /\ worker' = "storing" /\ isTerminalState(ending')
              => \E n \in Nat : EndsAt(s, n)'
        /\ \A n \in Nat : EndsAt(s, n) =>
              \/ pc'[s] = "ended"
              \/ ~SelectUpdate(s) /\ EndsAt(s, n)'
              \/ SelectUpdate(s) /\ EndsAt(s, n - 1)']_vars

Sent == Terminal \union {"STARTED", "NEW_SOLUTION", "PAUSED", None}

UpdateTypes ==
    /\ pc \in [Streams -> {"idle", "bind", "consume", "select", "ended"}]
    /\ bound \in [Streams -> BOOLEAN]
    /\ queue \in [Streams -> Seq(Sent)]
    /\ exchange \in BOOLEAN
    /\ channel \in {"open", "closed"}
    /\ publisher \in {"closed", "open", "broken"}

\* Only a queue that is bound holds updates.  It keeps the exchange, and so the channel
\* of the server is open as long as a call has one.
QueuesKeep ==
    \A s \in Streams :
        /\ queue[s] # <<>> => bound[s]
        /\ bound[s] => exchange /\ channel = "open" /\ pc[s] \in {"consume", "select"}
        /\ pc[s] = "select" => bound[s]
        /\ pc[s] = "consume" /\ channel = "open" => bound[s]

UpdatesInv == UpdateTypes /\ QueuesKeep

\* What a step does for a call that is not to miss the end of its task.
Nearer(s) ==
    /\ InTime(s) => InTime(s)' \/ pc'[s] = "ended"
    /\ InTime(s) /\ worker = "running" /\ worker' = "storing" /\ isTerminalState(ending')
          => \E n \in Nat : EndsAt(s, n)'
    /\ \A n \in Nat : EndsAt(s, n) =>
          \/ pc'[s] = "ended"
          \/ ~SelectUpdate(s) /\ EndsAt(s, n)'
          \/ SelectUpdate(s) /\ EndsAt(s, n - 1)'

\* An update is put behind those that wait.
LEMMA PutBehind ==
    ASSUME NEW q \in Seq(Sent), NEW u \in Sent
    PROVE  /\ Append(q, u) \in Seq(Sent) /\ Append(q, u) # <<>>
           /\ Len(q) \in Nat /\ Len(Append(q, u)) = Len(q) + 1
           /\ Append(q, u)[Len(q) + 1] = u
           /\ \A n \in 1..Len(q) : Append(q, u)[n] = q[n]
OBVIOUS

\* What is taken from a queue is its first update.
LEMMA TakenFirst ==
    ASSUME NEW q \in Seq(Sent), q # <<>>
    PROVE  /\ Tail(q) \in Seq(Sent) /\ Len(q) \in Nat /\ Len(Tail(q)) = Len(q) - 1
           /\ Head(q) = q[1]
           /\ \A n \in 1..(Len(q) - 1) : Tail(q)[n] = q[n + 1]
OBVIOUS

\* The steps in which the broker gets an update.
LEMMA DeliverKeeps ==
    ASSUME UpdatesInv, NEW u \in Sent, Deliver(u)
    PROVE  /\ queue' \in [Streams -> Seq(Sent)]
           /\ \A s \in Streams : queue'[s] # <<>> => bound[s]
           /\ \A s \in Streams, n \in Nat : EndsAt(s, n) => EndsAt(s, n)'
           /\ \A s \in Streams : bound[s] /\ isTerminalState(u) => \E n \in Nat : EndsAt(s, n)'
<1>1. queue \in [Streams -> Seq(Sent)] /\ \A s \in Streams : queue[s] # <<>> => bound[s]
  BY DEF UpdatesInv, UpdateTypes, QueuesKeep
<1>2. /\ \A s \in Streams : queue'[s] = IF bound[s] THEN Append(queue[s], u) ELSE queue[s]
      /\ queue' = [s \in Streams |-> queue'[s]]
  BY DEF Deliver
<1>3. ASSUME NEW s \in Streams PROVE queue'[s] \in Seq(Sent)
  <2>1. queue[s] \in Seq(Sent)
    BY <1>1
  <2>2. Append(queue[s], u) \in Seq(Sent)
    BY <2>1, PutBehind
  <2> QED
    BY <1>2, <2>1, <2>2
<1>4. \A s \in Streams : queue'[s] # <<>> => bound[s]
  BY <1>1, <1>2
<1>5. ASSUME NEW s \in Streams, NEW n \in Nat, EndsAt(s, n)
      PROVE  EndsAt(s, n)'
  <2>1. queue[s] \in Seq(Sent) /\ n \in 1..Len(queue[s]) /\ isTerminalState(queue[s][n])
    BY <1>1, <1>5 DEF EndsAt
  <2>2. CASE bound[s]
    <3>1. n \in 1..Len(queue'[s]) /\ queue'[s][n] = queue[s][n]
      BY <1>2, <2>1, <2>2, PutBehind
    <3> QED
      BY <2>1, <3>1 DEF EndsAt, isTerminalState
  <2>3. CASE ~bound[s]
    BY <1>2, <2>1, <2>3 DEF EndsAt, isTerminalState
  <2> QED
    BY <2>2, <2>3
<1>6. ASSUME NEW s \in Streams, bound[s], isTerminalState(u)
      PROVE  \E n \in Nat : EndsAt(s, n)'
  <2>1. queue[s] \in Seq(Sent) /\ queue'[s] = Append(queue[s], u)
    BY <1>1, <1>2, <1>6
  <2>2. PICK n \in Nat : n = Len(queue[s]) + 1
    BY <2>1, PutBehind
  <2>3. n \in 1..Len(queue'[s]) /\ queue'[s][n] = u
    BY <2>1, <2>2, PutBehind
  <2>4. EndsAt(s, n)'
    BY <1>6, <2>3 DEF EndsAt, isTerminalState
  <2> QED
    BY <2>4
<1> QED
  BY <1>2, <1>3, <1>4, <1>5, <1>6

\* Nothing changes for the queues.
LEMMA QueuesRest ==
    ASSUME UNCHANGED queue, NEW s \in Streams, NEW n \in Nat, EndsAt(s, n)
    PROVE  EndsAt(s, n)'
BY DEF EndsAt, isTerminalState

\* The worker publishes an update: while a queue is bound there is the exchange, and the
\* worker keeps its channel.
LEMMA PublishKeeps ==
    ASSUME UpdatesInv, NEW u \in Sent, NEW release \in BOOLEAN, PublishOn(u, release),
           UNCHANGED pc
    PROVE  /\ UpdatesInv'
           /\ \A s \in Streams : InTime(s) => InTime(s)'
           /\ \A s \in Streams : InTime(s) /\ isTerminalState(u) => \E n \in Nat : EndsAt(s, n)'
           /\ \A s \in Streams, n \in Nat : EndsAt(s, n) => EndsAt(s, n)'
<1> DEFINE declared == exchange \/ publisher = "closed"
           works == publisher # "broken" /\ declared
<1>1. /\ exchange' = declared
      /\ publisher' = IF release THEN "closed" ELSE IF works THEN "open" ELSE "broken"
      /\ UNCHANGED <<channel, bound>>
  BY DEF PublishOn
<1>2. \/ works /\ Deliver(u)
      \/ ~works /\ UNCHANGED queue
  <2>1. IF works THEN Deliver(u) ELSE UNCHANGED queue
    BY DEF PublishOn
  <2> HIDE DEF works
  <2> QED
    BY <2>1, Zenon
<1>3. \A s \in Streams : bound[s] => exchange
  BY DEF UpdatesInv, QueuesKeep
<1>4. /\ queue' \in [Streams -> Seq(Sent)]
      /\ \A s \in Streams : queue'[s] # <<>> => bound[s]
      /\ \A s \in Streams, n \in Nat : EndsAt(s, n) => EndsAt(s, n)'
  BY <1>2, DeliverKeeps, QueuesRest DEF UpdatesInv, UpdateTypes, QueuesKeep
<1>5. UpdatesInv'
  BY <1>1, <1>4 DEF UpdatesInv, UpdateTypes, QueuesKeep
<1>6. \A s \in Streams : InTime(s) => works /\ InTime(s)'
  BY <1>1, <1>3 DEF InTime
<1>7. ASSUME NEW s \in Streams, InTime(s), isTerminalState(u)
      PROVE  \E n \in Nat : EndsAt(s, n)'
  BY <1>2, <1>6, <1>7, DeliverKeeps DEF InTime
<1> QED
  BY <1>4, <1>5, <1>6, <1>7

\* A call that ends takes its queue along, and the exchange only with the last one.
LEMMA EndTakesQueue ==
    ASSUME UpdatesInv, NEW s \in Streams, End(s), UNCHANGED publisher
    PROVE  /\ UpdatesInv'
           /\ pc'[s] = "ended"
           /\ \A r \in Streams \ {s} : InTime(r) => InTime(r)'
           /\ \A r \in Streams \ {s}, n \in Nat : EndsAt(r, n) => EndsAt(r, n)'
<1>1. pc[s] = "select" /\ bound[s] /\ exchange
  BY DEF End, Goto, UpdatesInv, QueuesKeep
<1>2. /\ pc' = [pc EXCEPT ![s] = "ended"] /\ bound' = [bound EXCEPT ![s] = FALSE]
      /\ queue' = [queue EXCEPT ![s] = <<>>] /\ UNCHANGED channel
      /\ exchange' = (exchange /\ (bound[s] => \E r \in Streams \ {s} : bound[r]))
  BY DEF End, Goto, Unbind, QueueGoes
<1>3. exchange' = \E r \in Streams \ {s} : bound[r]
  BY <1>1, <1>2
<1>4. UpdateTypes'
  BY <1>2, <1>3 DEF UpdatesInv, UpdateTypes
<1>5. /\ pc'[s] = "ended" /\ bound'[s] = FALSE /\ queue'[s] = <<>>
      /\ \A r \in Streams \ {s} : pc'[r] = pc[r] /\ bound'[r] = bound[r] /\ queue'[r] = queue[r]
  BY <1>2 DEF UpdatesInv, UpdateTypes
<1>6. \A r \in Streams : bound'[r] => exchange'
  BY <1>3, <1>5
<1>7. QueuesKeep'
  BY <1>2, <1>5, <1>6 DEF UpdatesInv, QueuesKeep
<1>8. \A r \in Streams \ {s} : InTime(r) => InTime(r)'
  BY <1>5 DEF InTime
<1>9. \A r \in Streams \ {s}, n \in Nat : EndsAt(r, n) => EndsAt(r, n)'
  BY <1>5 DEF EndsAt, isTerminalState
<1> QED
  BY <1>4, <1>5, <1>7, <1>8, <1>9 DEF UpdatesInv

\* A call takes the first update of its queue: the others are one place nearer.
LEMMA UpdateTaken ==
    ASSUME UpdatesInv, NEW s \in Streams, SelectUpdate(s), ~End(s)
    PROVE  /\ UpdatesInv'
           /\ UNCHANGED <<pc, bound, publisher, worker>>
           /\ \A n \in Nat : EndsAt(s, n) => EndsAt(s, n - 1)'
           /\ \A r \in Streams \ {s}, n \in Nat : EndsAt(r, n) => EndsAt(r, n)'
<1>1. /\ queue[s] # <<>> /\ ~isTerminalState(Head(queue[s]))
      /\ queue' = [queue EXCEPT ![s] = Tail(@)]
      /\ UNCHANGED <<exchange, channel, bound, pc, publisher, worker>>
  BY DEF SelectUpdate, session
<1>2. queue \in [Streams -> Seq(Sent)]
  BY DEF UpdatesInv, UpdateTypes
<1>3. /\ queue'[s] = Tail(queue[s])
      /\ \A r \in Streams \ {s} : queue'[r] = queue[r]
      /\ queue' \in [Streams -> Seq(Sent)]
  BY <1>1, <1>2, TakenFirst
<1>4. UpdatesInv'
  BY <1>1, <1>3 DEF UpdatesInv, UpdateTypes, QueuesKeep
<1>5. ASSUME NEW n \in Nat, EndsAt(s, n)
      PROVE  EndsAt(s, n - 1)'
  <2>1. queue[s] \in Seq(Sent) /\ n \in 1..Len(queue[s]) /\ isTerminalState(queue[s][n])
    BY <1>2, <1>5 DEF EndsAt
  <2>2. n # 1
    BY <1>1, <2>1, TakenFirst
  <2>3. n - 1 \in 1..Len(queue'[s]) /\ queue'[s][n - 1] = queue[s][n]
    BY <1>1, <1>3, <2>1, <2>2, TakenFirst
  <2> QED
    BY <2>1, <2>3 DEF EndsAt, isTerminalState
<1>6. \A r \in Streams \ {s}, n \in Nat : EndsAt(r, n) => EndsAt(r, n)'
  BY <1>3 DEF EndsAt, isTerminalState
<1> QED
  BY <1>1, <1>4, <1>5, <1>6

\* A step in which a call takes no update.
Stays(s) ==
    /\ InTime(s) => InTime(s)' \/ pc'[s] = "ended"
    /\ InTime(s) /\ worker = "running" /\ worker' = "storing" /\ isTerminalState(ending')
          => \E n \in Nat : EndsAt(s, n)'
    /\ \A n \in Nat : EndsAt(s, n) => pc'[s] = "ended" \/ EndsAt(s, n)'

\* Each step of the worker, of the other tasks, of the server and of a call.
LEMMA UpdatesStep ==
    ASSUME UpdatesInv, Next
    PROVE  UpdatesInv' /\ \A s \in Streams : SelectUpdate(s) \/ Stays(s)
<1>1. ASSUME UNCHANGED <<queue, bound, publisher>>, UpdatesInv',
             UNCHANGED worker \/ worker' # "storing"
      PROVE  \A s \in Streams : Stays(s)
  BY <1>1, QueuesRest DEF Stays, InTime
<1>2. CASE PublishStarted \/ PublishNewSolution
  <2>1. PICK u \in {"STARTED", "NEW_SOLUTION"} : PublishOn(u, FALSE)
    BY <1>2 DEF PublishStarted, PublishNewSolution
  <2>2. UNCHANGED pc /\ (UNCHANGED worker \/ worker' # "storing")
    BY <1>2 DEF PublishStarted, PublishNewSolution, calls
  <2> QED
    BY <2>1, <2>2, PublishKeeps DEF Stays, Sent
<1>3. ASSUME NEW e \in {"PAUSED", "INTERRUPTED", "ERROR", "FINISHED"}, PublishEnding(e)
      PROVE  UpdatesInv' /\ \A s \in Streams : Stays(s)
  <2>1. PublishOn(e, TRUE) /\ UNCHANGED pc /\ ending' = e
    BY <1>3 DEF PublishEnding, calls
  <2>2. e \in Sent
    BY DEF Sent, Terminal
  <2>3. isTerminalState(ending') => isTerminalState(e)
    BY <2>1
  <2> QED
    BY <2>1, <2>2, <2>3, PublishKeeps DEF Stays
<1>4. CASE SendStarted \/ SendInProgress \/ SendEnding
  <2>1. UNCHANGED <<queue, bound, publisher, exchange, channel, pc>>
        /\ (UNCHANGED worker \/ worker' # "storing")
    BY <1>4 DEF SendStarted, SendInProgress, SendEnding, broker, calls, session
  <2>2. UpdatesInv'
    BY <2>1 DEF UpdatesInv, UpdateTypes, QueuesKeep
  <2> QED
    BY <1>1, <2>1, <2>2
<1>5. CASE PublishForeign
  <2>1. /\ exchange' = TRUE /\ Deliver(None)
        /\ UNCHANGED <<worker, publisher, channel, bound, pc>>
    BY <1>5 DEF PublishForeign, session, calls
  <2>2. None \in Sent
    BY DEF Sent
  <2>3. /\ queue' \in [Streams -> Seq(Sent)]
        /\ \A s \in Streams : queue'[s] # <<>> => bound[s]
        /\ \A s \in Streams, n \in Nat : EndsAt(s, n) => EndsAt(s, n)'
    BY <2>1, <2>2, DeliverKeeps
  <2>4. UpdatesInv'
    BY <2>1, <2>3 DEF UpdatesInv, UpdateTypes, QueuesKeep
  <2> QED
    BY <2>1, <2>3, <2>4 DEF Stays, InTime
<1>6. CASE StopTsp
  <2>1. /\ channel' = IF exchange THEN channel ELSE "closed"
        /\ Deliver("INTERRUPTED") \/ UNCHANGED queue
        /\ UNCHANGED <<worker, publisher, exchange, bound, pc>>
    BY <1>6 DEF StopTsp, session, calls
  <2>2. "INTERRUPTED" \in Sent
    BY DEF Sent, Terminal
  <2>3. /\ queue' \in [Streams -> Seq(Sent)]
        /\ \A s \in Streams : queue'[s] # <<>> => bound[s]
        /\ \A s \in Streams, n \in Nat : EndsAt(s, n) => EndsAt(s, n)'
    BY <2>1, <2>2, DeliverKeeps, QueuesRest DEF UpdatesInv, UpdateTypes, QueuesKeep
  <2>4. UpdatesInv'
    BY <2>1, <2>3 DEF UpdatesInv, UpdateTypes, QueuesKeep
  <2> QED
    BY <2>1, <2>3, <2>4 DEF Stays, InTime
<1>7. ASSUME NEW s \in Streams, QueueDeclare(s) \/ Consume(s) \/ retrieveLatestStatus(s)
      PROVE  UpdatesInv' /\ \A r \in Streams : Stays(r)
  <2>1. UNCHANGED <<queue, bound, publisher, exchange, channel, worker>>
    BY <1>7 DEF QueueDeclare, Consume, retrieveLatestStatus, broker, session
  <2>2. UpdatesInv'
    BY <1>7, <2>1 DEF QueueDeclare, Consume, retrieveLatestStatus, Goto, UpdatesInv,
       UpdateTypes, QueuesKeep
  <2> QED
    BY <1>1, <2>1, <2>2
<1>8. ASSUME NEW s \in Streams, QueueBind(s)
      PROVE  UpdatesInv' /\ \A r \in Streams : Stays(r)
  <2>1. /\ pc[s] = "bind" /\ pc' = [pc EXCEPT ![s] = "consume"]
        /\ bound' = [bound EXCEPT ![s] = channel = "open" /\ exchange]
        /\ channel' = IF exchange THEN channel ELSE "closed"
        /\ UNCHANGED <<exchange, queue, publisher, worker>>
    BY <1>8 DEF QueueBind, Goto, session
  <2>2. ~bound[s] /\ queue[s] = <<>>
    BY <2>1 DEF UpdatesInv, QueuesKeep
  <2>3. \A r \in Streams : bound[r] => bound'[r]
    BY <2>1, <2>2 DEF UpdatesInv, UpdateTypes
  <2>4. UpdatesInv'
    BY <2>1, <2>2 DEF UpdatesInv, UpdateTypes, QueuesKeep
  <2> QED
    BY <2>1, <2>3, <2>4, QueuesRest DEF Stays, InTime
<1>9. ASSUME NEW s \in Streams, End(s), UNCHANGED <<publisher, worker>>
      PROVE  UpdatesInv' /\ \A r \in Streams : Stays(r)
  BY <1>9, EndTakesQueue DEF Stays
<1>10. ASSUME NEW s \in Streams, SelectLatest(s) \/ ContextDone(s)
       PROVE  UpdatesInv' /\ \A r \in Streams : Stays(r)
  <2>1. CASE End(s) /\ UNCHANGED <<publisher, worker>>
    BY <1>9, <2>1
  <2>2. CASE UNCHANGED <<queue, bound, publisher, exchange, channel, pc, worker>>
    <3>1. UpdatesInv'
      BY <2>2 DEF UpdatesInv, UpdateTypes, QueuesKeep
    <3> QED
      BY <1>1, <2>2, <3>1
  <2> QED
    BY <1>10, <2>1, <2>2 DEF SelectLatest, ContextDone, broker, session
<1>11. ASSUME NEW s \in Streams, SelectUpdate(s)
       PROVE  UpdatesInv' /\ \A r \in Streams : SelectUpdate(r) \/ Stays(r)
  <2>1. UNCHANGED <<publisher, worker>>
    BY <1>11 DEF SelectUpdate, session
  <2>2. CASE End(s)
    BY <1>9, <2>1, <2>2
  <2>3. CASE ~End(s)
    BY <1>11, <2>1, <2>3, UpdateTaken DEF Stays, InTime
  <2> QED
    BY <2>2, <2>3
<1> QED
  BY <1>2, <1>3, <1>4, <1>5, <1>6, <1>7, <1>8, <1>10, <1>11
  DEF Next, WorkerStep, StreamStep

LEMMA StepNearer ==
    ASSUME UpdatesInv, Next, NEW s \in Streams
    PROVE  Nearer(s)
<1>1. CASE SelectUpdate(s)
  <2>1. UNCHANGED <<publisher, worker>>
    BY <1>1 DEF SelectUpdate, session
  <2>2. CASE End(s)
    <3>1. pc'[s] = "ended"
      BY <2>1, <2>2, EndTakesQueue
    <3> QED
      BY <2>1, <3>1 DEF Nearer
  <2>3. CASE ~End(s)
    BY <1>1, <2>1, <2>3, UpdateTaken DEF Nearer, InTime
  <2> QED
    BY <2>2, <2>3
<1>2. CASE ~SelectUpdate(s)
  BY <1>2, UpdatesStep DEF Stays, Nearer
<1> QED
  BY <1>1, <1>2

LEMMA UpdatesInvariant == ProgressSpec => []UpdatesInv
<1>1. ProgressInit => UpdatesInv
  BY DEF ProgressInit, Init, UpdatesInv, UpdateTypes, QueuesKeep
<1>2. UpdatesInv /\ [ProgressNext]_progressVars => UpdatesInv'
  <2> SUFFICES ASSUME UpdatesInv, [ProgressNext]_progressVars PROVE UpdatesInv'
    OBVIOUS
  <2>1. CASE Next
    BY <2>1, UpdatesStep
  <2>2. CASE UNCHANGED vars
    BY <2>2 DEF vars, UpdatesInv, UpdateTypes, QueuesKeep
  <2> QED
    BY <2>1, <2>2 DEF ProgressNext, Updates, Streamed, Cached, Asked, progressVars
<1> QED
  BY <1>1, <1>2, PTL DEF ProgressSpec

\* A subscriber whose queue is bound stays in time for the last update of the task, gets
\* it, and comes nearer to it with each update it takes, on a channel nobody closes: this
\* is what StreamEnds rests on, beside a select that does not pass over a queue for ever.
THEOREM EndIsCertain == ProgressSpec => []EndIsRead /\ EndGetsNearer
<1>1. UpdatesInv => EndIsRead
  <2> SUFFICES ASSUME UpdatesInv, NEW s \in Streams, NEW n \in Nat, EndsAt(s, n)
               PROVE  bound[s] /\ channel = "open" /\ pc[s] \in {"consume", "select"}
    BY DEF EndIsRead
  <2>1. queue[s] # <<>>
    BY DEF EndsAt
  <2> QED
    BY <2>1 DEF UpdatesInv, QueuesKeep
<1>2. UpdatesInv /\ [ProgressNext]_progressVars => [\A s \in Streams : Nearer(s)]_vars
  BY StepNearer DEF ProgressNext, Updates, Streamed, Cached, Asked, progressVars
<1>3. [][\A s \in Streams : Nearer(s)]_vars => EndGetsNearer
  BY PTL DEF EndGetsNearer, Nearer
<1> QED
  BY <1>1, <1>2, <1>3, UpdatesInvariant, PTL DEF ProgressSpec

=============================================================================
