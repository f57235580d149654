------------------------- MODULE WaybillScheduling --------------------------
(***************************************************************************)
(* The two algorithms of the scheduler: LinearWaybillSchedulingAlgorithm   *)
(* starts every allocation of a waybill as early as it can, and            *)
(* BilinearWaybillSchedulingAlgorithm then lets the vehicle leave later    *)
(* rather than wait, by shifting what is scheduled already as far as its   *)
(* time windows allow.  Times and durations are seconds.                   *)
(***************************************************************************)
EXTENDS Integers, Sequences

CONSTANTS
    Waybills,         \* waybills: allocations with windows, planned, start, end, next
    Durations,        \* durations of routes the router may answer with
    Starts,           \* beginnings of work shifts
    InfiniteInterval, \* TimeInterval::infinity()
    Forever           \* TimePoint::infinity()

ASSUME TimesAssumption ==
    /\ Durations \subseteq Nat /\ Starts \subseteq Nat
    /\ InfiniteInterval \in Nat /\ Forever \in Nat

Window == [start : Int, end : Int]
Allocation ==
    [windows : Seq(Window), planned : Nat, start : Nat, end : Nat, next : Nat]

\* A window begins before TimeInterval::infinity(), which is in 2084 as a time.
ASSUME WaybillsAssumption ==
    /\ Waybills \subseteq Seq(Allocation)
    /\ \A w \in Waybills : \A j \in 1..Len(w) : \A k \in 1..Len(w[j].windows) :
           w[j].windows[k].start <= InfiniteInterval

VARIABLES
    algorithm,     \* "LINEAR" or "BILINEAR"
    waybill,
    shift_start,   \* getEarliestPossibleStartTime()
    i,             \* the allocation the loop is at, from 1
    current_time,
    shift_budget   \* how much later what is scheduled may still start

vars == <<algorithm, waybill, shift_start, i, current_time, shift_budget>>

----------------------------------------------------------------------------
max(a, b) == IF a > b THEN a ELSE b
min(a, b) == IF a < b THEN a ELSE b

\* The first window, whatever the time is; without windows any time will do.
getNearestNextTimeWindow(a) ==
    IF a.windows = <<>> THEN [start |-> 0, end |-> Forever] ELSE a.windows[1]

InLoop(w) == i <= Len(w)

\* The route to the allocation after this one; after the last one there is none.
NextRoute(w) == IF i < Len(w) THEN Durations ELSE {0}

Init ==
    /\ algorithm \in {"LINEAR", "BILINEAR"}
    /\ waybill \in Waybills
    /\ shift_start \in Starts
    /\ i = 1
    /\ current_time = shift_start
    /\ shift_budget = InfiniteInterval

\* Start and end of the allocation, on arrival at the time now.
Allocated(a, now, next) ==
    LET start == max(now, getNearestNextTimeWindow(a).start) IN
    [a EXCEPT !.start = start, !.end = start + a.planned, !.next = next]

\* Fault: the vehicle leaves when it arrived.
LinearFromArrival ==
    /\ algorithm = "LINEAR"
    /\ InLoop(waybill)
    /\ \E next \in NextRoute(waybill) :
        LET a == Allocated(waybill[i], current_time, next) IN
        /\ waybill' = [waybill EXCEPT ![i] = a]
        /\ current_time' = current_time + a.planned + next
    /\ i' = i + 1
    /\ UNCHANGED <<algorithm, shift_start, shift_budget>>

Linear ==
    /\ algorithm = "LINEAR"
    /\ InLoop(waybill)
    /\ \E next \in NextRoute(waybill) :
        LET a == Allocated(waybill[i], current_time, next) IN
        /\ waybill' = [waybill EXCEPT ![i] = a]
        /\ current_time' = a.end + next
    /\ i' = i + 1
    /\ UNCHANGED <<algorithm, shift_start, shift_budget>>

shiftStartTime(a, shift) == [a EXCEPT !.start = @ + shift, !.end = @ + shift]

\* Fault: the whole waiting time is shifted, beyond the windows of those before.
ShiftAll(waiting, budget) == max(0, waiting)

\* Fault: nothing is shifted.
ShiftNone(waiting, budget) == 0

\* Fault: as far as the windows allow, whether there is somebody to wait for or not.
ShiftByBudget(waiting, budget) == max(0, budget)

Shift(waiting, budget) == max(0, min(waiting, budget))

Bilinear ==
    /\ algorithm = "BILINEAR"
    /\ InLoop(waybill)
    /\ \E next \in NextRoute(waybill) :
        LET tw == getNearestNextTimeWindow(waybill[i])
            shift == Shift(tw.start - current_time, shift_budget)
            a == Allocated(waybill[i], current_time + shift, next)
        IN /\ waybill' = [j \in 1..Len(waybill) |->
                             CASE j = i -> a
                               [] j < i -> shiftStartTime(waybill[j], shift)
                               [] OTHER -> waybill[j]]
           /\ current_time' = a.end + next
           /\ shift_budget' = min(shift_budget - shift, tw.end - a.end)
    /\ i' = i + 1
    /\ UNCHANGED <<algorithm, shift_start>>

Next == Linear \/ Bilinear

Spec == Init /\ [][Next]_vars

----------------------------------------------------------------------------
\* The types of the variables: no time ever gets before the epoch.
TypeOK ==
    /\ algorithm \in {"LINEAR", "BILINEAR"}
    /\ waybill \in Seq(Allocation)
    /\ shift_start \in Nat
    /\ i \in 1..(Len(waybill) + 1)
    /\ current_time \in Nat
    /\ shift_budget \in Int

Scheduled == 1..(i - 1)
OnTime(a) == a.end <= getNearestNextTimeWindow(a).end

\* The plan can be driven: no allocation starts before its window or before the
\* vehicle is there, and each takes as long as was planned, however often it was
\* shifted.
Feasible ==
    \A j \in Scheduled :
        /\ waybill[j].end = waybill[j].start + waybill[j].planned
        /\ waybill[j].start >= getNearestNextTimeWindow(waybill[j]).start
        /\ waybill[j].start >= shift_start
        /\ j > 1 => waybill[j].start >= waybill[j - 1].end + waybill[j - 1].next

\* A shift makes nobody late who was on time ("WaitingTimesAreComprensatedByLaterStart",
\* BilinearWaybillSchedulingAlgorithmTest.cpp:35).
ShiftKeepsOnTime ==
    [][\A j \in Scheduled : OnTime(waybill[j]) => OnTime(waybill'[j])]_vars

\* When each allocation would end if nobody were ever shifted, with the routes so far.
EarliestEnds ==
    LET ends[j \in 0..(i - 1)] ==
            IF j = 0 THEN shift_start
            ELSE max(ends[j - 1] + (IF j = 1 THEN 0 ELSE waybill[j - 1].next),
                     getNearestNextTimeWindow(waybill[j]).start) + waybill[j].planned
    IN ends

\* Leaving later does not cost anything: the last allocation ends as early as it
\* would have, and so every later one.
EndsAsEarly == i > 1 => waybill[i - 1].end = EarliestEnds[i - 1]

\* The vehicle waits only where somebody before has no time left.
WaitsOnlyWithoutSlack ==
    algorithm = "BILINEAR" =>
        \A j \in Scheduled \ {1} :
            waybill[j].start > waybill[j - 1].end + waybill[j - 1].next =>
                \E k \in 1..(j - 1) :
                    waybill[k].end >= getNearestNextTimeWindow(waybill[k]).end

\* "AllocationsAreScheduledWithLateIfTimeWindowsAreTooTight", says a test of that
\* name (LinearWaybillSchedulingAlgorithmTest.cpp:57).
LateOnlyIfWindowsAreTooTight ==
    algorithm = "LINEAR" =>
        \A j \in Scheduled : ~OnTime(waybill[j]) =>
            LET arrival == IF j = 1 THEN shift_start
                           ELSE waybill[j - 1].end + waybill[j - 1].next
            IN \A k \in 1..Len(waybill[j].windows) :
                max(arrival, waybill[j].windows[k].start) + waybill[j].planned
                    > waybill[j].windows[k].end

=============================================================================
