---------------------- MODULE WaybillScheduling_proofs ----------------------
(***************************************************************************)
(* What WaybillScheduling guarantees for waybills of any length, with any  *)
(* windows and any routes.                                                 *)
(***************************************************************************)
EXTENDS WaybillScheduling, TLAPS, WellFoundedInduction

(***************************************************************************)
(* The strengthening: where the loop stands between two allocations, and   *)
(* what the budget is worth.                                               *)
(***************************************************************************)
AtTheNext ==
    current_time = IF i = 1 THEN shift_start
                   ELSE waybill[i - 1].end + waybill[i - 1].next

NeverBefore == current_time >= shift_start

BudgetKeepsOnTime ==
    algorithm = "BILINEAR" =>
        \A j \in Scheduled :
            shift_budget <= getNearestNextTimeWindow(waybill[j]).end - waybill[j].end

\* The budget is that of some allocation, or still what is left of infinity.
BudgetIsSomebodys ==
    algorithm = "BILINEAR" =>
        \/ \E j \in Scheduled :
              shift_budget >= getNearestNextTimeWindow(waybill[j]).end - waybill[j].end
        \/ shift_budget >= InfiniteInterval - current_time

StartsBeforeInfinity ==
    \A j \in 1..Len(waybill) :
        getNearestNextTimeWindow(waybill[j]).start <= InfiniteInterval

IInv ==
    /\ TypeOK
    /\ Feasible
    /\ AtTheNext
    /\ NeverBefore
    /\ BudgetKeepsOnTime
    /\ BudgetIsSomebodys
    /\ StartsBeforeInfinity
    /\ WaitsOnlyWithoutSlack

----------------------------------------------------------------------------
\* The window of an allocation is a window, and only its windows decide which.
LEMMA NearestType ==
    ASSUME NEW a \in Allocation
    PROVE  getNearestNextTimeWindow(a) \in Window
<1>1. a.windows \in Seq(Window)
    BY DEF Allocation
<1>2. CASE a.windows = <<>>
    BY <1>2, TimesAssumption DEF getNearestNextTimeWindow, Window
<1>3. CASE a.windows # <<>>
    <2>1. a.windows[1] \in Window
        BY <1>1, <1>3
    <2> QED BY <2>1, <1>3 DEF getNearestNextTimeWindow
<1> QED BY <1>2, <1>3

LEMMA NearestOfWindows ==
    ASSUME NEW a, NEW b, a.windows = b.windows
    PROVE  getNearestNextTimeWindow(a) = getNearestNextTimeWindow(b)
BY DEF getNearestNextTimeWindow

(***************************************************************************)
(* What both algorithms do to the waybill, with what shift they do it.     *)
(***************************************************************************)
Tw(j) == getNearestNextTimeWindow(waybill[j])

Placed(shift, next) ==
    /\ i \in 1..Len(waybill) /\ i' = i + 1
    /\ shift \in Nat /\ next \in Nat
    /\ waybill' \in Seq(Allocation) /\ Len(waybill') = Len(waybill)
    /\ \A j \in 1..Len(waybill) :
          /\ waybill'[j].windows = waybill[j].windows
          /\ waybill'[j].planned = waybill[j].planned
    /\ \A j \in Scheduled :
          /\ waybill'[j].start = waybill[j].start + shift
          /\ waybill'[j].end = waybill[j].end + shift
          /\ waybill'[j].next = waybill[j].next
    /\ waybill'[i].start = max(current_time + shift, Tw(i).start)
    /\ waybill'[i].end = waybill'[i].start + waybill[i].planned
    /\ waybill'[i].next = next
    /\ current_time' = waybill'[i].end + next
    /\ UNCHANGED <<algorithm, shift_start>>

LEMMA AllocatedType ==
    ASSUME NEW a \in Allocation, NEW now \in Nat, NEW next \in Nat
    PROVE  /\ Allocated(a, now, next) \in Allocation
           /\ Allocated(a, now, next).windows = a.windows
           /\ Allocated(a, now, next).planned = a.planned
           /\ Allocated(a, now, next).next = next
           /\ Allocated(a, now, next).start = max(now, getNearestNextTimeWindow(a).start)
           /\ Allocated(a, now, next).end = Allocated(a, now, next).start + a.planned
<1> DEFINE st == max(now, getNearestNextTimeWindow(a).start)
<1>1. st \in Nat
    BY NearestType DEF max, Window
<1>2. Allocated(a, now, next) = [a EXCEPT !.start = st, !.end = st + a.planned, !.next = next]
    BY DEF Allocated
<1>3. st + a.planned \in Nat
    BY <1>1 DEF Allocation
<1> HIDE DEF st
<1>4. QED
    BY <1>1, <1>2, <1>3 DEF Allocation, st

LEMMA ShiftedType ==
    ASSUME NEW a \in Allocation, NEW shift \in Nat
    PROVE  /\ shiftStartTime(a, shift) \in Allocation
           /\ shiftStartTime(a, shift).windows = a.windows
           /\ shiftStartTime(a, shift).planned = a.planned
           /\ shiftStartTime(a, shift).next = a.next
           /\ shiftStartTime(a, shift).start = a.start + shift
           /\ shiftStartTime(a, shift).end = a.end + shift
<1> DEFINE st == a.start + shift
           en == a.end + shift
<1>1. st \in Nat /\ en \in Nat
    BY DEF Allocation
<1>2. shiftStartTime(a, shift) = [a EXCEPT !.start = st, !.end = en]
    BY DEF shiftStartTime
<1> HIDE DEF st, en
<1>3. [a EXCEPT !.start = st, !.end = en] \in Allocation
    BY <1>1 DEF Allocation
<1>4. /\ [a EXCEPT !.start = st, !.end = en].windows = a.windows
      /\ [a EXCEPT !.start = st, !.end = en].planned = a.planned
      /\ [a EXCEPT !.start = st, !.end = en].next = a.next
      /\ [a EXCEPT !.start = st, !.end = en].start = st
      /\ [a EXCEPT !.start = st, !.end = en].end = en
    BY DEF Allocation
<1> QED BY <1>2, <1>3, <1>4 DEF st, en

LEMMA NextRouteNat == ASSUME NEW w PROVE NextRoute(w) \subseteq Nat
BY TimesAssumption DEF NextRoute

LEMMA LinearPlaces ==
    ASSUME TypeOK, Linear
    PROVE  /\ algorithm = "LINEAR"
           /\ \E next \in Nat : Placed(0, next)
           /\ shift_budget' = shift_budget
<1>1. PICK next \in NextRoute(waybill) :
        LET a == Allocated(waybill[i], current_time, next) IN
        /\ waybill' = [waybill EXCEPT ![i] = a]
        /\ current_time' = a.end + next
    BY DEF Linear
<1> DEFINE a == Allocated(waybill[i], current_time, next)
<1>2. next \in Nat
    BY <1>1, NextRouteNat
<1>3. i \in 1..Len(waybill) /\ i' = i + 1
    BY DEF Linear, InLoop, TypeOK
<1>4. waybill[i] \in Allocation /\ current_time \in Nat
    BY <1>3 DEF TypeOK
<1>5. /\ a \in Allocation
      /\ a.windows = waybill[i].windows
      /\ a.planned = waybill[i].planned
      /\ a.next = next
      /\ a.start = max(current_time, Tw(i).start)
      /\ a.end = a.start + waybill[i].planned
    BY <1>2, <1>4, AllocatedType DEF Tw
<1> HIDE DEF a
<1>6. waybill' = [waybill EXCEPT ![i] = a] /\ current_time' = a.end + next
    BY <1>1 DEF a
<1>7. /\ waybill' \in Seq(Allocation) /\ Len(waybill') = Len(waybill)
      /\ waybill'[i] = a
      /\ \A j \in 1..Len(waybill) : j # i => waybill'[j] = waybill[j]
    BY <1>3, <1>5, <1>6 DEF TypeOK
<1>8. \A j \in Scheduled : j \in 1..Len(waybill) /\ j # i /\ waybill[j] \in Allocation
    BY <1>3 DEF Scheduled, TypeOK
<1>9. \A j \in Scheduled :
          /\ waybill'[j].start = waybill[j].start + 0
          /\ waybill'[j].end = waybill[j].end + 0
          /\ waybill'[j].next = waybill[j].next
    <2>1. \A b \in Allocation : b.start = b.start + 0 /\ b.end = b.end + 0
        BY DEF Allocation
    <2> QED BY <1>7, <1>8, <2>1
<1>10. current_time + 0 = current_time
    BY <1>4
<1>11. \A j \in 1..Len(waybill) :
          /\ waybill'[j].windows = waybill[j].windows
          /\ waybill'[j].planned = waybill[j].planned
    BY <1>5, <1>7
<1>12. Placed(0, next)
    BY <1>2, <1>3, <1>5, <1>6, <1>7, <1>9, <1>10, <1>11 DEF Placed, Linear
<1> QED BY <1>2, <1>12 DEF Linear

LEMMA ShiftType ==
    ASSUME NEW waiting \in Int, NEW budget \in Int
    PROVE  /\ Shift(waiting, budget) \in Nat
           /\ Shift(waiting, budget) > 0 =>
                  Shift(waiting, budget) <= waiting /\ Shift(waiting, budget) <= budget
           /\ Shift(waiting, budget) < waiting => Shift(waiting, budget) >= budget
BY DEF Shift, max, min

LEMMA BilinearPlaces ==
    ASSUME TypeOK, Bilinear
    PROVE  /\ algorithm = "BILINEAR"
           /\ \E next \in Nat : LET shift == Shift(Tw(i).start - current_time, shift_budget) IN
                 /\ Placed(shift, next)
                 /\ shift_budget' = min(shift_budget - shift, Tw(i).end - waybill'[i].end)
<1> DEFINE shift == Shift(Tw(i).start - current_time, shift_budget)
<1>1. PICK next \in NextRoute(waybill) :
        LET a == Allocated(waybill[i], current_time + shift, next) IN
        /\ waybill' = [j \in 1..Len(waybill) |->
                             CASE j = i -> a
                               [] j < i -> shiftStartTime(waybill[j], shift)
                               [] OTHER -> waybill[j]]
        /\ current_time' = a.end + next
        /\ shift_budget' = min(shift_budget - shift, Tw(i).end - a.end)
    BY DEF Bilinear, Tw
<1> DEFINE a == Allocated(waybill[i], current_time + shift, next)
<1>2. next \in Nat
    BY <1>1, NextRouteNat
<1>3. i \in 1..Len(waybill) /\ i' = i + 1
    BY DEF Bilinear, InLoop, TypeOK
<1>4. waybill[i] \in Allocation /\ current_time \in Nat /\ shift_budget \in Int
    BY <1>3 DEF TypeOK
<1>5. shift \in Nat
    <2>1. Tw(i).start \in Int
        BY <1>4, NearestType DEF Tw, Window
    <2>2. Tw(i).start - current_time \in Int
        BY <1>4, <2>1
    <2> QED BY <1>4, <2>2, ShiftType DEF shift
<1> HIDE DEF shift
<1>6. /\ a \in Allocation
      /\ a.windows = waybill[i].windows
      /\ a.planned = waybill[i].planned
      /\ a.next = next
      /\ a.start = max(current_time + shift, Tw(i).start)
      /\ a.end = a.start + waybill[i].planned
    <2>1. current_time + shift \in Nat
        BY <1>4, <1>5
    <2> QED BY <1>2, <1>4, <2>1, AllocatedType DEF Tw
<1> HIDE DEF a
<1>7. /\ waybill' = [j \in 1..Len(waybill) |->
                             CASE j = i -> a
                               [] j < i -> shiftStartTime(waybill[j], shift)
                               [] OTHER -> waybill[j]]
      /\ current_time' = a.end + next
      /\ shift_budget' = min(shift_budget - shift, Tw(i).end - a.end)
    BY <1>1 DEF a
<1>8. \A j \in 1..Len(waybill) : waybill[j] \in Allocation
    BY DEF TypeOK
<1>9. waybill'[i] = a
    BY <1>3, <1>7
<1>10. \A j \in 1..Len(waybill) : j < i => waybill'[j] = shiftStartTime(waybill[j], shift)
    <2> TAKE j \in 1..Len(waybill)
    <2> HAVE j < i
    <2>1. j # i
        BY <1>3
    <2> QED BY <2>1, <1>7
<1>11. \A j \in 1..Len(waybill) : j > i => waybill'[j] = waybill[j]
    <2> TAKE j \in 1..Len(waybill)
    <2> HAVE j > i
    <2>1. j # i /\ ~(j < i)
        BY <1>3
    <2> QED BY <2>1, <1>7
<1>12. \A j \in 1..Len(waybill) :
          /\ waybill'[j] \in Allocation
          /\ waybill'[j].windows = waybill[j].windows
          /\ waybill'[j].planned = waybill[j].planned
    <2> TAKE j \in 1..Len(waybill)
    <2>1. CASE j = i
        BY <2>1, <1>6, <1>9
    <2>2. CASE j < i
        <3>1. waybill'[j] = shiftStartTime(waybill[j], shift) /\ waybill[j] \in Allocation
            BY <2>2, <1>8, <1>10
        <3> QED BY <3>1, <1>5, ShiftedType
    <2>3. CASE j > i
        BY <2>3, <1>8, <1>11
    <2> QED BY <1>3, <2>1, <2>2, <2>3
<1>13. waybill' \in Seq(Allocation) /\ Len(waybill') = Len(waybill)
    <2>1. Len(waybill) \in Nat
        BY DEF TypeOK
    <2>2. waybill' \in [1..Len(waybill) -> Allocation]
        BY <1>7, <1>12
    <2> QED BY <2>1, <2>2
<1>14. \A j \in Scheduled :
          /\ waybill'[j].start = waybill[j].start + shift
          /\ waybill'[j].end = waybill[j].end + shift
          /\ waybill'[j].next = waybill[j].next
    <2> TAKE j \in Scheduled
    <2>1. j \in 1..Len(waybill) /\ j < i
        BY <1>3 DEF Scheduled
    <2>2. waybill'[j] = shiftStartTime(waybill[j], shift) /\ waybill[j] \in Allocation
        BY <2>1, <1>8, <1>10
    <2> QED BY <2>2, <1>5, ShiftedType
<1>15. Placed(shift, next)
    BY <1>2, <1>3, <1>5, <1>6, <1>7, <1>9, <1>12, <1>13, <1>14 DEF Placed, Bilinear
<1> QED BY <1>2, <1>7, <1>9, <1>15 DEF Bilinear, shift

----------------------------------------------------------------------------
(***************************************************************************)
(* A step of either algorithm preserves the invariant.                     *)
(***************************************************************************)
LEMMA BothLater ==
    ASSUME NEW a \in Int, NEW b \in Int, NEW c \in Int, NEW s \in Int, a >= b + c
    PROVE  a + s >= (b + s) + c
OBVIOUS

LEMMA StillLater ==
    ASSUME NEW a \in Int, NEW b \in Int, NEW p \in Nat, NEW n \in Nat, a >= b
    PROVE  (a + p) + n >= b
OBVIOUS

LEMMA LessBudget ==
    ASSUME NEW b \in Int, NEW s \in Int, NEW c \in Int, NEW d \in Int, NEW n \in Int,
           b >= n - c, d >= c + s
    PROVE  b - s >= n - d
OBVIOUS

LEMMA Numbers ==
    ASSUME TypeOK
    PROVE  \A j \in 1..Len(waybill) :
              /\ waybill[j] \in Allocation
              /\ waybill[j].start \in Nat /\ waybill[j].end \in Nat
              /\ waybill[j].planned \in Nat /\ waybill[j].next \in Nat
              /\ Tw(j).start \in Int /\ Tw(j).end \in Int
<1> TAKE j \in 1..Len(waybill)
<1>1. waybill[j] \in Allocation
    BY DEF TypeOK
<1> QED BY <1>1, NearestType DEF Allocation, Window, Tw

LEMMA SameWindows ==
    ASSUME NEW shift, NEW next, Placed(shift, next)
    PROVE  \A j \in 1..Len(waybill) : getNearestNextTimeWindow(waybill'[j]) = Tw(j)
BY NearestOfWindows DEF Placed, Tw

LEMMA PlacedTypes ==
    ASSUME TypeOK, NEW shift, NEW next, Placed(shift, next)
    PROVE  /\ waybill' \in Seq(Allocation)
           /\ shift_start' \in Nat
           /\ i' \in 1..(Len(waybill') + 1)
           /\ current_time' \in Nat
           /\ algorithm' \in {"LINEAR", "BILINEAR"}
<1>1. waybill'[i] \in Allocation
    BY DEF Placed
<1>2. waybill'[i].end \in Nat /\ next \in Nat
    BY <1>1 DEF Allocation, Placed
<1>3. i' \in 1..(Len(waybill') + 1)
    BY DEF Placed, TypeOK
<1> QED BY <1>2, <1>3 DEF Placed, TypeOK

LEMMA PlacedKeeps ==
    ASSUME TypeOK, Feasible, AtTheNext, NeverBefore, StartsBeforeInfinity,
           NEW shift, NEW next, Placed(shift, next)
    PROVE  /\ Feasible' /\ AtTheNext' /\ NeverBefore' /\ StartsBeforeInfinity'
           /\ \A j \in Scheduled' \ {i} : j \in Scheduled
<1>1. /\ i \in 1..Len(waybill) /\ Len(waybill) \in Nat
      /\ Scheduled = 1..(i - 1) /\ Scheduled' = 1..i
      /\ shift \in Nat /\ next \in Nat
      /\ current_time \in Nat /\ shift_start \in Nat
    <2>1. i' - 1 = i
        BY DEF Placed
    <2> QED BY <2>1 DEF Placed, TypeOK, Scheduled
<1>2. /\ waybill'[i].start >= current_time + shift
      /\ waybill'[i].start >= Tw(i).start
      /\ waybill'[i].end = waybill'[i].start + waybill[i].planned
      /\ waybill'[i].next = next
      /\ waybill'[i].start \in Int /\ waybill'[i].end \in Int
    <2>1. waybill'[i].start = max(current_time + shift, Tw(i).start)
        BY DEF Placed
    <2>2. Tw(i).start \in Int /\ waybill[i].planned \in Nat
        BY <1>1, Numbers
    <2> QED BY <1>1, <2>1, <2>2 DEF max, Placed
<1>3. \A j \in Scheduled :
          /\ j \in 1..Len(waybill)
          /\ waybill'[j].start = waybill[j].start + shift
          /\ waybill'[j].end = waybill[j].end + shift
          /\ waybill'[j].next = waybill[j].next
    BY <1>1 DEF Placed
<1>4. Feasible'
    <2> SUFFICES ASSUME NEW j \in 1..i
                 PROVE  /\ waybill'[j].end = waybill'[j].start + waybill'[j].planned
                        /\ waybill'[j].start >= getNearestNextTimeWindow(waybill'[j]).start
                        /\ waybill'[j].start >= shift_start'
                        /\ j > 1 => waybill'[j].start >= waybill'[j - 1].end + waybill'[j - 1].next
        BY <1>1 DEF Feasible
    <2>1. j \in 1..Len(waybill)
        BY <1>1
    <2>2. /\ getNearestNextTimeWindow(waybill'[j]) = Tw(j)
          /\ waybill'[j].planned = waybill[j].planned
          /\ shift_start' = shift_start
        BY <2>1, SameWindows DEF Placed
    <2>3. /\ waybill[j].start \in Nat /\ waybill[j].end \in Nat
          /\ waybill[j].planned \in Nat /\ Tw(j).start \in Int
        BY <2>1, Numbers
    <2>4. CASE j = i
        <3>1. i > 1 => /\ waybill'[i - 1].end = waybill[i - 1].end + shift
                       /\ waybill'[i - 1].next = waybill[i - 1].next
                       /\ waybill[i - 1].end \in Nat /\ waybill[i - 1].next \in Nat
                       /\ current_time = waybill[i - 1].end + waybill[i - 1].next
            BY <1>1, <1>3, Numbers DEF AtTheNext
        <3>2. i > 1 => waybill'[i].start >= waybill'[i - 1].end + waybill'[i - 1].next
            <4> HAVE i > 1
            <4>1. /\ current_time = waybill[i - 1].end + waybill[i - 1].next
                  /\ waybill'[i - 1].end + waybill'[i - 1].next
                        = (waybill[i - 1].end + shift) + waybill[i - 1].next
                BY <3>1
            <4>2. (waybill[i - 1].end + shift) + waybill[i - 1].next
                     = (waybill[i - 1].end + waybill[i - 1].next) + shift
                BY <3>1, <1>1
            <4> QED BY <4>1, <4>2, <1>2
        <3> QED BY <2>2, <2>3, <2>4, <3>2, <1>1, <1>2 DEF NeverBefore
    <2>5. CASE j # i
        <3>1. j \in Scheduled
            BY <2>5, <1>1
        <3>2. /\ waybill[j].end = waybill[j].start + waybill[j].planned
              /\ waybill[j].start >= Tw(j).start
              /\ waybill[j].start >= shift_start
              /\ j > 1 => waybill[j].start >= waybill[j - 1].end + waybill[j - 1].next
            BY <3>1 DEF Feasible, Tw
        <3>3. j > 1 => /\ waybill'[j - 1].end = waybill[j - 1].end + shift
                       /\ waybill'[j - 1].next = waybill[j - 1].next
                       /\ waybill[j - 1].end \in Nat /\ waybill[j - 1].next \in Nat
            <4> HAVE j > 1
            <4>1. j - 1 \in Scheduled
                BY <3>1, <1>1
            <4> QED BY <4>1, <1>3, Numbers
        <3>4. waybill'[j].start = waybill[j].start + shift /\ waybill'[j].end = waybill[j].end + shift
            BY <3>1, <1>3
        <3>5. j > 1 => waybill'[j].start >= waybill'[j - 1].end + waybill'[j - 1].next
            <4> HAVE j > 1
            <4>1. waybill[j].start >= waybill[j - 1].end + waybill[j - 1].next
                BY <3>2
            <4>2. /\ waybill[j].start \in Int /\ waybill[j - 1].end \in Int
                  /\ waybill[j - 1].next \in Int /\ shift \in Int
                BY <3>3, <2>3, <1>1
            <4>3. waybill[j].start + shift >= (waybill[j - 1].end + shift) + waybill[j - 1].next
                BY <4>1, <4>2, BothLater
            <4> QED BY <4>3, <3>3, <3>4
        <3>6. waybill'[j].end = waybill'[j].start + waybill'[j].planned
            <4>1. (waybill[j].start + waybill[j].planned) + shift
                    = (waybill[j].start + shift) + waybill[j].planned
                BY <2>3, <1>1
            <4> QED BY <4>1, <3>2, <3>4, <2>2
        <3>7. /\ waybill'[j].start >= Tw(j).start
              /\ waybill'[j].start >= shift_start
            BY <3>2, <3>4, <2>3, <1>1
        <3> QED BY <3>5, <3>6, <3>7, <2>2
    <2> QED BY <2>4, <2>5
<1>5. AtTheNext'
    <2>1. i' - 1 = i /\ i' # 1
        BY <1>1 DEF Placed
    <2> QED BY <2>1, <1>1, <1>2 DEF AtTheNext, Placed
<1>6. NeverBefore'
    <2>1. waybill[i].planned \in Nat
        BY <1>1, Numbers
    <2>2. current_time' = waybill'[i].end + next /\ shift_start' = shift_start
        BY DEF Placed
    <2> QED BY <2>1, <2>2, <1>1, <1>2 DEF NeverBefore
<1>7. StartsBeforeInfinity'
    BY SameWindows DEF StartsBeforeInfinity, Placed, Tw
<1>8. \A j \in Scheduled' \ {i} : j \in Scheduled
    BY <1>1
<1> QED BY <1>4, <1>5, <1>6, <1>7, <1>8

\* An allocation is on time as long as its slack is not negative.
LEMMA LinearKeeps ==
    ASSUME IInv, Linear
    PROVE  IInv' /\ \A j \in Scheduled : OnTime(waybill[j]) => OnTime(waybill'[j])
<1>1. PICK next \in Nat : Placed(0, next)
    BY LinearPlaces DEF IInv
<1>2. algorithm = "LINEAR" /\ algorithm' = "LINEAR" /\ shift_budget' = shift_budget
    BY <1>1, LinearPlaces DEF IInv, Placed
<1>3. TypeOK'
    BY <1>1, <1>2, PlacedTypes DEF IInv, TypeOK
<1>4. Feasible' /\ AtTheNext' /\ NeverBefore' /\ StartsBeforeInfinity'
    BY <1>1, PlacedKeeps DEF IInv
<1>5. BudgetKeepsOnTime' /\ BudgetIsSomebodys' /\ WaitsOnlyWithoutSlack'
    BY <1>2 DEF BudgetKeepsOnTime, BudgetIsSomebodys, WaitsOnlyWithoutSlack
<1>6. ASSUME NEW j \in Scheduled, OnTime(waybill[j]) PROVE OnTime(waybill'[j])
    <2>1. j \in 1..Len(waybill)
        BY DEF Scheduled, IInv, TypeOK
    <2>2. waybill'[j].end = waybill[j].end + 0 /\ waybill[j].end \in Nat
        BY <2>1, <1>1, Numbers DEF Placed, IInv
    <2>3. getNearestNextTimeWindow(waybill'[j]) = getNearestNextTimeWindow(waybill[j])
        BY <2>1, <1>1, SameWindows DEF Tw
    <2> QED BY <1>6, <2>2, <2>3 DEF OnTime
<1> QED BY <1>3, <1>4, <1>5, <1>6 DEF IInv

LEMMA BilinearKeeps ==
    ASSUME IInv, Bilinear
    PROVE  IInv' /\ \A j \in Scheduled : OnTime(waybill[j]) => OnTime(waybill'[j])
<1> DEFINE waiting == Tw(i).start - current_time
           shift == Shift(waiting, shift_budget)
           slack == Tw(i).end - waybill'[i].end
<1>1. PICK next \in Nat : Placed(shift, next) /\ shift_budget' = min(shift_budget - shift, slack)
    BY BilinearPlaces DEF IInv
<1>2. algorithm = "BILINEAR" /\ algorithm' = "BILINEAR"
    BY <1>1, BilinearPlaces DEF IInv, Placed
<1>3. /\ i \in 1..Len(waybill) /\ Len(waybill) \in Nat /\ i' = i + 1
      /\ Scheduled = 1..(i - 1) /\ Scheduled' = 1..i
      /\ current_time \in Nat /\ shift_budget \in Int /\ InfiniteInterval \in Nat
    <2>1. i' = i + 1 /\ i' - 1 = i
        BY <1>1 DEF Placed, IInv, TypeOK
    <2> QED BY <2>1, <1>1, TimesAssumption DEF Placed, IInv, TypeOK, Scheduled
<1>4. Tw(i).start \in Int /\ Tw(i).end \in Int /\ waiting \in Int /\ waybill[i].planned \in Nat
    BY <1>3, Numbers DEF IInv
<1>5. waybill'[i].end \in Nat /\ waybill'[i].start \in Nat /\ slack \in Int
    <2>1. waybill'[i] \in Allocation
        BY <1>1 DEF Placed
    <2>2. waybill'[i].end \in Nat /\ waybill'[i].start \in Nat
        BY <2>1 DEF Allocation
    <2> QED BY <2>2, <1>4
<1>6. /\ shift \in Nat
      /\ shift > 0 => shift <= waiting /\ shift <= shift_budget
      /\ shift < waiting => shift >= shift_budget
    BY <1>3, <1>4, ShiftType
<1>7. waybill'[i].start = max(current_time + shift, Tw(i).start)
    BY <1>1 DEF Placed
<1>8. current_time' >= current_time + shift
    <2>1. current_time' = waybill'[i].end + next /\ waybill'[i].end = waybill'[i].start + waybill[i].planned
        BY <1>1 DEF Placed
    <2>2. waybill'[i].start >= current_time + shift
        BY <1>3, <1>4, <1>6, <1>7 DEF max
    <2>3. next \in Nat /\ waybill[i].planned \in Nat /\ waybill'[i].start \in Int
        BY <1>1, <1>4, <1>5
    <2>4. current_time + shift \in Int
        BY <1>3, <1>6
    <2> HIDE DEF shift
    <2>5. (waybill'[i].start + waybill[i].planned) + next >= current_time + shift
        BY <2>2, <2>3, <2>4, StillLater
    <2> QED BY <2>1, <2>5
<1> HIDE DEF waiting, shift, slack
<1>9. shift_budget' \in Int /\ shift_budget' <= shift_budget - shift /\ shift_budget' <= slack
      /\ (shift_budget' = shift_budget - shift \/ shift_budget' = slack)
    BY <1>1, <1>3, <1>5, <1>6 DEF min
<1>10. TypeOK'
    BY <1>1, <1>9, PlacedTypes DEF IInv, TypeOK
<1>11. Feasible' /\ AtTheNext' /\ NeverBefore' /\ StartsBeforeInfinity'
    BY <1>1, PlacedKeeps DEF IInv
<1>12. \A j \in 1..Len(waybill) : getNearestNextTimeWindow(waybill'[j]) = Tw(j)
    BY <1>1, SameWindows
<1>13. \A j \in Scheduled :
          /\ j \in 1..Len(waybill)
          /\ waybill'[j].end = waybill[j].end + shift
          /\ waybill'[j].start = waybill[j].start + shift
          /\ waybill'[j].next = waybill[j].next
          /\ waybill[j].end \in Nat /\ waybill[j].start \in Nat /\ waybill[j].next \in Nat
          /\ Tw(j).end \in Int
    BY <1>1, <1>3, Numbers DEF Placed, IInv
<1>14. BudgetKeepsOnTime'
    <2> SUFFICES ASSUME NEW j \in 1..i
                 PROVE  shift_budget' <= getNearestNextTimeWindow(waybill'[j]).end - waybill'[j].end
        BY <1>3 DEF BudgetKeepsOnTime
    <2>1. j \in 1..Len(waybill)
        BY <1>3
    <2>2. CASE j = i
        BY <2>1, <2>2, <1>9, <1>12 DEF slack
    <2>3. CASE j # i
        <3>1. j \in Scheduled
            BY <2>3, <1>3
        <3>2. shift_budget <= Tw(j).end - waybill[j].end
            BY <3>1, <1>2 DEF IInv, BudgetKeepsOnTime, Tw
        <3> QED BY <3>1, <3>2, <2>1, <1>3, <1>6, <1>9, <1>12, <1>13
    <2> QED BY <2>2, <2>3
<1>15. BudgetIsSomebodys'
    <2>1. CASE shift_budget' = slack
        <3>1. i \in Scheduled' /\ shift_budget' >= getNearestNextTimeWindow(waybill'[i]).end - waybill'[i].end
            BY <2>1, <1>3, <1>5, <1>12 DEF slack
        <3> QED BY <3>1 DEF BudgetIsSomebodys
    <2>2. CASE shift_budget' = shift_budget - shift
        <3>1. CASE \E j \in Scheduled : shift_budget >= Tw(j).end - waybill[j].end
            <4>1. PICK j \in Scheduled : shift_budget >= Tw(j).end - waybill[j].end
                BY <3>1
            <4>2. j \in Scheduled'
                BY <1>3
            <4>3. getNearestNextTimeWindow(waybill'[j]) = Tw(j)
                BY <1>12, <1>13
            <4>4. shift_budget' >= getNearestNextTimeWindow(waybill'[j]).end - waybill'[j].end
                BY <2>2, <4>1, <4>3, <1>3, <1>6, <1>13
            <4> QED BY <4>2, <4>4 DEF BudgetIsSomebodys
        <3>2. CASE shift_budget >= InfiniteInterval - current_time
            <4>1. current_time' \in Nat
                BY <1>10 DEF TypeOK
            <4>2. shift_budget - shift >= InfiniteInterval - current_time'
                <5>1. /\ shift_budget \in Int /\ shift \in Int /\ current_time \in Int
                      /\ current_time' \in Int /\ InfiniteInterval \in Int
                    BY <4>1, <1>3, <1>6
                <5> QED BY <5>1, <3>2, <1>8, LessBudget
            <4>3. shift_budget' >= InfiniteInterval - current_time'
                BY <2>2, <4>2
            <4> QED BY <4>3 DEF BudgetIsSomebodys
        <3> QED BY <3>1, <3>2, <1>2 DEF IInv, BudgetIsSomebodys, Tw
    <2> QED BY <2>1, <2>2, <1>9
<1>16. WaitsOnlyWithoutSlack'
    <2> SUFFICES ASSUME NEW j \in 1..i, j # 1,
                        waybill'[j].start > waybill'[j - 1].end + waybill'[j - 1].next
                 PROVE  \E k \in 1..(j - 1) :
                            waybill'[k].end >= getNearestNextTimeWindow(waybill'[k]).end
        BY <1>3 DEF WaitsOnlyWithoutSlack
    <2>1. j - 1 \in Scheduled
        BY <1>3
    <2>2. CASE j = i
        <3>1. current_time = waybill[i - 1].end + waybill[i - 1].next
            BY <2>2 DEF IInv, AtTheNext
        <3>2. waybill'[i].start > current_time + shift
            BY <3>1, <2>1, <2>2, <1>3, <1>6, <1>13
        <3>3. shift < waiting
            BY <3>2, <1>3, <1>4, <1>6, <1>7 DEF max, waiting
        <3>4. shift >= shift_budget
            BY <3>3, <1>6
        <3>5. Tw(i).start <= InfiniteInterval
            BY <1>3 DEF IInv, StartsBeforeInfinity, Tw
        <3>6. ~(shift_budget >= InfiniteInterval - current_time)
            BY <3>3, <3>4, <3>5, <1>3, <1>4, <1>6 DEF waiting
        <3>7. PICK k \in Scheduled : shift_budget >= Tw(k).end - waybill[k].end
            BY <3>6, <1>2 DEF IInv, BudgetIsSomebodys, Tw
        <3>8. waybill'[k].end >= Tw(k).end
            BY <3>4, <3>7, <1>3, <1>6, <1>13
        <3>9. k \in 1..(j - 1) /\ getNearestNextTimeWindow(waybill'[k]) = Tw(k)
            BY <2>2, <1>3, <1>12, <1>13
        <3> QED BY <3>8, <3>9
    <2>3. CASE j # i
        <3>1. j \in Scheduled \ {1}
            BY <2>3, <1>3
        <3>2. waybill[j].start > waybill[j - 1].end + waybill[j - 1].next
            <4>1. /\ waybill'[j].start = waybill[j].start + shift
                  /\ waybill[j].start \in Nat
                BY <3>1, <1>13
            <4>2. /\ waybill'[j - 1].end = waybill[j - 1].end + shift
                  /\ waybill'[j - 1].next = waybill[j - 1].next
                  /\ waybill[j - 1].end \in Nat /\ waybill[j - 1].next \in Nat
                BY <2>1, <1>13
            <4> QED BY <4>1, <4>2, <1>6
        <3>3. PICK k \in 1..(j - 1) : waybill[k].end >= Tw(k).end
            BY <3>1, <3>2, <1>2 DEF IInv, WaitsOnlyWithoutSlack, Tw
        <3>4. k \in Scheduled
            BY <3>1, <1>3
        <3>5. waybill'[k].end >= Tw(k).end
            BY <3>3, <3>4, <1>6, <1>13
        <3> QED BY <3>4, <3>5, <1>12, <1>13
    <2> QED BY <2>2, <2>3
<1>17. ASSUME NEW j \in Scheduled, OnTime(waybill[j]) PROVE OnTime(waybill'[j])
    <2>1. waybill[j].end <= Tw(j).end
        BY <1>17 DEF OnTime, Tw
    <2>2. shift_budget <= Tw(j).end - waybill[j].end
        BY <1>2 DEF IInv, BudgetKeepsOnTime, Tw
    <2>3. waybill'[j].end <= Tw(j).end
        BY <2>1, <2>2, <1>3, <1>6, <1>13
    <2> QED BY <2>3, <1>12, <1>13 DEF OnTime
<1> QED BY <1>10, <1>11, <1>14, <1>15, <1>16, <1>17 DEF IInv

----------------------------------------------------------------------------
LEMMA Initially == ASSUME Init PROVE IInv
<1>1. waybill \in Seq(Allocation) /\ Len(waybill) \in Nat
    BY WaybillsAssumption DEF Init
<1>2. TypeOK
    BY <1>1, TimesAssumption DEF Init, TypeOK
<1>3. Scheduled = {}
    BY DEF Init, Scheduled
<1>4. Feasible /\ BudgetKeepsOnTime /\ WaitsOnlyWithoutSlack
    BY <1>3 DEF Feasible, BudgetKeepsOnTime, WaitsOnlyWithoutSlack
<1>5. AtTheNext /\ NeverBefore /\ BudgetIsSomebodys
    BY <1>2, TimesAssumption DEF Init, TypeOK, AtTheNext, NeverBefore, BudgetIsSomebodys
<1>6. StartsBeforeInfinity
    <2> SUFFICES ASSUME NEW j \in 1..Len(waybill)
                 PROVE  getNearestNextTimeWindow(waybill[j]).start <= InfiniteInterval
        BY DEF StartsBeforeInfinity
    <2>1. waybill[j].windows \in Seq(Window)
        <3>1. waybill[j] \in Allocation
            BY <1>1
        <3> QED BY <3>1 DEF Allocation
    <2>2. CASE waybill[j].windows = <<>>
        BY <2>2, TimesAssumption DEF getNearestNextTimeWindow
    <2>3. CASE waybill[j].windows # <<>>
        <3>1. 1 \in 1..Len(waybill[j].windows)
            BY <2>1, <2>3
        <3> QED BY <3>1, <2>3, WaybillsAssumption DEF getNearestNextTimeWindow, Init
    <2> QED BY <2>2, <2>3
<1> QED BY <1>2, <1>4, <1>5, <1>6 DEF IInv

LEMMA Stutters ==
    ASSUME IInv, UNCHANGED vars
    PROVE  IInv' /\ \A j \in Scheduled : OnTime(waybill[j]) => OnTime(waybill'[j])
BY DEF IInv, vars, TypeOK, Feasible, AtTheNext, NeverBefore, BudgetKeepsOnTime,
       BudgetIsSomebodys, StartsBeforeInfinity, WaitsOnlyWithoutSlack, Scheduled, OnTime

LEMMA Steps ==
    ASSUME IInv, [Next]_vars
    PROVE  IInv' /\ \A j \in Scheduled : OnTime(waybill[j]) => OnTime(waybill'[j])
BY LinearKeeps, BilinearKeeps, Stutters DEF Next

LEMMA Invariance == Spec => []IInv
BY Initially, Steps, PTL DEF Spec

\* No shift takes a time below the epoch and the loop stays in the waybill
\* (the two scheduleWaybill).
THEOREM TypeCorrect == Spec => []TypeOK
<1>1. IInv => TypeOK
    BY DEF IInv
<1> QED BY <1>1, Invariance, PTL

\* Whatever the windows are, the plan can be driven (the two scheduleWaybill).
THEOREM Drivable == Spec => []Feasible
<1>1. IInv => Feasible
    BY DEF IInv
<1> QED BY <1>1, Invariance, PTL

\* BilinearWaybillSchedulingAlgorithm waits only where somebody before has no
\* time left: the budget is the least slack of those before, until infinity is used
\* up, which windows that start before it never do.
THEOREM Waiting == Spec => []WaitsOnlyWithoutSlack
<1>1. IInv => WaitsOnlyWithoutSlack
    BY DEF IInv
<1> QED BY <1>1, Invariance, PTL

\* A later start makes nobody late: the budget is at most the slack of each
\* allocation it shifts.
THEOREM KeepingOnTime == Spec => ShiftKeepsOnTime
<1>1. IInv /\ [Next]_vars =>
        [\A j \in Scheduled : OnTime(waybill[j]) => OnTime(waybill'[j])]_vars
    BY Steps
<1> QED BY <1>1, Invariance, PTL DEF Spec, ShiftKeepsOnTime

----------------------------------------------------------------------------
(* The earliest ends.  The steps of their recursion are gone through by    *)
(* the least counterexample.                                               *)

\* A set of natural numbers has a least one.
LEMMA Least ==
    ASSUME NEW T \in SUBSET Nat, T # {}
    PROVE  \E n \in T : \A m \in T : n <= m
<1> DEFINE R == OpToRel(<, Nat)
<1>1. IsWellFoundedOn(R, Nat)
    BY NatLessThanWellFounded
<1>2. \A m, n \in Nat : m < n => <<m, n>> \in R
    BY DEF OpToRel
<1> HIDE DEF R
<1>3. PICK n \in T : \A m \in T : ~ (<<m, n>> \in R)
    BY <1>1, WFMin
<1>4. \A m \in T : ~ (m < n)
    BY <1>2, <1>3
<1> QED BY <1>4

\* The end of the allocation j of w, when the one before it ended at before.
EndAfter(before, w, s, j) ==
    IF j = 0 THEN s
    ELSE max(before + (IF j = 1 THEN 0 ELSE w[j - 1].next),
             getNearestNextTimeWindow(w[j]).start) + w[j].planned

EndsUpTo(f, w, s, k) == \A j \in 0..k : f[j] = EndAfter(f[j - 1], w, s, j)

Ends(w, s, k) ==
    LET ends[j \in 0..k] ==
            IF j = 0 THEN s
            ELSE max(ends[j - 1] + (IF j = 1 THEN 0 ELSE w[j - 1].next),
                     getNearestNextTimeWindow(w[j]).start) + w[j].planned
    IN ends

\* Some function has the ends of the first k allocations.
LEMMA EndsExist ==
    ASSUME NEW w, NEW s, NEW k \in Nat
    PROVE  \E f : EndsUpTo(f, w, s, k)
<1> DEFINE T == {n \in Nat : ~ \E f : EndsUpTo(f, w, s, n)}
<1>1. SUFFICES ASSUME T # {} PROVE FALSE
    OBVIOUS
<1>2. PICK n \in T : \A m \in T : n <= m
    BY <1>1, Least
<1>3. CASE n = 0
    <2>1. EndsUpTo([j \in 0..0 |-> s], w, s, 0)
        BY DEF EndsUpTo, EndAfter
    <2> QED BY <1>3, <2>1
<1>4. CASE n # 0
    <2>1. n - 1 \in Nat /\ n - 1 \notin T /\ n \in Nat
        BY <1>2, <1>4
    <2>2. PICK f : EndsUpTo(f, w, s, n - 1)
        BY <2>1
    <2> DEFINE last == EndAfter(f[n - 1], w, s, n)
               g == [j \in 0..n |-> IF j < n THEN f[j] ELSE last]
    <2>3. ASSUME NEW j \in 0..n
          PROVE  g[j] = EndAfter(g[j - 1], w, s, j)
        <3>1. j # 0 => g[j - 1] = f[j - 1]
            BY <2>1
        <3>2. EndAfter(g[j - 1], w, s, j) = EndAfter(f[j - 1], w, s, j)
            <4> HIDE DEF g
            <4> QED BY <3>1 DEF EndAfter
        <3>3. CASE j < n
            <4>1. g[j] = f[j] /\ j \in 0..(n - 1)
                BY <2>1, <3>3
            <4> HIDE DEF g
            <4> QED BY <2>2, <3>2, <4>1 DEF EndsUpTo
        <3>4. CASE j = n
            <4>1. g[j] = last
                BY <2>1, <3>4
            <4> HIDE DEF g
            <4> QED BY <3>2, <3>4, <4>1
        <3> QED BY <2>1, <3>3, <3>4
    <2>4. EndsUpTo(g, w, s, n)
        <3> HIDE DEF g
        <3> QED BY <2>3 DEF EndsUpTo
    <2> QED BY <1>2, <2>4
<1> QED BY <1>3, <1>4

\* The recursive definition holds of the function it defines.
LEMMA EndsOf ==
    ASSUME NEW w, NEW s, NEW k \in Nat
    PROVE  EndsUpTo(Ends(w, s, k), w, s, k)
<1> DEFINE Body(f, j) ==
               IF j = 0 THEN s
               ELSE max(f[j - 1] + (IF j = 1 THEN 0 ELSE w[j - 1].next),
                        getNearestNextTimeWindow(w[j]).start) + w[j].planned
           g == CHOOSE f : f = [j \in 0..k |-> Body(f, j)]
<1>1. Ends(w, s, k) = g
    BY DEF Ends
<1>2. \A f : \A j \in 0..k : Body(f, j) = EndAfter(f[j - 1], w, s, j)
    BY DEF EndAfter
<1>3. \E f : f = [j \in 0..k |-> Body(f, j)]
    <2>1. PICK h : EndsUpTo(h, w, s, k)
        BY EndsExist
    <2> DEFINE f == [j \in 0..k |-> h[j]]
    <2>2. \A j \in 0..k : f[j] = h[j] /\ (j # 0 => f[j - 1] = h[j - 1])
        OBVIOUS
    <2>3. f = [j \in 0..k |-> f[j]]
        OBVIOUS
    <2> HIDE DEF f
    <2>4. \A j \in 0..k : EndAfter(f[j - 1], w, s, j) = EndAfter(h[j - 1], w, s, j)
        BY <2>2 DEF EndAfter
    <2> HIDE DEF Body
    <2>5. \A j \in 0..k : f[j] = Body(f, j)
        BY <1>2, <2>1, <2>2, <2>4 DEF EndsUpTo
    <2> QED BY <2>3, <2>5
<1>4. g = [j \in 0..k |-> Body(g, j)]
    BY <1>3
<1> HIDE DEF g, Body
<1>5. EndsUpTo(g, w, s, k)
    BY <1>2, <1>4 DEF EndsUpTo
<1> QED BY <1>1, <1>5

\* The ends are those of another waybill, as long as nothing they depend on differs.
LEMMA EndsAgree ==
    ASSUME NEW s, NEW w, NEW v, NEW f, NEW g, NEW k \in Nat, NEW l \in Nat, k <= l,
           EndsUpTo(f, w, s, k), EndsUpTo(g, v, s, l),
           \A j \in 1..k : /\ getNearestNextTimeWindow(w[j]) = getNearestNextTimeWindow(v[j])
                           /\ w[j].planned = v[j].planned /\ w[j].next = v[j].next
    PROVE  f[k] = g[k]
<1> DEFINE T == {n \in 0..k : f[n] # g[n]}
<1>1. SUFFICES ASSUME T # {} PROVE FALSE
    OBVIOUS
<1>2. PICK n \in T : \A m \in T : n <= m
    <2>1. T \in SUBSET Nat
        OBVIOUS
    <2> HIDE DEF T
    <2> QED BY <1>1, <2>1, Least
<1>3. n \in Nat /\ n \in 0..k /\ n \in 0..l /\ f[n] # g[n]
    BY <1>2
<1>4. f[n] = EndAfter(f[n - 1], w, s, n) /\ g[n] = EndAfter(g[n - 1], v, s, n)
    BY <1>3 DEF EndsUpTo
<1>5. CASE n = 0
    BY <1>3, <1>4, <1>5 DEF EndAfter
<1>6. CASE n # 0
    <2>1. n - 1 \in 0..k /\ n - 1 \notin T /\ n \in 1..k
        BY <1>2, <1>3, <1>6
    <2>2. f[n - 1] = g[n - 1]
        BY <2>1
    <2>3. n # 1 => w[n - 1].next = v[n - 1].next
        <3> HAVE n # 1
        <3>1. n - 1 \in 1..k
            BY <2>1
        <3> QED BY <3>1
    <2>4. EndAfter(f[n - 1], w, s, n) = EndAfter(g[n - 1], v, s, n)
        BY <1>6, <2>1, <2>2, <2>3 DEF EndAfter
    <2> QED BY <1>3, <1>4, <2>4
<1> QED BY <1>5, <1>6

\* A shift that only takes up waiting leaves the allocation it is made for to end when
\* it would have.
LEMMA PlacedEndsAsEarly ==
    ASSUME TypeOK, AtTheNext, EndsAsEarly, NEW shift, NEW next, Placed(shift, next),
           shift > 0 => current_time + shift <= Tw(i).start
    PROVE  EndsAsEarly'
<1> DEFINE k == i - 1
           f == Ends(waybill, shift_start, k)
           g == Ends(waybill', shift_start', i)
<1>1. /\ i \in 1..Len(waybill) /\ Len(waybill) \in Nat /\ i' = i + 1 /\ i' - 1 = i
      /\ k \in Nat /\ i \in Nat /\ k <= i
      /\ shift \in Nat /\ current_time \in Nat /\ shift_start' = shift_start
    BY DEF Placed, TypeOK
<1>2. EarliestEnds = f /\ EarliestEnds' = g
    BY <1>1 DEF EarliestEnds, Ends
<1>3. EndsUpTo(f, waybill, shift_start, k) /\ EndsUpTo(g, waybill', shift_start, i)
    BY <1>1, EndsOf
<1>4. \A j \in 1..k :
         /\ getNearestNextTimeWindow(waybill[j]) = getNearestNextTimeWindow(waybill'[j])
         /\ waybill[j].planned = waybill'[j].planned /\ waybill[j].next = waybill'[j].next
    <2>1. \A j \in 1..k : j \in 1..Len(waybill) /\ j \in Scheduled
        BY <1>1 DEF Scheduled
    <2> QED BY <2>1, SameWindows DEF Placed, Tw
<1> HIDE DEF f, g
<1>5. f[k] = g[k]
    <2> DEFINE w == waybill
               v == waybill'
               s == shift_start
    <2>1. EndsUpTo(f, w, s, k) /\ EndsUpTo(g, v, s, i) /\ k \in Nat /\ i \in Nat /\ k <= i
        BY <1>1, <1>3
    <2>2. \A j \in 1..k :
             /\ getNearestNextTimeWindow(w[j]) = getNearestNextTimeWindow(v[j])
             /\ w[j].planned = v[j].planned /\ w[j].next = v[j].next
        BY <1>4
    <2> HIDE DEF w, v, s, k
    <2> QED BY <2>1, <2>2, EndsAgree, SMTT(30)
<1>6. current_time = g[k] + (IF i = 1 THEN 0 ELSE waybill'[k].next)
    <2>1. CASE i = 1
        <3>1. g[0] = shift_start
            BY <1>1, <1>3 DEF EndsUpTo, EndAfter
        <3> QED BY <2>1, <3>1, <1>1 DEF AtTheNext
    <2>2. CASE i # 1
        <3>1. waybill[k].end = f[k] /\ current_time = waybill[k].end + waybill[k].next
            BY <2>2, <1>1, <1>2 DEF EndsAsEarly, AtTheNext
        <3>2. k \in 1..k
            BY <2>2, <1>1
        <3> QED BY <2>2, <3>1, <3>2, <1>4, <1>5
    <2> QED BY <2>1, <2>2
<1>7. g[i] = max(current_time, Tw(i).start) + waybill[i].planned
    <2>1. i \in 0..i /\ i # 0
        BY <1>1
    <2>2. g[i] = EndAfter(g[k], waybill', shift_start, i)
        BY <2>1, <1>3 DEF EndsUpTo
    <2>3. getNearestNextTimeWindow(waybill'[i]) = Tw(i) /\ waybill'[i].planned = waybill[i].planned
        BY <1>1, SameWindows DEF Placed
    <2> QED BY <2>1, <2>2, <2>3, <1>6 DEF EndAfter
<1>8. max(current_time + shift, Tw(i).start) = max(current_time, Tw(i).start)
    <2>1. Tw(i).start \in Int
        BY <1>1, Numbers
    <2> QED BY <2>1, <1>1 DEF max
<1>9. waybill'[i].end = g[i]
    BY <1>7, <1>8 DEF Placed
<1> QED BY <1>1, <1>2, <1>9 DEF EndsAsEarly

LEMMA EndsStep ==
    ASSUME IInv, EndsAsEarly, [Next]_vars
    PROVE  EndsAsEarly'
<1>1. CASE Linear
    <2>1. PICK next \in Nat : Placed(0, next)
        BY <1>1, LinearPlaces DEF IInv
    <2> QED BY <2>1, PlacedEndsAsEarly DEF IInv
<1>2. CASE Bilinear
    <2> DEFINE waiting == Tw(i).start - current_time
               shift == Shift(waiting, shift_budget)
    <2>1. PICK next \in Nat : Placed(shift, next)
        BY <1>2, BilinearPlaces DEF IInv
    <2>2. /\ current_time \in Int /\ Tw(i).start \in Int /\ shift_budget \in Int
          /\ waiting \in Int
        <3>1. i \in 1..Len(waybill) /\ current_time \in Int /\ shift_budget \in Int
            BY <2>1 DEF Placed, IInv, TypeOK
        <3>2. Tw(i).start \in Int
            BY <3>1, Numbers DEF IInv
        <3> QED BY <3>1, <3>2
    <2>3. shift \in Nat /\ (shift > 0 => shift <= waiting)
        BY <2>2, ShiftType
    <2>4. shift > 0 => current_time + shift <= Tw(i).start
        <3> HIDE DEF shift
        <3> QED BY <2>2, <2>3
    <2> HIDE DEF shift
    <2> QED BY <2>1, <2>4, PlacedEndsAsEarly DEF IInv
<1>3. CASE UNCHANGED vars
    BY <1>3 DEF vars, EndsAsEarly, EarliestEnds
<1> QED BY <1>1, <1>2, <1>3 DEF Next

\* Leaving later does not make the way any longer: each allocation ends, when it is
\* scheduled, as early as it would have if nobody had ever been shifted.
THEOREM AsEarly == Spec => []EndsAsEarly
<1>1. Init => EndsAsEarly
    BY DEF Init, EndsAsEarly
<1>2. IInv /\ EndsAsEarly /\ [Next]_vars => EndsAsEarly'
    BY EndsStep
<1> QED BY <1>1, <1>2, Invariance, PTL DEF Spec

=============================================================================
