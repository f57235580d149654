----------------------------- MODULE MCServices ------------------------------
(***************************************************************************)
(* What clients ask of the services, on small instances: a waybill that    *)
(* the algorithms schedule, a waybill that a client has scheduled by the   *)
(* server, the settings of a task, the status updates of a task, and the   *)
(* channel a worker publishes them on.  The parts share no state; part is  *)
(* the one a behaviour is about, and the variables of the others rest.     *)
(***************************************************************************)
EXTENDS WaybillScheduling, TLC

CONSTANTS
    Parts,       \* the parts to look at
    Half,        \* see ScheduleWaybill
    Numbers,     \* see TaskSettings
    Streams, MaxSessions, MaxSolutions, MaxForeign, None,  \* see TspStatusStream
    MaxJobs, MaxSignals                                    \* see StatusChannel

VARIABLES
    part,
    \* of ScheduleWaybill
    call, mine, sent, asked, request, handler,
    algorithm_made, waybill_read, shift_read, place, time, budget,
    \* of TaskSettings
    application, pc, meant, task, plan, maker, question, provider,
    \* of TspStatusStream
    worker, ending, sessions, solutions, foreign, publisher, stored, exchange,
    channel, stage, queue, bound, latest, published, delivered, kept,
    \* of StatusChannel
    publishers, copies, worker_channel, connection, inside, publishing, about, held,
    releases, threw, main, job, engine, listener, done, interrupted, subscribed,
    signals, met, late

scheduleVars == <<call, mine, sent, asked, request, handler,
                  algorithm_made, waybill_read, shift_read, place, time, budget>>
settingsVars == <<application, pc, meant, task, plan, maker, question, provider>>
streamVars == <<worker, ending, sessions, solutions, foreign, publisher, stored,
                exchange, channel, stage, queue, bound, latest, published, delivered,
                kept>>
channelVars == <<publishers, copies, worker_channel, connection, inside, publishing,
                 about, held, releases, threw, main, job, engine, listener, done,
                 interrupted, subscribed, signals, met, late>>
servicesVars == <<part, vars, scheduleVars, settingsVars, streamVars, channelVars>>

----------------------------------------------------------------------------
MCSymmetry == Permutations(Streams)

W(s, e) == [start |-> s, end |-> e]
A(windows, planned) ==
    [windows |-> windows, planned |-> planned, start |-> 0, end |-> 0, next |-> 0]

Allocations(windowLists) == {A(w, p) : w \in windowLists, p \in {0, 2}}

\* All waybills of three allocations with windows that are wide, tight, missed, or
\* none.
MCWaybills ==
    LET a == Allocations({<<>>, <<W(0, 4)>>, <<W(2, 9)>>, <<W(5, 6)>>, <<W(1, 3)>>})
    IN {<<x, y, z>> : x \in a, y \in a, z \in a} \union {<<>>}

MCTwoWindows ==
    LET a == Allocations({<<W(0, 1), W(4, 9)>>, <<W(2, 9)>>})
    IN {<<x, y>> : x \in a, y \in a}

\* Waybills of three allocations, some of which may be done at any time, with a
\* window that says so or without.
MCSentWaybills ==
    LET a == {A(<<>>, 1), A(<<W(0, 6)>>, 2), A(<<W(5, 9)>>, 0), A(<<W(0, Forever)>>, 1)}
    IN [1..3 -> a] \union {<<>>}

\* Every number a translator knows, and one that none knows.
MCNumbers == 0..4

----------------------------------------------------------------------------
Schedule == INSTANCE ScheduleWaybill
    WITH Waybills <- MCSentWaybills, Durations <- Durations \ {InfiniteInterval},
         algorithm <- algorithm_made, waybill <- waybill_read,
         shift_start <- shift_read, i <- place, current_time <- time, shift_budget <- budget

Settings == INSTANCE TaskSettings WITH algorithm <- maker, request <- question

Updates == INSTANCE TspStatusStream
    WITH MayCancel <- TRUE, MayStop <- TRUE, pc <- stage

Channel == INSTANCE StatusChannel
    WITH channel <- worker_channel, call <- publishing, task <- about, mine <- held,
         handler <- listener

ASSUME WireAssumption == Schedule!WireAssumption
ASSUME NumbersAssumption == Settings!NumbersAssumption
ASSUME NoneAssumption == Updates!NoneAssumption
ASSUME BoundsAssumption == Channel!BoundsAssumption

NoWaybill ==
    /\ algorithm = "LINEAR" /\ waybill = <<>> /\ shift_start = 0
    /\ i = 1 /\ current_time = 0 /\ shift_budget = 0

NoCall == Schedule!Init /\ mine = <<>> /\ asked = "AUTO" /\ shift_read = 0

NoTask == Settings!Init /\ application = "router"

ServicesInit ==
    /\ part \in Parts
    /\ Updates!Init /\ Channel!Init
    /\ \/ part = "algorithm" /\ Init /\ NoCall /\ NoTask
       \/ part = "call" /\ NoWaybill /\ Schedule!Init /\ NoTask
       \/ part = "settings" /\ NoWaybill /\ NoCall /\ Settings!Init
       \/ part \in {"updates", "channel"} /\ NoWaybill /\ NoCall /\ NoTask

ServicesNext ==
    \/ /\ part = "algorithm" /\ Next
       /\ UNCHANGED <<part, scheduleVars, settingsVars, streamVars, channelVars>>
    \/ /\ part = "call" /\ Schedule!Next
       /\ UNCHANGED <<part, vars, settingsVars, streamVars, channelVars>>
    \/ /\ part = "settings" /\ Settings!Next
       /\ UNCHANGED <<part, vars, scheduleVars, streamVars, channelVars>>
    \/ /\ part = "updates" /\ Updates!Next
       /\ UNCHANGED <<part, vars, scheduleVars, settingsVars, channelVars>>
    \/ /\ part = "channel" /\ Channel!Next
       /\ UNCHANGED <<part, vars, scheduleVars, settingsVars, streamVars>>

ServicesSpec == ServicesInit /\ [][ServicesNext]_servicesVars

----------------------------------------------------------------------------
\* A client that calls the scheduler gets its waybill back as the algorithms
\* schedule it: see ScheduleWaybill.
ComesBackScheduled == Schedule!ComesBackScheduled

\* "ReturnsInfinityOnErrorWithDefaultErrorPolicy": see ScheduleWaybill.
FailedRoutesAreInfinite == Schedule!FailedRoutesAreInfinite

\* What a client means is what the router and the worker do: see TaskSettings.
SettingsArrive == Settings!SettingsArrive

\* The router is asked for what the task says: see TaskSettings.
RequestOfTheTask == Settings!RequestOfTheTask

\* No subscriber waits on the server's channel when it is closed: see TspStatusStream.
NoStreamOnClosedChannel == Updates!NoStreamOnClosedChannel

\* No update is lost while a subscriber has its queue: see TspStatusStream.
NoGapInUpdates == Updates!NoGapInUpdates

\* A clash on the channel of a worker takes a handler that meets another thread: see
\* StatusChannel.
SharedWithoutClash == Channel!SharedWithoutClash

\* There is no clash on the channel: see StatusChannel.
NeverBroken == Channel!NeverBroken

=============================================================================
