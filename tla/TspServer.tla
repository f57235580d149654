----------------------------- MODULE TspServer ------------------------------
(***************************************************************************)
(* The TSP server (server.go): the calls StartTsp, PauseTsp, ResumeTsp and *)
(* StopTsp of its gRPC interface.  A server keeps no state between calls;  *)
(* each call, of any replica, is a goroutine of its own that goes through  *)
(* Redis and RabbitMQ one request at a time.                               *)
(*                                                                         *)
(* A call that finds an error returns it and leaves behind what it has     *)
(* done so far; so does one whose server dies.  StopTsp goes on without    *)
(* the status, or without having set it.  GetLatestSolution only reads,    *)
(* and so does the last step of PauseTsp: they are left out.               *)
(***************************************************************************)
EXTENDS TspStore

CONSTANTS
    MaxCalls,    \* bound: how many calls are made
    CallsFail    \* whether a call may fail in the middle

ASSUME MaxCallsAssumption == MaxCalls \in Nat
ASSUME CallsFailAssumption == CallsFail \in BOOLEAN

VARIABLES
    in_flight, \* how many calls about each task are at each step
    made,      \* how many calls have been made
    started    \* the task ids StartTsp has made so far

serverVars == <<in_flight, made, started>>

Step == {"sendStart", "sendPause", "isResumeable", "getStatus", "forceStatus",
         "sendInterrupt", "loadSolution", "removeTask"}
Returned == "returned"

ServerTypeOK ==
    /\ in_flight \in [Tasks -> [Step -> Nat]]
    /\ made \in 0..MaxCalls
    /\ started \subseteq Tasks

ServerInit ==
    /\ in_flight = [t \in Tasks |-> [s \in Step |-> 0]]
    /\ made = 0
    /\ started = {}

----------------------------------------------------------------------------
CallArrives(t, first) ==
    /\ made < MaxCalls
    /\ made' = made + 1
    /\ in_flight' = IF first = Returned THEN in_flight
                     ELSE [in_flight EXCEPT ![t][first] = @ + 1]

CallGoes(t, from, to) ==
    /\ in_flight[t][from] > 0
    /\ in_flight' = [in_flight EXCEPT ![t] =
                        [s \in Step |-> IF s = from THEN @[s] - 1
                                        ELSE IF s = to THEN @[s] + 1 ELSE @[s]]]
    /\ UNCHANGED <<made, started>>

\* StartTsp: a task id nobody had before, and the task is stored under it.
StartTsp(t) ==
    /\ t \notin started
    /\ CallArrives(t, "sendStart")
    /\ started' = started \union {t}
    /\ SetTask(t, TRUE)
    /\ UNCHANGED amqp

\* The other calls begin with hasTask: without the task they return NotFound.
CallAbout(t, first) ==
    /\ CallArrives(t, IF task[t] THEN first ELSE Returned)
    /\ UNCHANGED <<started, redis, amqp>>

PauseTsp(t) == CallAbout(t, "sendPause")
ResumeTsp(t) == CallAbout(t, "isResumeable")
StopTsp(t) == CallAbout(t, "getStatus")

SendStartSignal(t) ==
    /\ CallGoes(t, "sendStart", Returned)
    /\ SendStart(t)
    /\ UNCHANGED <<redis, signals>>

SendPauseSignal(t) ==
    /\ CallGoes(t, "sendPause", Returned)
    /\ SendSignal(t, "PAUSE")
    /\ UNCHANGED <<redis, task_queue>>

\* isResumeable: not without a status, and not when in progress or finished.
IsResumeable(t) ==
    /\ CallGoes(t, "isResumeable",
                IF status[t] \in {"NONE", "IN_PROGRESS", "FINISHED"}
                THEN Returned ELSE "sendStart")
    /\ UNCHANGED <<redis, amqp>>

GetTaskStatus(t) ==
    /\ CallGoes(t, "getStatus", IF status[t] = "PAUSED" THEN "forceStatus"
                                                        ELSE "sendInterrupt")
    /\ UNCHANGED <<redis, amqp>>

\* No worker would answer for a paused task: the server sets the status itself,
\* and publishes it.
ForceInterrupted(t) ==
    /\ CallGoes(t, "forceStatus", "sendInterrupt")
    /\ SetStatus(t, "INTERRUPTED")
    /\ UNCHANGED amqp

SendInterruptSignal(t) ==
    /\ CallGoes(t, "sendInterrupt", "loadSolution")
    /\ SendSignal(t, "INTERRUPT")
    /\ UNCHANGED <<redis, task_queue>>

\* loadSolution: without a solution StopTsp returns and the task is kept.
LoadSolution(t) ==
    /\ CallGoes(t, "loadSolution", IF solution[t] = "none" THEN Returned
                                                           ELSE "removeTask")
    /\ UNCHANGED <<redis, amqp>>

RemoveTask(t) ==
    /\ CallGoes(t, "removeTask", Returned)
    /\ SetTask(t, FALSE)
    /\ UNCHANGED amqp

CallFails(t) ==
    /\ CallsFail
    /\ \/ \E s \in Step : CallGoes(t, s, Returned)
       \/ \E s \in {"getStatus", "forceStatus"} : CallGoes(t, s, "sendInterrupt")
    /\ UNCHANGED <<redis, amqp>>

ServerNext == \E t \in Tasks :
    \/ StartTsp(t) \/ PauseTsp(t) \/ ResumeTsp(t) \/ StopTsp(t)
    \/ SendStartSignal(t) \/ SendPauseSignal(t) \/ IsResumeable(t)
    \/ GetTaskStatus(t) \/ ForceInterrupted(t) \/ SendInterruptSignal(t)
    \/ LoadSolution(t) \/ RemoveTask(t) \/ CallFails(t)

=============================================================================
