------------------------------ MODULE TspStore ------------------------------
(***************************************************************************)
(* What the TSP servers and the TSP workers share: the Redis keys of each  *)
(* task and the RabbitMQ queues.  Servers and workers never call one       *)
(* another, everything they know of each other they read here.             *)
(*                                                                         *)
(* A key that is not set has the value FALSE, "NONE", 0 or NoState.  The   *)
(* contents of a task and of a solution are left out: a solution is known  *)
(* by whether it is final, a saved state by the iteration it resumes at    *)
(* (see EngineTspSolutionController).                                      *)
(***************************************************************************)
EXTENDS Integers, Sequences

CONSTANTS
    Tasks,    \* task ids
    Workers,  \* worker processes
    Last      \* the last iteration of the algorithm

ASSUME LastAssumption == Last \in Nat

VARIABLES
    \* Redis, one key of each kind per task
    task, lock, status, attempts, state, solution,
    \* RabbitMQ
    task_queue,   \* start messages, taken by whichever worker is free
    signals       \* the interrupt exchange: a queue of its own per worker

redis == <<task, lock, status, attempts, state, solution>>
amqp == <<task_queue, signals>>

----------------------------------------------------------------------------
NoState == -1
Exhausted == Last + 1
Saved == {NoState} \union 0..Last

Status == {"NONE", "STARTED", "IN_PROGRESS", "PAUSED", "INTERRUPTED",
           "ERROR", "FINISHED"}
Solution == {"none", "partial", "final"}
Signal == {"PAUSE", "INTERRUPT"}
ControlSignal == [task : Tasks, signal : Signal]

RedisTypeOK ==
    /\ task \in [Tasks -> BOOLEAN]
    /\ lock \in [Tasks -> BOOLEAN]
    /\ status \in [Tasks -> Status]
    /\ attempts \in [Tasks -> Nat]
    /\ state \in [Tasks -> Saved]
    /\ solution \in [Tasks -> Solution]

AmqpTypeOK ==
    /\ task_queue \in Seq(Tasks)
    /\ signals \in [Workers -> Seq(ControlSignal)]

StoreInit ==
    /\ task = [t \in Tasks |-> FALSE]
    /\ lock = [t \in Tasks |-> FALSE]
    /\ status = [t \in Tasks |-> "NONE"]
    /\ attempts = [t \in Tasks |-> 0]
    /\ state = [t \in Tasks |-> NoState]
    /\ solution = [t \in Tasks |-> "none"]
    /\ task_queue = <<>>
    /\ signals = [w \in Workers |-> <<>>]

----------------------------------------------------------------------------
(* One command to Redis each: it writes one key of a task.                 *)

SetTask(t, exists) ==
    /\ task' = [task EXCEPT ![t] = exists]
    /\ UNCHANGED <<lock, status, attempts, state, solution>>

SetLock(t, locked) ==
    /\ lock' = [lock EXCEPT ![t] = locked]
    /\ UNCHANGED <<task, status, attempts, state, solution>>

\* RedisTaskProvider::sendStatusSignal, and the SET in StopTsp.  The keep-alive
\* key that is set with it is never read.
SetStatus(t, s) ==
    /\ status' = [status EXCEPT ![t] = s]
    /\ UNCHANGED <<task, lock, attempts, state, solution>>

SetState(t, saved) ==
    /\ state' = [state EXCEPT ![t] = saved]
    /\ UNCHANGED <<task, lock, status, attempts, solution>>

SetSolution(t, s) ==
    /\ solution' = [solution EXCEPT ![t] = s]
    /\ UNCHANGED <<task, lock, status, attempts, state>>

\* Redis expires a solution an hour after it was last stored.
Expire(t) ==
    /\ solution[t] # "none"
    /\ SetSolution(t, "none")
    /\ UNCHANGED amqp

(* Messages to RabbitMQ.                                                   *)

\* sendStartSignal: a message to the one task queue.
SendStart(t) == task_queue' = Append(task_queue, t)

\* sendSignal: a message to a fan-out exchange.
SendSignal(t, s) ==
    signals' = [w \in Workers |->
                   Append(signals[w], [task |-> t, signal |-> s])]

=============================================================================
