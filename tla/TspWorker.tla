----------------------------- MODULE TspWorker ------------------------------
(***************************************************************************)
(* The TSP worker processes: Worker::start with its Redis and RabbitMQ     *)
(* clients.  Three threads run in each worker w.                           *)
(*   worker[w]   the main thread, the loop of Worker::start                *)
(*   engine[w]   the task of the solution session, which calls back into   *)
(*               the listener set up by the main thread                    *)
(*   handler[w]  the thread of AmqpInterruptListener, which calls the      *)
(*               processor of the task a signal is about                   *)
(* They share the variables of the loop body (job, done, interrupted) and  *)
(* the session.  The processor holds references to them: once a handler is *)
(* under way, neither unsubscribe nor the end of the loop body stops it,   *)
(* and what it touches then is whatever holds their place.  That it may    *)
(* also bring the process down is a Crash.                                 *)
(*                                                                         *)
(* A session of a worker is started once and never resumed; the module     *)
(* EngineTspSolutionController has the details of its life.                *)
(***************************************************************************)
EXTENDS TspStore

CONSTANTS
    Rejected,     \* iterations validateOrResetSavedState refuses to resume at
    MaxAttempts,  \* TSP_WORKER_MAX_ATTEMPTS
    FaultKinds,   \* which calls to Redis or RabbitMQ may fail
    MaxFaults,    \* bound: how many of them fail
    MaxCrashes    \* bound: how many workers crash

ASSUME RejectedAssumption == Rejected \subseteq 0..Last
ASSUME MaxAttemptsAssumption == MaxAttempts \in Nat \ {0}
ASSUME FaultKindsAssumption ==
    FaultKinds \subseteq {"worker", "catch", "engine", "handler", "store"}
ASSUME MaxFaultsAssumption == MaxFaults \in Nat
ASSUME MaxCrashesAssumption == MaxCrashes \in Nat

VARIABLES
    worker, job, done, interrupted,                  \* the loop body
    engine, back, is_interrupted, container, at,     \* the session
    handler, signal, processors,                     \* the interrupt listener
    faults, crashes,
    executed,   \* history: the iterations executed for each task
    completed   \* history: the tasks a final solution was computed for

flags == <<done, interrupted>>
loop == <<worker, job, flags>>
session == <<engine, back, is_interrupted, container, at>>
listener == <<handler, signal, processors>>
failures == <<faults, crashes>>
history == <<executed, completed>>
workerVars == <<loop, session, listener, failures, history>>

NoTask == "none"

WorkerPc == {"idle", "tryLock", "isFinished", "isPaused", "incAttempts", "skip",
             "retrieve", "load", "publishStarted", "sendStarted", "solve",
             "subscribe", "wait", "sendInProgress", "close", "join",
             "closeOnError", "joinOnError", "publishError", "sendError",
             "unsubscribe", "unlock", "hung"}
EnginePc == {"none", "validate", "solution", "announce", "test", "advance",
             "persist", "publishFinished", "sendFinished", "publishError",
             "sendError", "notify", "ended"}
HandlerPc == {"listening", "raise", "pause", "publish", "send", "clear",
              "notify", "dead"}

\* The engine has not left the task lambda yet.
Solving(w) == engine[w] \notin {"none", "ended"}

LoopTypeOK ==
    /\ worker \in [Workers -> WorkerPc]
    /\ job \in [Workers -> Tasks \union {NoTask}]
    /\ done \in [Workers -> BOOLEAN]
    /\ interrupted \in [Workers -> BOOLEAN]

SessionTypeOK ==
    /\ engine \in [Workers -> EnginePc]
    /\ back \in [Workers -> {"test", "advance", "persist"}]
    /\ is_interrupted \in [Workers -> BOOLEAN]
    /\ container \in [Workers -> Saved]
    /\ at \in [Workers -> 0..Exhausted]

ListenerTypeOK ==
    /\ handler \in [Workers -> HandlerPc]
    /\ signal \in [Workers -> Signal]
    /\ processors \in [Workers -> SUBSET Tasks]

FailuresTypeOK == faults \in Nat /\ crashes \in Nat

HistoryTypeOK ==
    /\ executed \in [Tasks -> SUBSET (0..Last)]
    /\ completed \subseteq Tasks

\* The processes as main starts them: connected to Redis and RabbitMQ, listening, with
\* no task at hand.
WorkerInit ==
    /\ worker = [w \in Workers |-> "idle"]
    /\ job = [w \in Workers |-> NoTask]
    /\ done = [w \in Workers |-> FALSE]
    /\ interrupted = [w \in Workers |-> FALSE]
    /\ engine = [w \in Workers |-> "none"]
    /\ back = [w \in Workers |-> "test"]
    /\ is_interrupted = [w \in Workers |-> TRUE]
    /\ container = [w \in Workers |-> NoState]
    /\ at = [w \in Workers |-> 0]
    /\ handler = [w \in Workers |-> "listening"]
    /\ signal = [w \in Workers |-> "PAUSE"]
    /\ processors = [w \in Workers |-> {}]
    /\ faults = 0
    /\ crashes = 0
    /\ executed = [t \in Tasks |-> {}]
    /\ completed = {}

\* A call of that kind fails, and a bounded number of calls does.
Fault(kind) ==
    /\ kind \in FaultKinds
    /\ faults < MaxFaults
    /\ faults' = faults + 1

----------------------------------------------------------------------------
(* The main thread.                                                        *)

MainOnly == UNCHANGED <<amqp, job, flags, session, listener, failures, history>>

WorkerGoes(w, from, to) ==
    /\ worker[w] = from
    /\ worker' = [worker EXCEPT ![w] = to]

\* The top of the loop body: done and interrupted are new, then nextTask blocks.
LoopAgain(w) ==
    /\ worker' = [worker EXCEPT ![w] = "idle"]
    /\ done' = [done EXCEPT ![w] = FALSE]
    /\ interrupted' = [interrupted EXCEPT ![w] = FALSE]
    /\ UNCHANGED job

\* nextTask: the message is acknowledged before the task is even locked.
NextTask(w) ==
    /\ task_queue # <<>>
    /\ WorkerGoes(w, "idle", "tryLock")
    /\ job' = [job EXCEPT ![w] = Head(task_queue)]
    /\ task_queue' = Tail(task_queue)
    /\ UNCHANGED <<redis, signals, flags, session, listener, failures, history>>

\* tryLock: GETSET.  A task that was locked already is dropped.
TryLock(w) ==
    /\ worker[w] = "tryLock"
    /\ SetLock(job[w], TRUE)
    /\ IF lock[job[w]]
       THEN LoopAgain(w)
       ELSE WorkerGoes(w, "tryLock", "isFinished") /\ UNCHANGED <<job, flags>>
    /\ UNCHANGED <<amqp, session, listener, failures, history>>

IsFinished(w) ==
    /\ WorkerGoes(w, "isFinished",
                  IF status[job[w]] = "FINISHED" THEN "skip" ELSE "isPaused")
    /\ UNCHANGED redis /\ MainOnly

IsPaused(w) ==
    /\ WorkerGoes(w, "isPaused",
                  IF status[job[w]] = "PAUSED" THEN "retrieve" ELSE "incAttempts")
    /\ UNCHANGED redis /\ MainOnly

IncAttempts(w) ==
    /\ WorkerGoes(w, "incAttempts",
                  IF attempts[job[w]] + 1 >= MaxAttempts THEN "skip"
                                                         ELSE "retrieve")
    /\ attempts' = [attempts EXCEPT ![job[w]] = attempts[job[w]] + 1]
    /\ UNCHANGED <<task, lock, status, state, solution>> /\ MainOnly

\* retrieveTask: without a task the body throws.
RetrieveTask(w) ==
    /\ WorkerGoes(w, "retrieve", IF task[job[w]] THEN "load" ELSE "publishError")
    /\ UNCHANGED redis /\ MainOnly

\* Fault: the saved state is not given to the container.
LoadNothing(w) ==
    /\ WorkerGoes(w, "load", "publishStarted")
    /\ container' = [container EXCEPT ![w] = NoState]
    /\ UNCHANGED <<redis, amqp, job, flags, engine, back, is_interrupted, at,
                   listener, failures, history>>

\* loadState: an error is only logged, as if there was no saved state.
LoadState(w) ==
    /\ WorkerGoes(w, "load", "publishStarted")
    /\ \/ container' = [container EXCEPT ![w] = state[job[w]]] /\ UNCHANGED faults
       \/ container' = [container EXCEPT ![w] = NoState] /\ Fault("store")
    /\ UNCHANGED <<redis, amqp, job, flags, engine, back, is_interrupted, at,
                   listener, crashes, history>>

PublishStarted(w) ==
    /\ WorkerGoes(w, "publishStarted", "sendStarted")
    /\ UNCHANGED redis /\ MainOnly

SendStarted(w) ==
    /\ WorkerGoes(w, "sendStarted", "solve")
    /\ SetStatus(job[w], "STARTED")
    /\ MainOnly

\* solveTsp creates the session and starts its task.
SolveTsp(w) ==
    /\ WorkerGoes(w, "solve", "subscribe")
    /\ engine' = [engine EXCEPT ![w] = "validate"]
    /\ is_interrupted' = [is_interrupted EXCEPT ![w] = FALSE]
    /\ UNCHANGED <<redis, amqp, job, flags, back, container, at, listener,
                   failures, history>>

Subscribe(w) ==
    /\ WorkerGoes(w, "subscribe", "wait")
    /\ processors' = [processors EXCEPT ![w] = @ \union {job[w]}]
    /\ UNCHANGED <<redis, amqp, job, flags, session, handler, signal, failures,
                   history>>

\* wait_until: the predicate holds, or five seconds have passed.
WaitUntil(w) ==
    /\ WorkerGoes(w, "wait", IF done[w] THEN "close" ELSE "sendInProgress")
    /\ UNCHANGED redis /\ MainOnly

SendInProgress(w) ==
    /\ WorkerGoes(w, "sendInProgress", "wait")
    /\ SetStatus(job[w], "IN_PROGRESS")
    /\ MainOnly

\* The session is destroyed at the end of the try block, normally or not: its
\* destructor interrupts the task ...
Close(w) ==
    /\ WorkerGoes(w, "close", "join") \/ WorkerGoes(w, "closeOnError", "joinOnError")
    /\ is_interrupted' = [is_interrupted EXCEPT ![w] = TRUE]
    /\ UNCHANGED <<redis, amqp, job, flags, engine, back, container, at, listener,
                   failures, history>>

\* The session is gone, and what it held.
NoSession(w) ==
    /\ engine' = [engine EXCEPT ![w] = "none"]
    /\ back' = [back EXCEPT ![w] = "test"]
    /\ container' = [container EXCEPT ![w] = NoState]
    /\ at' = [at EXCEPT ![w] = 0]
    /\ UNCHANGED is_interrupted

\* Fault: ... and does not wait for it.
Detach(w) ==
    /\ \/ WorkerGoes(w, "join", "unsubscribe")
       \/ WorkerGoes(w, "joinOnError", "publishError")
    /\ UNCHANGED redis /\ MainOnly

\* ... and waits for it.
Join(w) ==
    /\ engine[w] = "ended"
    /\ \/ WorkerGoes(w, "join", "unsubscribe")
       \/ WorkerGoes(w, "joinOnError", "publishError")
    /\ NoSession(w)
    /\ UNCHANGED <<redis, amqp, job, flags, listener, failures, history>>

PublishError(w) ==
    /\ WorkerGoes(w, "publishError", "sendError")
    /\ UNCHANGED redis /\ MainOnly

SendError(w) ==
    /\ WorkerGoes(w, "sendError", "unsubscribe")
    /\ SetStatus(job[w], "ERROR")
    /\ MainOnly

Unsubscribe(w) ==
    /\ WorkerGoes(w, "unsubscribe", "unlock")
    /\ processors' = [processors EXCEPT ![w] = @ \ {job[w]}]
    /\ UNCHANGED <<redis, amqp, job, flags, session, handler, signal, failures,
                   history>>

\* At the end of the loop body, or on the way to the continue of a task that is
\* finished or was tried too often.
Unlock(w) ==
    /\ worker[w] \in {"unlock", "skip"}
    /\ SetLock(job[w], FALSE)
    /\ LoopAgain(w)
    /\ UNCHANGED <<amqp, session, listener, failures, history>>

\* Redis replies with an error that is taken for a "no", or only logged.
ReplyIsError(w) ==
    /\ Fault("store")
    /\ \/ worker[w] \in {"tryLock", "unlock", "skip"} /\ LoopAgain(w)
       \/ WorkerGoes(w, "isFinished", "isPaused") /\ UNCHANGED <<job, flags>>
       \/ WorkerGoes(w, "isPaused", "incAttempts") /\ UNCHANGED <<job, flags>>
    /\ UNCHANGED <<redis, amqp, session, listener, crashes, history>>

\* A call of the try block throws, before it has any effect.
WorkerThrows(w) ==
    /\ Fault("worker")
    /\ \/ \E pc \in {"isFinished", "isPaused", "incAttempts", "skip", "retrieve",
                     "load", "publishStarted", "sendStarted", "solve"} :
             WorkerGoes(w, pc, "publishError")
       \/ WorkerGoes(w, "sendInProgress", "closeOnError")
    /\ UNCHANGED <<redis, amqp, job, flags, session, listener, crashes, history>>

\* A call of the catch block throws.  The exception leaves Worker::start, and the
\* destructor of the interrupt listener waits for a thread that never ends.
CatchThrows(w) ==
    /\ Fault("catch")
    /\ WorkerGoes(w, "publishError", "hung") \/ WorkerGoes(w, "sendError", "hung")
    /\ UNCHANGED <<redis, amqp, job, flags, session, listener, crashes, history>>

----------------------------------------------------------------------------
(* The engine thread: the algorithm, and the callbacks it makes.           *)

EngineOnly ==
    UNCHANGED <<amqp, loop, back, is_interrupted, container, at, listener, failures,
                history>>

EngineGoes(w, from, to) ==
    /\ engine[w] = from
    /\ engine' = [engine EXCEPT ![w] = to]

\* validateOrResetSavedState, createInitialState.
Validate(w) ==
    /\ EngineGoes(w, "validate", "solution")
    /\ back' = [back EXCEPT ![w] = "test"]
    /\ container' = [container EXCEPT ![w] = IF @ \in Rejected THEN NoState ELSE @]
    /\ at' = [at EXCEPT ![w] = IF container'[w] = NoState THEN 0 ELSE container'[w]]
    /\ UNCHANGED <<redis, amqp, loop, is_interrupted, listener, failures, history>>

\* Fault: the last solution of an interrupted session is final, too.
FinalAlways(w) == back[w] = "persist"

\* The solution being published is the final one.
Final(w) == back[w] = "persist" /\ at[w] = Exhausted

Announced(w) == IF Final(w) THEN "publishFinished" ELSE back[w]

\* Fault: a solution that is final is stored as one that is not.
StorePartial(w) ==
    /\ EngineGoes(w, "solution", IF interrupted[w] THEN Announced(w) ELSE "announce")
    /\ SetSolution(job[w], "partial")
    /\ completed' = IF Final(w) THEN completed \union {job[w]} ELSE completed
    /\ UNCHANGED <<amqp, loop, back, is_interrupted, container, at, listener,
                   failures, executed>>

\* The callback for solutions stores the solution first; an error is only logged.
\* Then it looks at interrupted.
PublishSolution(w) ==
    /\ EngineGoes(w, "solution", IF interrupted[w] THEN Announced(w) ELSE "announce")
    /\ \/ /\ SetSolution(job[w], IF Final(w) THEN "final" ELSE "partial")
          /\ UNCHANGED faults
       \/ Fault("store") /\ UNCHANGED redis
    /\ completed' = IF Final(w) THEN completed \union {job[w]} ELSE completed
    /\ UNCHANGED <<amqp, loop, back, is_interrupted, container, at, listener,
                   crashes, executed>>

PublishNewSolution(w) ==
    /\ EngineGoes(w, "announce", Announced(w))
    /\ UNCHANGED redis /\ EngineOnly

\* The loop ends, and its last solution is published ...
LeaveLoop(w) ==
    /\ at[w] = Exhausted \/ is_interrupted[w]
    /\ EngineGoes(w, "test", "solution")
    /\ back' = [back EXCEPT ![w] = "persist"]
    /\ UNCHANGED <<redis, amqp, loop, is_interrupted, container, at, listener,
                   failures, history>>

\* Fault: ... only when it is interrupted.
IterateOn(w) ==
    /\ ~is_interrupted[w]
    /\ \E accepted \in BOOLEAN :
          EngineGoes(w, "test", IF accepted THEN "solution" ELSE "advance")
    /\ back' = [back EXCEPT ![w] = "advance"]
    /\ executed' = [executed EXCEPT ![job[w]] = @ \union {at[w]}]
    /\ UNCHANGED <<redis, amqp, loop, is_interrupted, container, at, listener,
                   failures, completed>>

\* ... or an iteration is executed, and its solution published if accepted.
Iterate(w) ==
    /\ at[w] # Exhausted /\ ~is_interrupted[w]
    /\ \E accepted \in BOOLEAN :
          EngineGoes(w, "test", IF accepted THEN "solution" ELSE "advance")
    /\ back' = [back EXCEPT ![w] = "advance"]
    /\ executed' = [executed EXCEPT ![job[w]] = @ \union {at[w]}]
    /\ UNCHANGED <<redis, amqp, loop, is_interrupted, container, at, listener,
                   failures, completed>>

\* Fault: the saved state is one iteration too far.
AdvanceTwice(w) ==
    /\ EngineGoes(w, "advance", "test")
    /\ at' = [at EXCEPT ![w] = at[w] + 1]
    /\ container' = [container EXCEPT ![w] =
                        IF at[w] + 1 < Last /\ is_interrupted[w] THEN at[w] + 2 ELSE @]
    /\ UNCHANGED <<redis, amqp, loop, back, is_interrupted, listener, failures,
                   history>>

\* nextState, and saveState if the session was interrupted meanwhile.
Advance(w) ==
    /\ EngineGoes(w, "advance", "test")
    /\ at' = [at EXCEPT ![w] = at[w] + 1]
    /\ container' = [container EXCEPT ![w] =
                        IF at[w] + 1 # Exhausted /\ is_interrupted[w]
                        THEN at[w] + 1 ELSE @]
    /\ UNCHANGED <<redis, amqp, loop, back, is_interrupted, listener, failures,
                   history>>

\* The persister of the container saves the state; an error is only logged.
Persist(w) ==
    /\ EngineGoes(w, "persist", "ended")
    /\ \/ SetState(job[w], container[w]) /\ UNCHANGED faults
       \/ Fault("store") /\ UNCHANGED redis
    /\ UNCHANGED <<amqp, loop, back, is_interrupted, container, at, listener,
                   crashes, history>>

PublishFinished(w) ==
    /\ EngineGoes(w, "publishFinished", "sendFinished")
    /\ UNCHANGED redis /\ EngineOnly

SendFinished(w) ==
    /\ EngineGoes(w, "sendFinished", "notify")
    /\ SetStatus(job[w], "FINISHED")
    /\ EngineOnly

\* The algorithm, a callback or the persister throws: the session calls the error
\* callback.
EngineThrows(w) ==
    /\ Fault("engine")
    /\ \E pc \in {"validate", "announce", "test", "persist", "publishFinished",
                  "sendFinished"} : EngineGoes(w, pc, "publishError")
    /\ UNCHANGED <<redis, amqp, loop, back, is_interrupted, container, at,
                   listener, crashes, history>>

EnginePublishError(w) ==
    /\ EngineGoes(w, "publishError", "sendError")
    /\ UNCHANGED redis /\ EngineOnly

\* Fault: the error callback does not wake the main thread.
EngineSendErrorOnly(w) ==
    /\ EngineGoes(w, "sendError", "ended")
    /\ SetStatus(job[w], "ERROR")
    /\ EngineOnly

EngineSendError(w) ==
    /\ EngineGoes(w, "sendError", "notify")
    /\ SetStatus(job[w], "ERROR")
    /\ EngineOnly

\* The error callback throws, too: the controller only logs it.
ErrorCallbackThrows(w) ==
    /\ Fault("engine")
    /\ EngineGoes(w, "publishError", "ended") \/ EngineGoes(w, "sendError", "ended")
    /\ UNCHANGED <<redis, amqp, loop, back, is_interrupted, container, at,
                   listener, crashes, history>>

\* done = true, notify_all.  After a final solution nothing is persisted.
EngineNotify(w) ==
    /\ EngineGoes(w, "notify", "ended")
    /\ done' = [done EXCEPT ![w] = TRUE]
    /\ UNCHANGED <<redis, amqp, worker, job, interrupted, back, is_interrupted,
                   container, at, listener, failures, history>>

----------------------------------------------------------------------------
(* The thread of the interrupt listener.                                   *)

HandlerGoes(w, from, to) ==
    /\ handler[w] = from
    /\ handler' = [handler EXCEPT ![w] = to]

\* A signal about a task without a processor is dropped.
Receive(w) ==
    /\ signals[w] # <<>>
    /\ HandlerGoes(w, "listening", IF Head(signals[w]).task \in processors[w]
                                   THEN "raise" ELSE "listening")
    /\ signal' = [signal EXCEPT ![w] = Head(signals[w]).signal]
    /\ signals' = [signals EXCEPT ![w] = Tail(signals[w])]
    /\ UNCHANGED <<redis, task_queue, loop, session, processors, failures, history>>

RaiseInterrupted(w) ==
    /\ HandlerGoes(w, "raise", "pause")
    /\ interrupted' = [interrupted EXCEPT ![w] = TRUE]
    /\ UNCHANGED <<redis, amqp, worker, job, done, session, signal, processors,
                   failures, history>>

\* session.pause() or session.interrupt()
PauseSession(w) ==
    /\ HandlerGoes(w, "pause", "publish")
    /\ is_interrupted' = [is_interrupted EXCEPT ![w] = TRUE]
    /\ UNCHANGED <<redis, amqp, loop, engine, back, container, at, signal,
                   processors, failures, history>>

PublishPaused(w) ==
    /\ HandlerGoes(w, "publish", "send")
    /\ UNCHANGED <<redis, amqp, loop, session, signal, processors, failures,
                   history>>

\* sendPaused or sendInterrupted
SendPaused(w) ==
    /\ HandlerGoes(w, "send", IF signal[w] = "PAUSE" THEN "notify" ELSE "clear")
    /\ SetStatus(job[w], IF signal[w] = "PAUSE" THEN "PAUSED" ELSE "INTERRUPTED")
    /\ UNCHANGED <<amqp, loop, session, signal, processors, failures, history>>

\* clearState: an error is only logged.
ClearState(w) ==
    /\ HandlerGoes(w, "clear", "notify")
    /\ \/ SetState(job[w], NoState) /\ UNCHANGED faults
       \/ Fault("store") /\ UNCHANGED redis
    /\ UNCHANGED <<amqp, loop, session, signal, processors, crashes, history>>

HandlerNotify(w) ==
    /\ HandlerGoes(w, "notify", "listening")
    /\ done' = [done EXCEPT ![w] = TRUE]
    /\ UNCHANGED <<redis, amqp, worker, job, interrupted, session, signal,
                   processors, failures, history>>

\* An exception ends the listening thread; its future is not looked at.
HandlerThrows(w) ==
    /\ Fault("handler")
    /\ \E pc \in {"publish", "send", "clear"} : HandlerGoes(w, pc, "dead")
    /\ UNCHANGED <<redis, amqp, loop, session, signal, processors, crashes,
                   history>>

----------------------------------------------------------------------------
\* A queue without a name is declared, bound to the interrupt exchange and consumed.
NewQueue(w) == signals' = [signals EXCEPT ![w] = <<>>]

\* The process dies and is started again: the keys in Redis stay, the queue of
\* its interrupt listener is replaced by a new one.  A worker with nothing under way
\* loses nothing but signals it would drop.
Crash(w) ==
    /\ crashes < MaxCrashes
    /\ worker[w] # "idle" \/ handler[w] # "listening"
    /\ crashes' = crashes + 1
    /\ LoopAgain(w)
    /\ NoSession(w)
    /\ handler' = [handler EXCEPT ![w] = "listening"]
    /\ processors' = [processors EXCEPT ![w] = {}]
    /\ NewQueue(w)
    /\ UNCHANGED <<redis, task_queue, signal, faults, history>>

----------------------------------------------------------------------------
MainStep(w) ==
    \/ NextTask(w) \/ TryLock(w) \/ IsFinished(w) \/ IsPaused(w) \/ IncAttempts(w)
    \/ RetrieveTask(w) \/ LoadState(w) \/ PublishStarted(w) \/ SendStarted(w)
    \/ SolveTsp(w) \/ Subscribe(w) \/ WaitUntil(w) \/ SendInProgress(w)
    \/ Close(w) \/ Join(w) \/ PublishError(w) \/ SendError(w) \/ Unsubscribe(w)
    \/ Unlock(w)

EngineStep(w) ==
    \/ Validate(w) \/ PublishSolution(w) \/ PublishNewSolution(w) \/ LeaveLoop(w)
    \/ Iterate(w) \/ Advance(w) \/ Persist(w) \/ PublishFinished(w)
    \/ SendFinished(w) \/ EnginePublishError(w) \/ EngineSendError(w)
    \/ EngineNotify(w)

HandlerStep(w) ==
    \/ Receive(w) \/ RaiseInterrupted(w) \/ PauseSession(w) \/ PublishPaused(w)
    \/ SendPaused(w) \/ ClearState(w) \/ HandlerNotify(w)

Failure(w) ==
    \/ ReplyIsError(w) \/ WorkerThrows(w) \/ CatchThrows(w) \/ EngineThrows(w)
    \/ ErrorCallbackThrows(w) \/ HandlerThrows(w) \/ Crash(w)

WorkerNext == \E w \in Workers :
    MainStep(w) \/ EngineStep(w) \/ HandlerStep(w) \/ Failure(w)

=============================================================================
