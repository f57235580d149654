----------------------------- MODULE TspSystem ------------------------------
(***************************************************************************)
(* The TSP service: the calls of TspServer and the workers of TspWorker,   *)
(* interleaved over the Redis keys and RabbitMQ queues of TspStore.        *)
(***************************************************************************)
EXTENDS TspServer, TspWorker

vars == <<redis, amqp, serverVars, workerVars>>

Init == StoreInit /\ ServerInit /\ WorkerInit

Next ==
    \/ ServerNext /\ UNCHANGED workerVars
    \/ WorkerNext /\ UNCHANGED serverVars
    \/ (\E t \in Tasks : Expire(t)) /\ UNCHANGED <<serverVars, workerVars>>

\* Every thread of a worker that can go on does so in the end.  Nobody has to make
\* a call, and a call may stop anywhere.
Fairness == \A w \in Workers :
    /\ WF_vars(MainStep(w) /\ UNCHANGED serverVars)
    /\ WF_vars(EngineStep(w) /\ UNCHANGED serverVars)
    /\ WF_vars(HandlerStep(w) /\ UNCHANGED serverVars)

Spec == Init /\ [][Next]_vars /\ Fairness

TypeOK ==
    /\ RedisTypeOK /\ AmqpTypeOK /\ ServerTypeOK
    /\ LoopTypeOK /\ SessionTypeOK /\ ListenerTypeOK
    /\ FailuresTypeOK /\ HistoryTypeOK

----------------------------------------------------------------------------
(* Properties.                                                             *)

\* Between tryLock and unlock.
Holding(w) == worker[w] \notin {"idle", "tryLock"}

\* At most one worker is working on a task, and what the engine thread of any
\* other one does is not about this task: the lock in Redis is taken before
\* anything else and given back only after the session is gone.
OneWorkerPerTask ==
    \A v, w \in Workers :
        /\ Holding(v) /\ Holding(w) /\ job[v] = job[w] => v = w
        /\ Solving(w) => Holding(w)

\* A task is never reported as finished while the solution on offer is one that
\* was superseded: a FINISHED status has the final solution behind it, until that
\* expires.  (As far as Redis stores solutions: an error there is only logged.)
FinishedHasFinalSolution ==
    \A t \in Tasks : status[t] = "FINISHED" => solution[t] # "partial"

\* Work that was saved is not lost: pausing and resuming a task, on whichever
\* worker, only moves its saved state on, unless the state is one the algorithm
\* refuses or an INTERRUPT clears it.
SavedProgressKept ==
    [][\A t \in Tasks : state'[t] < state[t] =>
          \/ state[t] \in Rejected
          \/ \E w \in Workers : handler[w] = "clear" /\ handler'[w] = "notify"]_vars

\* A task that was locked is unlocked in the end, by whichever path the worker
\* leaves it: the lock has no expiry and nobody else would.
LockReleased == \A t \in Tasks : lock[t] ~> ~lock[t]

\* Seen over all its sessions, on all workers, a task is worked off as ResumableRun
\* promises: no iteration is left out, no checkpoint is ahead of the work done.
Run(t) == INSTANCE ResumableRun
          WITH running <- lock[t], done <- executed[t],
               checkpoint <- state[t], completed <- t \in completed

TasksImplementResumableRun ==
    /\ \A t \in Tasks : Run(t)!Init
    /\ [][\A t \in Tasks : [Run(t)!Next]_(Run(t)!vars)]_vars

\* ResumeTsp refuses a task with the status IN_PROGRESS: "task is already in
\* progress".
InProgressIsWorkedOn ==
    \A t \in Tasks : status[t] = "IN_PROGRESS" => lock[t]

\* A finished task is not paused or interrupted any more: the main thread takes it
\* for finished, and ResumeTsp refuses it with "task is already finished".
FinishedStays ==
    [][\A t \in Tasks : status[t] = "FINISHED" =>
                           status'[t] \notin {"PAUSED", "INTERRUPTED"}]_vars

\* A start message is dropped when the task is locked: "Likely someone else it
\* already working on it".
DroppedOnlyIfWorkedOn ==
    [][\A w \in Workers : worker[w] = "tryLock" /\ worker'[w] = "idle" =>
          \E v \in Workers : Holding(v) /\ job[v] = job[w] /\ ~done[v]]_vars

=============================================================================
