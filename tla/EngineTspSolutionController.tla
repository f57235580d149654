-------------------- MODULE EngineTspSolutionController --------------------
(***************************************************************************)
(* One TSP solution session of the engine: EngineTspSolutionController     *)
(* together with the iterative algorithm it runs (TimeWastingTspAlgorithm, *)
(* and TwoOptTspAlgorithm, whose loop has the same shape).                 *)
(*                                                                         *)
(* Three kinds of threads act on it.                                       *)
(*   - The owner starts, resumes and finally destroys the controller.      *)
(*     launchTask is cut at every access to shared state, because the      *)
(*     other threads run in between.                                       *)
(*   - Any thread may pause or interrupt: a store to is_interrupted.       *)
(*   - Each call of std::async starts a task thread that runs solveTsp.    *)
(*     Tasks are numbered in the order they were launched.                 *)
(*                                                                         *)
(* An iteration is its position in the order nextState visits them: the    *)
(* counter of the time-wasting algorithm, or the rank of (k, i, j) in the  *)
(* 2-opt one.  Costs, sequences and validation are left out.               *)
(***************************************************************************)
EXTENDS Integers

CONSTANTS
    Last,         \* the last iteration (99 in TimeWastingTspAlgorithm)
    SavedAtStart, \* the saved states a session may be created with
    Rejected,     \* iterations validateOrResetSavedState refuses to resume at
    MayThrow,     \* whether the estimator, listener and persister can throw
    MaxLaunches   \* bound: how often the owner launches a task

ASSUME LastAssumption == Last \in Nat
ASSUME SavedAtStartAssumption == SavedAtStart \subseteq {-1} \union 0..Last
ASSUME RejectedAssumption == Rejected \subseteq 0..Last
ASSUME MayThrowAssumption == MayThrow \in BOOLEAN
ASSUME MaxLaunchesAssumption == MaxLaunches \in Nat \ {0}

VARIABLES
    \* the fields of the controller
    is_started, is_interrupted, has_final_solution,
    control_state,  \* the task whose future is stored, 0 when it is not valid
    container,      \* the iteration held by the TspAlgorithmStateContainer
    \* the threads
    owner,          \* where the owner is in launchTask or the destructor
    launches,       \* how many tasks std::async has started
    task,           \* where each task thread is
    at,             \* current_iteration_state of each task
    \* what others see of the session
    persisted,      \* the state last handed to the persister
    executed,       \* the iterations executed so far
    finals          \* how many final solutions the listener was given

controller == <<is_started, is_interrupted, has_final_solution, control_state,
                container>>
observed == <<persisted, executed, finals>>
vars == <<controller, owner, launches, task, at, observed>>

----------------------------------------------------------------------------
Task == 1..MaxLaunches

NoState == -1            \* the container holds no algorithm state
Exhausted == Last + 1    \* nextState returned nullopt
Saved == {NoState} \union 0..Last

TaskPc == {"unborn", "validate", "initial", "test", "iterate", "check",
           "publish", "persist", "error", "stop", "ending", "done"}
OwnerPc == {"idle", "cas", "wait", "clear", "launch", "assign",
            "destroying", "destroyed"}

\* A task is active until it has cleared is_started, its last statement.
Active(t) == task[t] \notin {"unborn", "ending", "done"}

Before(c) == 0..(c - 1)

TypeOK ==
    /\ is_started \in BOOLEAN
    /\ is_interrupted \in BOOLEAN
    /\ has_final_solution \in BOOLEAN
    /\ control_state \in 0..MaxLaunches
    /\ container \in Saved
    /\ owner \in OwnerPc
    /\ launches \in 0..MaxLaunches
    /\ task \in [Task -> TaskPc]
    /\ at \in [Task -> 0..Exhausted]
    /\ persisted \in Saved
    /\ executed \subseteq 0..Last
    /\ finals \in Nat

\* A session is created with the state saved by an earlier one, if any: the
\* iterations before it were executed there.
Init ==
    /\ is_started = FALSE
    /\ is_interrupted = TRUE
    /\ has_final_solution = FALSE
    /\ control_state = 0
    /\ container \in SavedAtStart
    /\ owner = "idle"
    /\ launches = 0
    /\ task = [t \in Task |-> "unborn"]
    /\ at = [t \in Task |-> 0]
    /\ persisted = container
    /\ executed = Before(container)
    /\ finals = 0

----------------------------------------------------------------------------
(* Calls of the owner and of the threads that pause or interrupt.          *)

OwnerGoes(from, to) ==
    /\ owner = from
    /\ owner' = to

\* start() and resume(): launchTask gives up at once if the final solution
\* is known.
Resume ==
    /\ launches < MaxLaunches
    /\ ~has_final_solution
    /\ OwnerGoes("idle", "cas")
    /\ UNCHANGED <<controller, launches, task, at, observed>>

\* Fault: a plain store instead of the compare-exchange.
StoreStarted ==
    /\ OwnerGoes("cas", "wait")
    /\ is_started' = TRUE
    /\ UNCHANGED <<is_interrupted, has_final_solution, control_state, container,
                   launches, task, at, observed>>

\* is_started.compare_exchange_strong(false, true)
CompareExchange ==
    /\ OwnerGoes("cas", IF is_started THEN "idle" ELSE "wait")
    /\ is_started' = TRUE
    /\ UNCHANGED <<is_interrupted, has_final_solution, control_state, container,
                   launches, task, at, observed>>

StopAwaited ==
    is_interrupted /\ control_state # 0 => task[control_state] = "done"

\* waitForTaskStop() inside launchTask
WaitForTaskStop ==
    /\ StopAwaited
    /\ OwnerGoes("wait", "clear")
    /\ UNCHANGED <<controller, launches, task, at, observed>>

ClearInterrupt ==
    /\ OwnerGoes("clear", "launch")
    /\ is_interrupted' = FALSE
    /\ UNCHANGED <<is_started, has_final_solution, control_state, container,
                   launches, task, at, observed>>

\* std::async runs the task before its future is stored in control_state.
Launch ==
    /\ OwnerGoes("launch", "assign")
    /\ launches' = launches + 1
    /\ task' = [task EXCEPT ![launches + 1] = "validate"]
    /\ UNCHANGED <<controller, at, observed>>

\* Assigning to control_state releases the future of the task before, and the
\* future of a std::async task blocks until that task has ended.
AssignControlState ==
    /\ control_state # 0 => task[control_state] = "done"
    /\ OwnerGoes("assign", "idle")
    /\ control_state' = launches
    /\ UNCHANGED <<is_started, is_interrupted, has_final_solution, container,
                   launches, task, at, observed>>

\* pause() and interrupt() are the same store.  Nobody calls a controller that
\* is being destroyed.
Pause ==
    /\ owner \notin {"destroying", "destroyed"}
    /\ is_interrupted' = TRUE
    /\ UNCHANGED <<is_started, has_final_solution, control_state, container,
                   owner, launches, task, at, observed>>

\* Fault: the destructor does not interrupt the task.
DestroyQuietly ==
    /\ OwnerGoes("idle", "destroying")
    /\ UNCHANGED <<controller, launches, task, at, observed>>

\* ~EngineTspSolutionController: interrupt, then waitForTaskStop().
Destroy ==
    /\ OwnerGoes("idle", "destroying")
    /\ is_interrupted' = TRUE
    /\ UNCHANGED <<is_started, has_final_solution, control_state, container,
                   launches, task, at, observed>>

DestroyAwaitsTask ==
    /\ StopAwaited
    /\ OwnerGoes("destroying", "destroyed")
    /\ UNCHANGED <<controller, launches, task, at, observed>>

----------------------------------------------------------------------------
(* The task thread: the lambda of launchTask around solveTsp.              *)

TaskGoes(t, from, to) ==
    /\ task[t] = from
    /\ task' = [task EXCEPT ![t] = to]

\* validateOrResetSavedState
Validate(t) ==
    /\ TaskGoes(t, "validate", "initial")
    /\ container' = IF container \in Rejected THEN NoState ELSE container
    /\ UNCHANGED <<is_started, is_interrupted, has_final_solution, control_state,
                   owner, launches, at, observed>>

\* publishSolution stores the finality of the solution, then calls the
\* listener, which may throw.
Publishes(t, from, to, final) ==
    /\ TaskGoes(t, from, to) \/ (MayThrow /\ TaskGoes(t, from, "error"))
    /\ has_final_solution' = final

\* publishSolution(initial), then createInitialState
PublishInitial(t) ==
    /\ Publishes(t, "initial", "test", FALSE)
    /\ at' = [at EXCEPT ![t] = IF container = NoState THEN 0 ELSE container]
    /\ UNCHANGED <<is_started, is_interrupted, control_state, container,
                   owner, launches, observed>>

\* Fault: the loop does not test current_iteration_state.
TestInterruptOnly(t) ==
    /\ TaskGoes(t, "test", IF is_interrupted THEN "publish" ELSE "iterate")
    /\ UNCHANGED <<controller, owner, launches, at, observed>>

\* while (current_iteration_state && !isInterrupted())
TestLoop(t) ==
    /\ TaskGoes(t, "test", IF at[t] = Exhausted \/ is_interrupted
                           THEN "publish" ELSE "iterate")
    /\ UNCHANGED <<controller, owner, launches, at, observed>>

\* The body of the loop up to nextState; an accepted solution is published, not
\* as a final one.
Iterate(t) ==
    /\ TaskGoes(t, "iterate", "check")
    /\ \E accepted \in BOOLEAN :
          has_final_solution' = (has_final_solution /\ ~accepted)
    /\ executed' = executed \union {at[t]}
    /\ at' = [at EXCEPT ![t] = at[t] + 1]
    /\ UNCHANGED <<is_started, is_interrupted, control_state, container,
                   owner, launches, persisted, finals>>

\* Fault: the iteration after the next one is saved.
SaveOneAhead(t) ==
    /\ TaskGoes(t, "check", "test")
    /\ container' = IF at[t] < Last /\ is_interrupted THEN at[t] + 1 ELSE container
    /\ UNCHANGED <<is_started, is_interrupted, has_final_solution, control_state,
                   owner, launches, at, observed>>

\* if (current_iteration_state && isInterrupted()) saveState(...)
CheckInterrupted(t) ==
    /\ TaskGoes(t, "check", "test")
    /\ container' = IF at[t] # Exhausted /\ is_interrupted THEN at[t] ELSE container
    /\ UNCHANGED <<is_started, is_interrupted, has_final_solution, control_state,
                   owner, launches, at, observed>>

\* Fault: an interrupted run publishes its solution as final, too.
PublishAlwaysFinal(t) ==
    /\ Publishes(t, "publish", "persist", TRUE)
    /\ finals' = finals + 1
    /\ UNCHANGED <<is_started, is_interrupted, control_state, container,
                   owner, launches, at, persisted, executed>>

\* publishSolution(current_iteration_state ? current : current.asFinal())
PublishLast(t) ==
    /\ Publishes(t, "publish", "persist", at[t] = Exhausted)
    /\ finals' = IF at[t] = Exhausted THEN finals + 1 ELSE finals
    /\ UNCHANGED <<is_started, is_interrupted, control_state, container,
                   owner, launches, at, persisted, executed>>

Persist(t) ==
    /\ TaskGoes(t, "persist", "stop")
    /\ persisted' = IF has_final_solution THEN persisted ELSE container
    /\ UNCHANGED <<controller, owner, launches, at, executed, finals>>

\* The estimator, the listener of an accepted solution or the persister throws.
Throw(t) ==
    /\ MayThrow
    /\ \/ TaskGoes(t, "initial", "error")
       \/ TaskGoes(t, "iterate", "error")
       \/ TaskGoes(t, "persist", "error")
    /\ UNCHANGED <<controller, owner, launches, at, observed>>

\* Fault: is_started is not cleared after an exception.
ReturnOnError(t) ==
    /\ TaskGoes(t, "error", "ending")
    /\ UNCHANGED <<controller, owner, launches, at, observed>>

\* The exception is caught and the listener told; is_started is cleared below.
OnError(t) ==
    /\ TaskGoes(t, "error", "stop")
    /\ UNCHANGED <<controller, owner, launches, at, observed>>

ClearStarted(t) ==
    /\ TaskGoes(t, "stop", "ending")
    /\ is_started' = FALSE
    /\ UNCHANGED <<is_interrupted, has_final_solution, control_state, container,
                   owner, launches, at, observed>>

\* Fault: the task needs something the owner holds while it waits.
ReturnWhenOwnerIdle(t) ==
    /\ owner = "idle"
    /\ TaskGoes(t, "ending", "done")
    /\ UNCHANGED <<controller, owner, launches, at, observed>>

\* The lambda returns and the future becomes ready.
Return(t) ==
    /\ TaskGoes(t, "ending", "done")
    /\ UNCHANGED <<controller, owner, launches, at, observed>>

----------------------------------------------------------------------------
OwnerStep ==
    \/ CompareExchange \/ WaitForTaskStop \/ ClearInterrupt
    \/ Launch \/ AssignControlState \/ DestroyAwaitsTask

TaskStep(t) ==
    \/ Validate(t) \/ PublishInitial(t) \/ TestLoop(t) \/ Iterate(t)
    \/ CheckInterrupted(t) \/ PublishLast(t) \/ Persist(t) \/ Throw(t)
    \/ OnError(t) \/ ClearStarted(t) \/ Return(t)

Destroyed ==
    /\ owner = "destroyed"
    /\ UNCHANGED vars

Next ==
    \/ Resume \/ Pause \/ Destroy
    \/ OwnerStep
    \/ \E t \in Task : TaskStep(t)
    \/ Destroyed

\* A thread that has something to do is scheduled in the end; nobody is
\* obliged to call resume, pause or the destructor.
Fairness ==
    /\ WF_vars(OwnerStep)
    /\ \A t \in Task : WF_vars(TaskStep(t))

Spec == Init /\ [][Next]_vars /\ Fairness

----------------------------------------------------------------------------
(* Properties.                                                             *)

\* Two tasks never run solveTsp on the same algorithm, container and listener
\* at the same time, however pause, resume and a task that is winding down
\* interleave: is_started is taken before std::async and given back last.
OneActiveTask == \A s, t \in Task : Active(s) /\ Active(t) => s = t

\* Neither the container nor what was persisted, nor the iteration a task is
\* at, is ahead of the work done: resuming may repeat an iteration but never
\* skips one, and a final solution is published only when all are executed.
NoIterationSkipped ==
    /\ Before(container) \subseteq executed
    /\ Before(persisted) \subseteq executed
    /\ \A t \in Task : Before(at[t]) \subseteq executed
    /\ finals > 0 => executed = 0..Last

\* No task outlives the controller whose members it uses: the destructor
\* interrupts it and waits for its future.
NoTaskOutlivesController ==
    owner = "destroyed" => \A t \in Task : ~Active(t)

\* The test InterruptResumeWorkflowIsThreadSafe asserts that after any sequence
\* of pauses and resumes every iteration was executed exactly once, in order.
ExecutedOnce ==
    [][\A t \in Task : task[t] = "iterate" /\ task'[t] = "check"
                          => at[t] \notin executed]_vars

\* A task that was started comes to an end and gives is_started back, on every
\* path out of it, so that isFinished() becomes true and resume() works again.
TaskEnds == is_started ~> ~is_started

\* resume() and the destructor return: the futures they wait for become ready.
CallsReturn ==
    owner \notin {"idle", "destroyed"} ~> owner \in {"idle", "destroyed"}

\* The session does what ResumableRun promises: one run at a time, checkpoints
\* and final solutions backed by executed iterations.
Run == INSTANCE ResumableRun
       WITH running <- is_started, done <- executed,
            checkpoint <- persisted, completed <- finals > 0

ImplementsResumableRun == Run!Spec

=============================================================================
