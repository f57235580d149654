----------------- MODULE EngineTspSolutionController_proofs -----------------
(***************************************************************************)
(* Safety of one solution session, for every number of iterations and      *)
(* launches: the type invariant, the exclusion of tasks, the destructor,   *)
(* the progress invariant, and the refinement of ResumableRun; and what    *)
(* the liveness of a session rests on.                                     *)
(***************************************************************************)
EXTENDS EngineTspSolutionController, TLAPS

\* Tasks are numbered by launches, and only the latest can be active.
TasksNumbered ==
    /\ \A t \in Task : task[t] = "unborn" <=> t > launches
    /\ \A t \in Task : Active(t) => t = launches

\* is_started is a lock, handed by the owner, who takes it, to the task it
\* launches; the owner cannot take it while a task is active.
StartedIsHeld ==
    /\ \A t \in Task : Active(t) =>
          is_started /\ owner \notin {"wait", "clear", "launch"}
    /\ owner \in {"wait", "clear", "launch"} => is_started

\* Outside the window in which std::async has returned and its future is not
\* stored yet, control_state is the latest task.
FutureIsCurrent ==
    /\ owner # "assign" => control_state = launches
    /\ owner \in {"cas", "wait", "clear", "launch"} => launches < MaxLaunches
    /\ owner = "destroying" => is_interrupted

\* Only an iteration that exists is executed.
IterationExists == \A t \in Task : task[t] = "iterate" => at[t] \in 0..Last

IInv ==
    /\ TypeOK
    /\ TasksNumbered
    /\ StartedIsHeld
    /\ FutureIsCurrent
    /\ IterationExists
    /\ NoIterationSkipped
    /\ NoTaskOutlivesController

----------------------------------------------------------------------------
\* A session that was just constructed has no task, and claims what was saved.
LEMMA InitIInv == Init => IInv
<1> SUFFICES ASSUME Init PROVE IInv
  OBVIOUS
<1> USE LastAssumption, SavedAtStartAssumption, MaxLaunchesAssumption
<1>1. TypeOK
  <2>1. container \in {-1} \union 0..Last
    BY DEF Init
  <2>2. Before(container) \subseteq 0..Last
    BY <2>1 DEF Before
  <2>3. at \in [Task -> 0..Exhausted] /\ task \in [Task -> TaskPc]
    BY DEF Init, Exhausted, TaskPc
  <2>4. control_state \in 0..MaxLaunches /\ launches \in 0..MaxLaunches
    BY DEF Init
  <2>5. is_started \in BOOLEAN /\ is_interrupted \in BOOLEAN
        /\ has_final_solution \in BOOLEAN /\ owner \in OwnerPc /\ finals \in Nat
    BY DEF Init, OwnerPc
  <2>6. persisted \in Saved /\ container \in Saved /\ executed \subseteq 0..Last
    BY <2>1, <2>2 DEF Init, Saved, NoState
  <2> QED
    BY <2>3, <2>4, <2>5, <2>6 DEF TypeOK
<1>2. TasksNumbered /\ StartedIsHeld /\ FutureIsCurrent /\ IterationExists
  BY DEF Init, TasksNumbered, StartedIsHeld, FutureIsCurrent, IterationExists,
         Active, Task
<1>3. NoIterationSkipped /\ NoTaskOutlivesController
  BY <1>1 DEF Init, TypeOK, NoIterationSkipped, NoTaskOutlivesController, Before
<1> QED
  BY <1>1, <1>2, <1>3 DEF IInv

\* Every step of the owner, of a task and of a thread that pauses keeps IInv.
LEMMA NextIInv == IInv /\ [Next]_vars => IInv'
<1> SUFFICES ASSUME IInv, [Next]_vars PROVE IInv'
  OBVIOUS
<1> USE LastAssumption, RejectedAssumption, MaxLaunchesAssumption
<1> USE DEF IInv, TypeOK, TasksNumbered, StartedIsHeld, FutureIsCurrent,
        IterationExists, NoIterationSkipped, NoTaskOutlivesController,
        Active, Task, Saved, NoState, Exhausted, OwnerPc, TaskPc, Before,
        controller, observed, OwnerGoes, TaskGoes
<1>1. CASE Resume
  BY <1>1 DEF Resume
<1>2. CASE Pause
  BY <1>2 DEF Pause
<1>3. CASE Destroy
  BY <1>3 DEF Destroy
<1>4. CASE CompareExchange
  BY <1>4 DEF CompareExchange
<1>5. CASE WaitForTaskStop
  BY <1>5 DEF WaitForTaskStop
<1>6. CASE ClearInterrupt
  BY <1>6 DEF ClearInterrupt
<1>7. CASE Launch
  BY <1>7 DEF Launch
<1>8. CASE AssignControlState
  BY <1>8 DEF AssignControlState
<1>9. CASE DestroyAwaitsTask
  BY <1>9 DEF DestroyAwaitsTask, StopAwaited
<1>10. ASSUME NEW t \in Task, TaskStep(t)
       PROVE  IInv'
  <2>1. CASE Validate(t)
    BY <2>1 DEF Validate
  <2>2. CASE PublishInitial(t)
    <3>1. at'[t] \in 0..Last /\ Before(at'[t]) \subseteq executed
      BY <2>2 DEF PublishInitial
    <3>2. \A s \in Task : s # t => at'[s] = at[s] /\ task'[s] = task[s]
      BY <2>2 DEF PublishInitial, Publishes
    <3>3. task'[t] \in {"test", "error"} /\ task[t] = "initial"
      BY <2>2 DEF PublishInitial, Publishes
    <3>4. at' \in [Task -> 0..Exhausted] /\ task' \in [Task -> TaskPc]
      BY <2>2 DEF PublishInitial, Publishes
    <3>5. UNCHANGED <<is_started, is_interrupted, control_state, container,
                      owner, launches, persisted, executed, finals>>
          /\ has_final_solution' = FALSE
      BY <2>2 DEF PublishInitial, Publishes
    <3> QED
      BY <3>1, <3>2, <3>3, <3>4, <3>5
  <2>3. CASE TestLoop(t)
    BY <2>3 DEF TestLoop
  <2>4. CASE Iterate(t)
    <3>1. at'[t] = at[t] + 1 /\ at[t] \in 0..Last
      BY <2>4 DEF Iterate
    <3>2. Before(at'[t]) = Before(at[t]) \union {at[t]}
      BY <3>1
    <3>3. executed' = executed \union {at[t]} /\ executed' \subseteq 0..Last
      BY <2>4, <3>1 DEF Iterate
    <3>4. finals' > 0 => executed' = 0..Last
      BY <2>4, <3>1, <3>3 DEF Iterate
    <3>5. NoIterationSkipped'
      BY <2>4, <3>1, <3>2, <3>3, <3>4 DEF Iterate
    <3>6. has_final_solution' \in BOOLEAN
      BY <2>4 DEF Iterate
    <3>7. TypeOK' /\ IterationExists'
      BY <2>4, <3>1, <3>3, <3>6 DEF Iterate
    <3> QED
      BY <2>4, <3>5, <3>7 DEF Iterate
  <2>5. CASE CheckInterrupted(t)
    BY <2>5 DEF CheckInterrupted
  <2>6. CASE PublishLast(t)
    <3>1. has_final_solution' \in BOOLEAN /\ finals' \in Nat
      BY <2>6 DEF PublishLast, Publishes
    <3>2. at[t] = Exhausted => executed = 0..Last
      <4>1. ASSUME at[t] = Last + 1 PROVE executed = 0..Last
        <5>1. Before(at[t]) = 0..Last
          BY <4>1
        <5>2. Before(at[t]) \subseteq executed /\ executed \subseteq 0..Last
          OBVIOUS
        <5> QED
          BY <5>1, <5>2 DEF Before
      <4> QED
        BY <4>1 DEF Exhausted
    <3>3. finals' > 0 => executed = 0..Last
      BY <2>6, <3>2 DEF PublishLast
    <3>4. task[t] = "publish" /\ \E pc \in {"persist", "error"} :
             task' = [task EXCEPT ![t] = pc]
      BY <2>6 DEF PublishLast, Publishes
    <3> QED
      BY <2>6, <3>1, <3>3, <3>4 DEF PublishLast
  <2>7. CASE Persist(t)
    BY <2>7 DEF Persist
  <2>8. CASE Throw(t)
    BY <2>8 DEF Throw
  <2>9. CASE OnError(t)
    BY <2>9 DEF OnError
  <2>10. CASE ClearStarted(t)
    BY <2>10 DEF ClearStarted
  <2>11. CASE Return(t)
    BY <2>11 DEF Return
  <2> QED
    BY <1>10, <2>1, <2>2, <2>3, <2>4, <2>5, <2>6, <2>7, <2>8, <2>9, <2>10, <2>11
    DEF TaskStep
<1>11. CASE Destroyed \/ UNCHANGED vars
  BY <1>11 DEF Destroyed, vars
<1> QED
  BY <1>1, <1>2, <1>3, <1>4, <1>5, <1>6, <1>7, <1>8, <1>9, <1>10, <1>11
  DEF Next, OwnerStep

\* The inductive invariant of launchTask and the task lambda it starts: is_started
\* is handed from one to the other, and only the latest task is active.
THEOREM Invariance == Spec => []IInv
BY InitIInv, NextIInv, PTL DEF Spec

\* Every variable keeps its type: in particular no task works past the last
\* iteration.
THEOREM TypeCorrect == Spec => []TypeOK
BY Invariance, PTL DEF IInv

\* At most one task of a session is between the compare-exchange that admitted
\* it and the store that clears is_started, for any number of launches.
THEOREM TaskExclusion == Spec => []OneActiveTask
<1>1. IInv => OneActiveTask
  BY DEF IInv, TasksNumbered, OneActiveTask
<1> QED
  BY <1>1, Invariance, PTL

\* The container, the persisted state and the final solution never claim an
\* iteration that was not executed.
THEOREM ProgressIsBacked == Spec => []NoIterationSkipped
BY Invariance, PTL DEF IInv

\* The destructor returns only after the task has ended.
THEOREM DestructorWaits == Spec => []NoTaskOutlivesController
BY Invariance, PTL DEF IInv

----------------------------------------------------------------------------
(* The refinement of ResumableRun.                                         *)

\* The state a session is created with is a checkpoint.
LEMMA InitRefines == Init => Run!Init
BY SavedAtStartAssumption
DEF Init, Before, Run!Init, Run!Checkpoints, Run!Iterations

\* Each step of a thread is one step of ResumableRun or none.
LEMMA StepRefines == IInv /\ [Next]_vars => [Run!Next]_Run!vars
<1> SUFFICES ASSUME IInv, [Next]_vars PROVE [Run!Next]_Run!vars
  OBVIOUS
<1> USE DEF Run!vars, Run!Next
<1>1. CASE \/ Resume \/ Pause \/ Destroy \/ Destroyed \/ UNCHANGED vars
           \/ WaitForTaskStop \/ ClearInterrupt \/ Launch
           \/ AssignControlState \/ DestroyAwaitsTask
  BY <1>1 DEF Resume, Pause, Destroy, Destroyed, WaitForTaskStop,
     ClearInterrupt, Launch, AssignControlState, DestroyAwaitsTask,
     vars, controller, observed
<1>2. CASE CompareExchange
  BY <1>2 DEF CompareExchange, Run!Begin, observed, IInv, TypeOK
<1>3. ASSUME NEW t \in Task, TaskStep(t)
      PROVE  [Run!Next]_Run!vars
  <2>1. CASE \/ Validate(t) \/ PublishInitial(t) \/ TestLoop(t)
             \/ CheckInterrupted(t) \/ Throw(t) \/ OnError(t) \/ Return(t)
    BY <2>1 DEF Validate, PublishInitial, TestLoop, CheckInterrupted, Throw,
       OnError, Return, controller, observed
  <2>2. CASE Iterate(t)
    <3>1. is_started /\ at[t] \in 0..Last
      BY <2>2 DEF Iterate, TaskGoes, IInv, StartedIsHeld, IterationExists, Active
    <3>2. 0..(at[t] - 1) \subseteq executed
      BY DEF IInv, NoIterationSkipped, Before
    <3>3. executed' = executed \union {at[t]}
          /\ UNCHANGED <<is_started, persisted, finals>>
      BY <2>2 DEF Iterate
    <3> QED
      BY <3>1, <3>2, <3>3 DEF Run!Execute, Run!AllDoneBefore, Run!Iterations
  <2>3. CASE PublishLast(t)
    <3>1. is_started
      BY <2>3 DEF PublishLast, Publishes, TaskGoes, IInv, StartedIsHeld, Active
    <3>2. UNCHANGED <<is_started, executed, persisted>>
      BY <2>3 DEF PublishLast
    <3>3. CASE at[t] = Exhausted
      <4>1. finals' > 0 /\ executed' = 0..Last
        <5>1. IInv'
          BY NextIInv
        <5>2. finals' = finals + 1 /\ finals \in Nat
          BY <2>3, <3>3 DEF PublishLast, IInv, TypeOK
        <5> QED
          BY <5>1, <5>2 DEF IInv, NoIterationSkipped
      <4> QED
        BY <3>1, <3>2, <4>1 DEF Run!Complete, Run!Iterations
    <3>4. CASE at[t] # Exhausted
      BY <2>3, <3>2, <3>4 DEF PublishLast
    <3> QED
      BY <3>3, <3>4
  <2>4. CASE Persist(t)
    <3>1. is_started
      BY <2>4 DEF Persist, TaskGoes, IInv, StartedIsHeld, Active
    <3>2. UNCHANGED <<is_started, executed, finals>>
          /\ persisted' \in {persisted, container}
      BY <2>4 DEF Persist, controller
    <3>3. container \in Run!Checkpoints /\ 0..(container - 1) \subseteq executed
      BY DEF IInv, TypeOK, Saved, NoState, NoIterationSkipped, Before,
         Run!Checkpoints, Run!Iterations
    <3> QED
      BY <3>1, <3>2, <3>3 DEF Run!Save, Run!AllDoneBefore
  <2>5. CASE ClearStarted(t)
    <3>1. is_started
      BY <2>5 DEF ClearStarted, TaskGoes, IInv, StartedIsHeld, Active
    <3> QED
      BY <2>5, <3>1 DEF ClearStarted, Run!End, observed
  <2> QED
    BY <1>3, <2>1, <2>2, <2>3, <2>4, <2>5 DEF TaskStep
<1> QED
  BY <1>1, <1>2, <1>3 DEF Next, OwnerStep

\* The controller, with all its threads, implements ResumableRun.
THEOREM Refinement == Spec => ImplementsResumableRun
BY InitRefines, StepRefines, Invariance, PTL
DEF Spec, ImplementsResumableRun, Run!Spec

----------------------------------------------------------------------------
(* What TaskEnds and CallsReturn rest on: is_started is held by somebody,  *)
(* a future that is waited for is that of a task, and every thread that    *)
(* has begun something has only so many steps left.                        *)

\* Whoever took is_started has it: the owner, or a task that will clear it.
SomebodyHolds ==
    is_started => owner \in {"wait", "clear", "launch"} \/ \E t \in Task : Active(t)

\* Who waits for a future waits for a task that was started.
AwaitedWasStarted == control_state # 0 => task[control_state] # "unborn"

\* The steps of a task that is at p, and of its loop at iteration i.
StepsAt(p, i) ==
    CASE p = "unborn"   -> 3 * Exhausted + 10
      [] p = "validate" -> 3 * Exhausted + 9
      [] p = "initial"  -> 3 * Exhausted + 8
      [] p = "check"    -> 3 * (Exhausted - i) + 8
      [] p = "test"     -> 3 * (Exhausted - i) + 7
      [] p = "iterate"  -> 3 * (Exhausted - i) + 6
      [] p = "publish"  -> 5
      [] p = "persist"  -> 4
      [] p = "error"    -> 3
      [] p = "stop"     -> 2
      [] p = "ending"   -> 1
      [] OTHER          -> 0

TaskLeft == [t \in Task |-> StepsAt(task[t], at[t])]

\* The steps of a call of the owner.
CallAt(p) ==
    CASE p = "cas"        -> 5
      [] p = "wait"       -> 4
      [] p = "clear"      -> 3
      [] p = "launch"     -> 2
      [] p = "assign"     -> 1
      [] p = "destroying" -> 1
      [] OTHER            -> 0

\* A step leaves a task where it is or brings it nearer to its end, and likewise
\* a call of the owner once it has begun.
GetsOn ==
    [][/\ \A t \in Task :
            \/ task'[t] = task[t] /\ at'[t] = at[t]
            \/ TaskLeft'[t] < TaskLeft[t]
       /\ owner' = owner \/ owner = "idle" \/ CallAt(owner') < CallAt(owner)]_vars

LEMMA InitHolds == Init => SomebodyHolds
BY DEF Init, SomebodyHolds

LEMMA NextHolds == IInv /\ SomebodyHolds /\ [Next]_vars => SomebodyHolds'
<1> SUFFICES ASSUME IInv, SomebodyHolds, [Next]_vars PROVE SomebodyHolds'
  OBVIOUS
<1> USE DEF SomebodyHolds
<1>1. task \in [Task -> TaskPc] /\ launches \in 0..MaxLaunches
  BY DEF IInv, TypeOK
<1>2. ASSUME UNCHANGED <<is_started, owner, task>> PROVE SomebodyHolds'
  BY <1>2 DEF Active
<1>3. CASE Resume \/ Destroy \/ CompareExchange \/ WaitForTaskStop \/ ClearInterrupt
           \/ AssignControlState \/ DestroyAwaitsTask
  <2>1. UNCHANGED task
    BY <1>3 DEF Resume, Destroy, CompareExchange, WaitForTaskStop, ClearInterrupt,
       AssignControlState, DestroyAwaitsTask
  <2>2. \A t \in Task : Active(t)' <=> Active(t)
    BY <2>1 DEF Active
  <2> QED
    BY <1>3, <2>2 DEF Resume, Destroy, CompareExchange, WaitForTaskStop, ClearInterrupt,
       AssignControlState, DestroyAwaitsTask, OwnerGoes, controller
<1>4. CASE Launch
  <2>1. owner = "launch" /\ task' = [task EXCEPT ![launches + 1] = "validate"]
    BY <1>4 DEF Launch, OwnerGoes
  <2>2. launches + 1 \in Task
    BY <1>1, <2>1, MaxLaunchesAssumption DEF IInv, FutureIsCurrent, Task
  <2>3. PICK t \in Task : t = launches + 1
    BY <2>2
  <2>4. Active(t)'
    BY <1>1, <2>1, <2>3 DEF Active
  <2> QED
    BY <2>4
<1>5. CASE Pause
  BY <1>2, <1>5 DEF Pause
<1>6. ASSUME NEW t \in Task, TaskStep(t)
      PROVE  SomebodyHolds'
  <2>1. UNCHANGED owner
    BY <1>6 DEF TaskStep, Validate, PublishInitial, TestLoop, Iterate, CheckInterrupted,
       PublishLast, Persist, Throw, OnError, ClearStarted, Return
  <2>2. CASE ClearStarted(t)
    BY <2>2 DEF ClearStarted
  <2>3. CASE Return(t)
    <3>1. ~Active(t) /\ UNCHANGED is_started
      BY <2>3 DEF Return, TaskGoes, Active, controller
    <3>2. \A s \in Task : Active(s) => Active(s)'
      BY <1>1, <2>3, <3>1 DEF Return, TaskGoes, Active
    <3> QED
      BY <2>1, <3>1, <3>2
  <2>4. CASE ~ClearStarted(t) /\ ~Return(t)
    <3>1. \E p \in TaskPc \ {"unborn", "ending", "done"} : task' = [task EXCEPT ![t] = p]
      BY <1>6, <2>4 DEF TaskStep, Validate, PublishInitial, TestLoop, Iterate, CheckInterrupted,
         PublishLast, Publishes, Persist, Throw, OnError, TaskGoes, TaskPc
    <3>2. Active(t)'
      BY <1>1, <3>1 DEF Active
    <3> QED
      BY <3>2
  <2> QED
    BY <2>2, <2>3, <2>4
<1>7. CASE Destroyed \/ UNCHANGED vars
  BY <1>2, <1>7 DEF Destroyed, vars, controller
<1> QED
  BY <1>3, <1>4, <1>5, <1>6, <1>7 DEF Next, OwnerStep

\* control_state is never ahead of the tasks that were started.
FutureOfStarted == control_state <= launches

LEMMA NextFuture == IInv /\ FutureOfStarted /\ [Next]_vars => FutureOfStarted'
<1> SUFFICES ASSUME IInv, FutureOfStarted, [Next]_vars PROVE FutureOfStarted'
  OBVIOUS
<1>1. launches \in Nat /\ control_state \in Nat
  BY DEF IInv, TypeOK
<1>2. CASE Launch
  BY <1>1, <1>2 DEF Launch, controller, FutureOfStarted
<1>3. CASE AssignControlState
  BY <1>1, <1>3 DEF AssignControlState, FutureOfStarted
<1>4. CASE ~Launch /\ ~AssignControlState
  <2>1. UNCHANGED <<control_state, launches>>
    BY <1>4 DEF Next, OwnerStep, Resume, Pause, Destroy, Destroyed, CompareExchange,
       WaitForTaskStop, ClearInterrupt, DestroyAwaitsTask, TaskStep, Validate, PublishInitial,
       TestLoop, Iterate, CheckInterrupted, PublishLast, Persist, Throw, OnError, ClearStarted,
       Return, vars, controller
  <2> QED
    BY <2>1 DEF FutureOfStarted
<1> QED
  BY <1>2, <1>3, <1>4

\* Whoever admitted itself with the compare-exchange is on its way to clear
\* is_started: the owner that will launch a task, or a task that is not over.
THEOREM StartIsGivenBack == Spec => [](SomebodyHolds /\ AwaitedWasStarted)
<1>1. IInv /\ FutureOfStarted => AwaitedWasStarted
  BY MaxLaunchesAssumption
  DEF IInv, TypeOK, TasksNumbered, FutureOfStarted, AwaitedWasStarted, Task
<1>2. Init => FutureOfStarted
  BY DEF Init, FutureOfStarted
<1> QED
  BY <1>1, <1>2, Invariance, InitHolds, NextHolds, NextFuture, PTL DEF Spec

----------------------------------------------------------------------------
\* The steps left at each place of a task, and that they are never negative.
LEMMA StepsCases ==
    ASSUME NEW i
    PROVE  /\ StepsAt("unborn", i) = 3 * Exhausted + 10
           /\ StepsAt("validate", i) = 3 * Exhausted + 9
           /\ StepsAt("initial", i) = 3 * Exhausted + 8
           /\ StepsAt("check", i) = 3 * (Exhausted - i) + 8
           /\ StepsAt("test", i) = 3 * (Exhausted - i) + 7
           /\ StepsAt("iterate", i) = 3 * (Exhausted - i) + 6
           /\ StepsAt("publish", i) = 5
           /\ StepsAt("persist", i) = 4
           /\ StepsAt("error", i) = 3
           /\ StepsAt("stop", i) = 2
           /\ StepsAt("ending", i) = 1
           /\ StepsAt("done", i) = 0
BY DEF StepsAt

LEMMA StepsType ==
    ASSUME NEW p \in TaskPc, NEW i \in 0..Exhausted
    PROVE  StepsAt(p, i) \in Nat
<1>1. Exhausted \in Nat /\ Exhausted - i \in Nat
  BY LastAssumption DEF Exhausted
<1> HIDE DEF Exhausted
<1> QED
  BY <1>1, StepsCases DEF TaskPc

\* A step of a task brings it nearer to its end: its loop counts up to the last
\* iteration, and every way out of it, errors included, leads to its return.
LEMMA TaskShorter ==
    ASSUME IInv, NEW t \in Task, TaskStep(t)
    PROVE  StepsAt(task'[t], at'[t]) < StepsAt(task[t], at[t])
<1>1. /\ task \in [Task -> TaskPc] /\ at \in [Task -> 0..Exhausted] /\ container \in Saved
      /\ task[t] = "iterate" => at[t] \in 0..Last
  BY DEF IInv, TypeOK, IterationExists
<1>2. Exhausted \in Nat /\ at[t] \in 0..Exhausted /\ Exhausted - at[t] \in Nat
  BY <1>1, LastAssumption DEF Exhausted
<1>3. ASSUME NEW p \in TaskPc, NEW q, TaskGoes(t, p, q), UNCHANGED at
      PROVE  task[t] = p /\ task'[t] = q /\ at'[t] = at[t]
  BY <1>1, <1>3 DEF TaskGoes
<1>4. CASE Validate(t)
  <2>1. task[t] = "validate" /\ task'[t] = "initial"
    BY <1>1, <1>4 DEF Validate, TaskGoes
  <2> HIDE DEF Exhausted
  <2> QED
    BY <1>2, <2>1, StepsCases
<1>5. CASE PublishInitial(t)
  <2>1. task[t] = "initial" /\ task'[t] \in {"test", "error"}
    BY <1>1, <1>5 DEF PublishInitial, Publishes, TaskGoes
  <2>2. at'[t] \in 0..Last
    BY <1>1, <1>5, LastAssumption DEF PublishInitial, Saved, NoState
  <2>3. Exhausted - at'[t] \in Int /\ Exhausted - at'[t] <= Exhausted
    BY <1>2, <2>2
  <2> HIDE DEF Exhausted
  <2> QED
    BY <1>2, <2>1, <2>3, StepsCases
<1>6. CASE TestLoop(t)
  <2>1. task[t] = "test" /\ task'[t] \in {"publish", "iterate"} /\ at'[t] = at[t]
    BY <1>1, <1>6 DEF TestLoop, TaskGoes
  <2> HIDE DEF Exhausted
  <2> QED
    BY <1>2, <2>1, StepsCases
<1>7. CASE Iterate(t)
  <2>1. task[t] = "iterate" /\ task'[t] = "check" /\ at'[t] = at[t] + 1
    BY <1>1, <1>7 DEF Iterate, TaskGoes
  <2> HIDE DEF Exhausted
  <2> QED
    BY <1>2, <2>1, StepsCases
<1>8. CASE CheckInterrupted(t)
  <2>1. task[t] = "check" /\ task'[t] = "test" /\ at'[t] = at[t]
    BY <1>1, <1>8 DEF CheckInterrupted, TaskGoes
  <2> HIDE DEF Exhausted
  <2> QED
    BY <1>2, <2>1, StepsCases
<1>9. CASE PublishLast(t)
  <2>1. task[t] = "publish" /\ task'[t] \in {"persist", "error"}
    BY <1>1, <1>9 DEF PublishLast, Publishes, TaskGoes
  <2> QED
    BY <2>1, StepsCases
<1>10. CASE Persist(t)
  <2>1. task[t] = "persist" /\ task'[t] = "stop"
    BY <1>1, <1>10 DEF Persist, TaskGoes
  <2> QED
    BY <2>1, StepsCases
<1>11. CASE Throw(t)
  <2>1. task[t] \in {"initial", "iterate", "persist"} /\ task'[t] = "error"
    BY <1>1, <1>11 DEF Throw, TaskGoes
  <2> HIDE DEF Exhausted
  <2> QED
    BY <1>2, <2>1, StepsCases
<1>12. CASE OnError(t)
  <2>1. task[t] = "error" /\ task'[t] = "stop"
    BY <1>1, <1>12 DEF OnError, TaskGoes
  <2> QED
    BY <2>1, StepsCases
<1>13. CASE ClearStarted(t)
  <2>1. task[t] = "stop" /\ task'[t] = "ending"
    BY <1>1, <1>13 DEF ClearStarted, TaskGoes
  <2> QED
    BY <2>1, StepsCases
<1>14. CASE Return(t)
  <2>1. task[t] = "ending" /\ task'[t] = "done"
    BY <1>1, <1>14 DEF Return, TaskGoes
  <2> QED
    BY <2>1, StepsCases
<1> QED
  BY <1>4, <1>5, <1>6, <1>7, <1>8, <1>9, <1>10, <1>11, <1>12, <1>13, <1>14 DEF TaskStep

LEMMA StepGetsOn ==
    ASSUME IInv, Next
    PROVE  /\ \A t \in Task :
                \/ task'[t] = task[t] /\ at'[t] = at[t]
                \/ TaskLeft'[t] < TaskLeft[t]
           /\ owner' = owner \/ owner = "idle" \/ CallAt(owner') < CallAt(owner)
<1>1. task \in [Task -> TaskPc] /\ at \in [Task -> 0..Exhausted] /\ launches \in 0..MaxLaunches
  BY DEF IInv, TypeOK
<1>2. \A t \in Task : TaskLeft[t] = StepsAt(task[t], at[t])
                      /\ TaskLeft'[t] = StepsAt(task'[t], at'[t])
  BY DEF TaskLeft
<1>3. CASE Resume \/ Pause \/ Destroy \/ Destroyed \/ CompareExchange \/ WaitForTaskStop
           \/ ClearInterrupt \/ AssignControlState \/ DestroyAwaitsTask
  <2>1. UNCHANGED <<task, at>>
    BY <1>3 DEF Resume, Pause, Destroy, Destroyed, CompareExchange, WaitForTaskStop,
       ClearInterrupt, AssignControlState, DestroyAwaitsTask, vars
  <2>2. owner' = owner \/ owner = "idle" \/ CallAt(owner') < CallAt(owner)
    BY <1>3 DEF Resume, Pause, Destroy, Destroyed, CompareExchange, WaitForTaskStop,
       ClearInterrupt, AssignControlState, DestroyAwaitsTask, OwnerGoes, vars, CallAt
  <2> QED
    BY <2>1, <2>2
<1>4. CASE Launch
  <2>1. /\ owner = "launch" /\ owner' = "assign" /\ UNCHANGED at
        /\ task' = [task EXCEPT ![launches + 1] = "validate"]
    BY <1>4 DEF Launch, OwnerGoes
  <2>2. launches + 1 \in Task /\ task[launches + 1] = "unborn"
    BY <1>1, <2>1, MaxLaunchesAssumption DEF IInv, TasksNumbered, FutureIsCurrent, Task
  <2>3. StepsAt("validate", at'[launches + 1]) < StepsAt("unborn", at[launches + 1])
    BY StepsCases, LastAssumption DEF Exhausted
  <2>4. TaskLeft'[launches + 1] < TaskLeft[launches + 1]
    BY <1>1, <1>2, <2>1, <2>2, <2>3
  <2>5. \A t \in Task : t # launches + 1 => task'[t] = task[t] /\ at'[t] = at[t]
    BY <1>1, <2>1
  <2>6. CallAt(owner') < CallAt(owner)
    BY <2>1 DEF CallAt
  <2> QED
    BY <2>4, <2>5, <2>6
<1>5. ASSUME NEW t \in Task, TaskStep(t)
      PROVE  /\ \A s \in Task :
                  \/ task'[s] = task[s] /\ at'[s] = at[s]
                  \/ TaskLeft'[s] < TaskLeft[s]
             /\ owner' = owner
  <2>1. UNCHANGED owner
    BY <1>5 DEF TaskStep, Validate, PublishInitial, TestLoop, Iterate, CheckInterrupted,
       PublishLast, Persist, Throw, OnError, ClearStarted, Return
  <2>2. \A s \in Task : s # t => task'[s] = task[s] /\ at'[s] = at[s]
    <3>1. \E p \in TaskPc : task' = [task EXCEPT ![t] = p]
      BY <1>5 DEF TaskStep, Validate, PublishInitial, TestLoop, Iterate, CheckInterrupted,
         PublishLast, Publishes, Persist, Throw, OnError, ClearStarted, Return, TaskGoes, TaskPc
    <3>2. at' = at \/ \E i : at' = [at EXCEPT ![t] = i]
      BY <1>5 DEF TaskStep, Validate, PublishInitial, TestLoop, Iterate, CheckInterrupted,
         PublishLast, Persist, Throw, OnError, ClearStarted, Return
    <3> QED
      BY <1>1, <3>1, <3>2
  <2>3. TaskLeft'[t] < TaskLeft[t]
    BY <1>2, <1>5, TaskShorter
  <2> QED
    BY <2>1, <2>2, <2>3
<1> QED
  BY <1>3, <1>4, <1>5 DEF Next, OwnerStep

\* No task runs for ever and no call of the owner does anything but wait: every
\* step of either uses up one of the steps that are left to it, for any number of
\* iterations and launches.  With StartIsGivenBack this is what TaskEnds and
\* CallsReturn rest on, beside the threads being scheduled.
THEOREM SessionGetsOn == Spec => [](\A t \in Task : TaskLeft[t] \in Nat) /\ GetsOn
<1>1. IInv => \A t \in Task : TaskLeft[t] \in Nat
  BY StepsType DEF IInv, TypeOK, TaskLeft
<1>2. IInv /\ [Next]_vars =>
        [/\ \A t \in Task :
              \/ task'[t] = task[t] /\ at'[t] = at[t]
              \/ TaskLeft'[t] < TaskLeft[t]
         /\ owner' = owner \/ owner = "idle" \/ CallAt(owner') < CallAt(owner)]_vars
  BY StepGetsOn
<1> QED
  BY <1>1, <1>2, Invariance, PTL DEF Spec, GetsOn

=============================================================================
