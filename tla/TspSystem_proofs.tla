------------------------- MODULE TspSystem_proofs --------------------------
(***************************************************************************)
(* Safety of the TSP service, for every number of tasks, workers, calls,   *)
(* iterations, failures and crashes: its types, the exclusion of workers,  *)
(* that a finished task has its final solution, that a task advances as a  *)
(* resumable run does, that saved progress is not lost, and that a lock    *)
(* has a holder that goes on.                                              *)
(*                                                                         *)
(* The invariant has layers, each of which uses those before it.  TInv is  *)
(* the type invariant with what it needs to be inductive.  XInv says who   *)
(* may work on a task: whoever holds its lock, and no session outlives     *)
(* that.  FInv relates the status of a task to the solution on offer.      *)
(* PInv says what was executed when a session goes on from an iteration:   *)
(* everything before it.  KInv says that what a session began with is      *)
(* still what Redis holds, until the session stores something newer.       *)
(* WInv says that whoever is waited for is on its way.                     *)
(***************************************************************************)
EXTENDS TspSystem, SequenceTheorems, TLAPS

----------------------------------------------------------------------------
(* Types.                                                                  *)

\* A worker that is not idle has a task.
JobKnown == \A w \in Workers : worker[w] # "idle" => job[w] \in Tasks

\* An iteration that was executed exists, until the algorithm is past it.
Advancing(w) ==
    \/ engine[w] = "advance"
    \/ engine[w] \in {"solution", "announce"} /\ back[w] = "advance"
AdvanceBounded == \A w \in Workers : Advancing(w) => at[w] \in 0..Last

\* A worker has a session, and an engine thread, only between solveTsp and the
\* destructor of the session.
InSession(w) == worker[w] \in {"subscribe", "wait", "sendInProgress", "close",
                               "join", "closeOnError", "joinOnError"}
EngineInSession == \A w \in Workers : engine[w] # "none" => InSession(w)

LoopInv == LoopTypeOK /\ JobKnown
SessionInv == SessionTypeOK /\ AdvanceBounded
TInv ==
    /\ RedisTypeOK /\ AmqpTypeOK /\ ServerTypeOK
    /\ LoopInv /\ SessionInv /\ ListenerTypeOK
    /\ FailuresTypeOK /\ HistoryTypeOK

USE DEF NewQueue, vars, redis, amqp, flags, loop, session, listener, failures, history,
        workerVars, serverVars, MainOnly, EngineOnly

\* Each part of TInv is about the variables of one group.
LEMMA Stable ==
    /\ RedisTypeOK /\ UNCHANGED redis => RedisTypeOK'
    /\ AmqpTypeOK /\ UNCHANGED amqp => AmqpTypeOK'
    /\ ServerTypeOK /\ UNCHANGED serverVars => ServerTypeOK'
    /\ LoopInv /\ UNCHANGED loop => LoopInv'
    /\ SessionInv /\ UNCHANGED session => SessionInv'
    /\ ListenerTypeOK /\ UNCHANGED listener => ListenerTypeOK'
    /\ FailuresTypeOK /\ UNCHANGED failures => FailuresTypeOK'
    /\ HistoryTypeOK /\ UNCHANGED history => HistoryTypeOK'
BY DEF RedisTypeOK, AmqpTypeOK, ServerTypeOK, LoopInv, LoopTypeOK, JobKnown,
       SessionInv, SessionTypeOK, AdvanceBounded, Advancing, ListenerTypeOK,
       FailuresTypeOK, HistoryTypeOK

----------------------------------------------------------------------------
\* The main thread of a worker, Worker::start, keeps to the types.
LEMMA MainTyped ==
  ASSUME TInv, NEW w \in Workers, MainStep(w), UNCHANGED serverVars
  PROVE  TInv'
<1> USE LastAssumption, RejectedAssumption DEF TInv
<1>1. CASE NextTask(w)
  <2>1. AmqpTypeOK'
    BY <1>1, HeadTailProperties DEF NextTask, WorkerGoes, AmqpTypeOK
  <2>2. LoopInv'
    BY <1>1, HeadTailProperties DEF NextTask, WorkerGoes, LoopInv, LoopTypeOK,
       JobKnown, WorkerPc, AmqpTypeOK
  <2> QED
    BY <1>1, <2>1, <2>2, Stable DEF NextTask
<1>2. CASE TryLock(w)
  <2>1. RedisTypeOK'
    BY <1>2 DEF TryLock, SetLock, LoopAgain, WorkerGoes, RedisTypeOK, Status,
       Solution, Saved
  <2>2. LoopInv'
    BY <1>2 DEF TryLock, SetLock, LoopAgain, WorkerGoes, LoopInv, LoopTypeOK,
       JobKnown, WorkerPc
  <2> QED
    BY <1>2, <2>1, <2>2, Stable DEF TryLock, SetLock, LoopAgain
<1>3. CASE IsFinished(w)
  <2>1. LoopInv'
    BY <1>3 DEF IsFinished, WorkerGoes, LoopInv, LoopTypeOK, JobKnown, WorkerPc
  <2> QED
    BY <1>3, <2>1, Stable DEF IsFinished
<1>4. CASE IsPaused(w)
  <2>1. LoopInv'
    BY <1>4 DEF IsPaused, WorkerGoes, LoopInv, LoopTypeOK, JobKnown, WorkerPc
  <2> QED
    BY <1>4, <2>1, Stable DEF IsPaused
<1>5. CASE IncAttempts(w)
  <2>1. RedisTypeOK'
    <3>1. attempts[job[w]] + 1 \in Nat
      BY <1>5 DEF IncAttempts, WorkerGoes, RedisTypeOK, LoopInv, JobKnown
    <3> QED
      BY <1>5, <3>1 DEF IncAttempts, RedisTypeOK
  <2>2. LoopInv'
    BY <1>5 DEF IncAttempts, WorkerGoes, LoopInv, LoopTypeOK, JobKnown, WorkerPc
  <2> QED
    BY <1>5, <2>1, <2>2, Stable DEF IncAttempts
<1>6. CASE RetrieveTask(w)
  <2>1. LoopInv'
    BY <1>6 DEF RetrieveTask, WorkerGoes, LoopInv, LoopTypeOK, JobKnown,
       WorkerPc
  <2> QED
    BY <1>6, <2>1, Stable DEF RetrieveTask
<1>7. CASE LoadState(w)
  <2>1. LoopInv'
    BY <1>7 DEF LoadState, Fault, WorkerGoes, LoopInv, LoopTypeOK, JobKnown,
       WorkerPc
  <2>2. SessionInv'
    BY <1>7 DEF LoadState, Fault, WorkerGoes, SessionInv, SessionTypeOK,
       AdvanceBounded, Advancing, EnginePc, Saved, LoopInv, LoopTypeOK,
       JobKnown, RedisTypeOK
  <2>3. FailuresTypeOK'
    BY <1>7 DEF LoadState, Fault, WorkerGoes, FailuresTypeOK
  <2> QED
    BY <1>7, <2>1, <2>2, <2>3, Stable DEF LoadState, Fault
<1>8. CASE PublishStarted(w)
  <2>1. LoopInv'
    BY <1>8 DEF PublishStarted, WorkerGoes, LoopInv, LoopTypeOK, JobKnown,
       WorkerPc
  <2> QED
    BY <1>8, <2>1, Stable DEF PublishStarted
<1>9. CASE SendStarted(w)
  <2>1. RedisTypeOK'
    BY <1>9 DEF SendStarted, SetStatus, WorkerGoes, RedisTypeOK, Status,
       Solution, Saved
  <2>2. LoopInv'
    BY <1>9 DEF SendStarted, SetStatus, WorkerGoes, LoopInv, LoopTypeOK,
       JobKnown, WorkerPc
  <2> QED
    BY <1>9, <2>1, <2>2, Stable DEF SendStarted, SetStatus
<1>10. CASE SolveTsp(w)
  <2>1. LoopInv'
    BY <1>10 DEF SolveTsp, WorkerGoes, LoopInv, LoopTypeOK, JobKnown, WorkerPc
  <2>2. SessionInv'
    BY <1>10 DEF SolveTsp, WorkerGoes, SessionInv, SessionTypeOK,
       AdvanceBounded, Advancing, EnginePc, Saved
  <2> QED
    BY <1>10, <2>1, <2>2, Stable DEF SolveTsp
<1>11. CASE Subscribe(w)
  <2>1. LoopInv'
    BY <1>11 DEF Subscribe, WorkerGoes, LoopInv, LoopTypeOK, JobKnown, WorkerPc
  <2>2. ListenerTypeOK'
    BY <1>11 DEF Subscribe, WorkerGoes, ListenerTypeOK, HandlerPc, Signal,
       LoopInv, JobKnown
  <2> QED
    BY <1>11, <2>1, <2>2, Stable DEF Subscribe
<1>12. CASE WaitUntil(w)
  <2>1. LoopInv'
    BY <1>12 DEF WaitUntil, WorkerGoes, LoopInv, LoopTypeOK, JobKnown, WorkerPc
  <2> QED
    BY <1>12, <2>1, Stable DEF WaitUntil
<1>13. CASE SendInProgress(w)
  <2>1. RedisTypeOK'
    BY <1>13 DEF SendInProgress, SetStatus, WorkerGoes, RedisTypeOK, Status,
       Solution, Saved
  <2>2. LoopInv'
    BY <1>13 DEF SendInProgress, SetStatus, WorkerGoes, LoopInv, LoopTypeOK,
       JobKnown, WorkerPc
  <2> QED
    BY <1>13, <2>1, <2>2, Stable DEF SendInProgress, SetStatus
<1>14. CASE Close(w)
  <2>1. LoopInv'
    BY <1>14 DEF Close, WorkerGoes, LoopInv, LoopTypeOK, JobKnown, WorkerPc
  <2>2. SessionInv'
    BY <1>14 DEF Close, WorkerGoes, SessionInv, SessionTypeOK, AdvanceBounded,
       Advancing, EnginePc, Saved
  <2> QED
    BY <1>14, <2>1, <2>2, Stable DEF Close
<1>15. CASE Join(w)
  <2>1. LoopInv'
    BY <1>15 DEF Join, NoSession, WorkerGoes, LoopInv, LoopTypeOK, JobKnown,
       WorkerPc
  <2>2. SessionInv'
    BY <1>15 DEF Join, NoSession, WorkerGoes, SessionInv, SessionTypeOK,
       AdvanceBounded, Advancing, EnginePc, Saved, Exhausted
  <2> QED
    BY <1>15, <2>1, <2>2, Stable DEF Join, NoSession
<1>16. CASE PublishError(w)
  <2>1. LoopInv'
    BY <1>16 DEF PublishError, WorkerGoes, LoopInv, LoopTypeOK, JobKnown,
       WorkerPc
  <2> QED
    BY <1>16, <2>1, Stable DEF PublishError
<1>17. CASE SendError(w)
  <2>1. RedisTypeOK'
    BY <1>17 DEF SendError, SetStatus, WorkerGoes, RedisTypeOK, Status,
       Solution, Saved
  <2>2. LoopInv'
    BY <1>17 DEF SendError, SetStatus, WorkerGoes, LoopInv, LoopTypeOK,
       JobKnown, WorkerPc
  <2> QED
    BY <1>17, <2>1, <2>2, Stable DEF SendError, SetStatus
<1>18. CASE Unsubscribe(w)
  <2>1. LoopInv'
    BY <1>18 DEF Unsubscribe, WorkerGoes, LoopInv, LoopTypeOK, JobKnown,
       WorkerPc
  <2>2. ListenerTypeOK'
    BY <1>18 DEF Unsubscribe, WorkerGoes, ListenerTypeOK, HandlerPc, Signal
  <2> QED
    BY <1>18, <2>1, <2>2, Stable DEF Unsubscribe
<1>19. CASE Unlock(w)
  <2>1. RedisTypeOK'
    BY <1>19 DEF Unlock, SetLock, LoopAgain, WorkerGoes, RedisTypeOK, Status,
       Solution, Saved
  <2>2. LoopInv'
    BY <1>19 DEF Unlock, SetLock, LoopAgain, WorkerGoes, LoopInv, LoopTypeOK,
       JobKnown, WorkerPc
  <2> QED
    BY <1>19, <2>1, <2>2, Stable DEF Unlock, SetLock, LoopAgain
<1> QED
  BY <1>1, <1>2, <1>3, <1>4, <1>5, <1>6, <1>7, <1>8, <1>9, <1>10, <1>11, <1>12,
     <1>13, <1>14, <1>15, <1>16, <1>17, <1>18, <1>19 DEF MainStep

\* So does the engine thread with its callbacks,
LEMMA EngineTyped ==
  ASSUME TInv, EngineInSession, NEW w \in Workers, EngineStep(w), UNCHANGED serverVars
  PROVE  TInv'
<1> USE LastAssumption, RejectedAssumption DEF TInv
<1>1. CASE Validate(w)
  <2>1. SessionInv'
    BY <1>1 DEF Validate, EngineGoes, SessionInv, SessionTypeOK, AdvanceBounded,
       Advancing, EnginePc, Saved, Exhausted, NoState
  <2> QED
    BY <1>1, <2>1, Stable DEF Validate
<1>2. CASE PublishSolution(w)
  <2>1. RedisTypeOK'
    BY <1>2 DEF PublishSolution, SetSolution, Fault, EngineGoes, RedisTypeOK,
       Status, Solution, Saved
  <2>2. SessionInv'
    BY <1>2 DEF PublishSolution, SetSolution, Fault, EngineGoes, SessionInv,
       SessionTypeOK, AdvanceBounded, Advancing, EnginePc, Saved, Announced
  <2>3. FailuresTypeOK'
    BY <1>2 DEF PublishSolution, SetSolution, Fault, EngineGoes, FailuresTypeOK
  <2>4. HistoryTypeOK'
    <3>1. job[w] \in Tasks
      BY <1>2 DEF PublishSolution, EngineGoes, LoopInv, JobKnown, EngineInSession,
         InSession
    <3> QED
      BY <1>2, <3>1 DEF PublishSolution, HistoryTypeOK
  <2> QED
    BY <1>2, <2>1, <2>2, <2>3, <2>4, Stable DEF PublishSolution, SetSolution,
       Fault
<1>3. CASE PublishNewSolution(w)
  <2>1. SessionInv'
    BY <1>3 DEF PublishNewSolution, EngineGoes, SessionInv, SessionTypeOK,
       AdvanceBounded, Advancing, EnginePc, Saved, Announced
  <2> QED
    BY <1>3, <2>1, Stable DEF PublishNewSolution
<1>4. CASE LeaveLoop(w)
  <2>1. SessionInv'
    BY <1>4 DEF LeaveLoop, EngineGoes, SessionInv, SessionTypeOK,
       AdvanceBounded, Advancing, EnginePc, Saved
  <2> QED
    BY <1>4, <2>1, Stable DEF LeaveLoop
<1>5. CASE Iterate(w)
  <2>1. SessionInv'
    BY <1>5 DEF Iterate, EngineGoes, SessionInv, SessionTypeOK, AdvanceBounded,
       Advancing, EnginePc, Saved, Exhausted
  <2>2. HistoryTypeOK'
    <3>1. at[w] \in 0..Last
      BY <1>5 DEF Iterate, Exhausted, SessionInv, SessionTypeOK
    <3> QED
      BY <1>5, <3>1 DEF Iterate, HistoryTypeOK
  <2> QED
    BY <1>5, <2>1, <2>2, Stable DEF Iterate
<1>6. CASE Advance(w)
  <2>1. SessionInv'
    BY <1>6 DEF Advance, EngineGoes, SessionInv, SessionTypeOK, AdvanceBounded,
       Advancing, EnginePc, Saved, Exhausted
  <2> QED
    BY <1>6, <2>1, Stable DEF Advance
<1>7. CASE Persist(w)
  <2>1. RedisTypeOK'
    BY <1>7 DEF Persist, SetState, Fault, EngineGoes, RedisTypeOK, Status,
       Solution, Saved, SessionInv, SessionTypeOK
  <2>2. SessionInv'
    BY <1>7 DEF Persist, SetState, Fault, EngineGoes, SessionInv, SessionTypeOK,
       AdvanceBounded, Advancing, EnginePc, Saved
  <2>3. FailuresTypeOK'
    BY <1>7 DEF Persist, SetState, Fault, EngineGoes, FailuresTypeOK
  <2> QED
    BY <1>7, <2>1, <2>2, <2>3, Stable DEF Persist, SetState, Fault
<1>8. CASE PublishFinished(w)
  <2>1. SessionInv'
    BY <1>8 DEF PublishFinished, EngineGoes, SessionInv, SessionTypeOK,
       AdvanceBounded, Advancing, EnginePc, Saved
  <2> QED
    BY <1>8, <2>1, Stable DEF PublishFinished
<1>9. CASE SendFinished(w)
  <2>1. RedisTypeOK'
    BY <1>9 DEF SendFinished, SetStatus, EngineGoes, RedisTypeOK, Status,
       Solution, Saved
  <2>2. SessionInv'
    BY <1>9 DEF SendFinished, SetStatus, EngineGoes, SessionInv, SessionTypeOK,
       AdvanceBounded, Advancing, EnginePc, Saved
  <2> QED
    BY <1>9, <2>1, <2>2, Stable DEF SendFinished, SetStatus
<1>10. CASE EnginePublishError(w)
  <2>1. SessionInv'
    BY <1>10 DEF EnginePublishError, EngineGoes, SessionInv, SessionTypeOK,
       AdvanceBounded, Advancing, EnginePc, Saved
  <2> QED
    BY <1>10, <2>1, Stable DEF EnginePublishError
<1>11. CASE EngineSendError(w)
  <2>1. RedisTypeOK'
    BY <1>11 DEF EngineSendError, SetStatus, EngineGoes, RedisTypeOK, Status,
       Solution, Saved
  <2>2. SessionInv'
    BY <1>11 DEF EngineSendError, SetStatus, EngineGoes, SessionInv,
       SessionTypeOK, AdvanceBounded, Advancing, EnginePc, Saved
  <2> QED
    BY <1>11, <2>1, <2>2, Stable DEF EngineSendError, SetStatus
<1>12. CASE EngineNotify(w)
  <2>1. LoopInv'
    BY <1>12 DEF EngineNotify, EngineGoes, LoopInv, LoopTypeOK, JobKnown,
       WorkerPc
  <2>2. SessionInv'
    BY <1>12 DEF EngineNotify, EngineGoes, SessionInv, SessionTypeOK,
       AdvanceBounded, Advancing, EnginePc, Saved
  <2> QED
    BY <1>12, <2>1, <2>2, Stable DEF EngineNotify
<1> QED
  BY <1>1, <1>2, <1>3, <1>4, <1>5, <1>6, <1>7, <1>8, <1>9, <1>10, <1>11, <1>12 DEF
     EngineStep

\* the thread of the interrupt listener,
LEMMA HandlerTyped ==
  ASSUME TInv, NEW w \in Workers, HandlerStep(w), UNCHANGED serverVars
  PROVE  TInv'
<1> USE LastAssumption, RejectedAssumption DEF TInv
<1>1. CASE Receive(w)
  <2>1. AmqpTypeOK'
    <3>1. Tail(signals[w]) \in Seq(ControlSignal)
      BY <1>1, HeadTailProperties DEF Receive, AmqpTypeOK
    <3> QED
      BY <1>1, <3>1 DEF Receive, AmqpTypeOK
  <2>2. ListenerTypeOK'
    <3>1. Head(signals[w]) \in ControlSignal
      BY <1>1, HeadTailProperties DEF Receive, AmqpTypeOK
    <3>2. Head(signals[w]).signal \in Signal
      BY <3>1 DEF ControlSignal
    <3> QED
      BY <1>1, <3>2 DEF Receive, HandlerGoes, ListenerTypeOK, HandlerPc
  <2> QED
    BY <1>1, <2>1, <2>2, Stable DEF Receive
<1>2. CASE RaiseInterrupted(w)
  <2>1. LoopInv'
    BY <1>2 DEF RaiseInterrupted, HandlerGoes, LoopInv, LoopTypeOK, JobKnown,
       WorkerPc
  <2>2. ListenerTypeOK'
    BY <1>2 DEF RaiseInterrupted, HandlerGoes, ListenerTypeOK, HandlerPc, Signal
  <2> QED
    BY <1>2, <2>1, <2>2, Stable DEF RaiseInterrupted
<1>3. CASE PauseSession(w)
  <2>1. SessionInv'
    BY <1>3 DEF PauseSession, HandlerGoes, SessionInv, SessionTypeOK,
       AdvanceBounded, Advancing, EnginePc, Saved
  <2>2. ListenerTypeOK'
    BY <1>3 DEF PauseSession, HandlerGoes, ListenerTypeOK, HandlerPc, Signal
  <2> QED
    BY <1>3, <2>1, <2>2, Stable DEF PauseSession
<1>4. CASE PublishPaused(w)
  <2>1. ListenerTypeOK'
    BY <1>4 DEF PublishPaused, HandlerGoes, ListenerTypeOK, HandlerPc, Signal
  <2> QED
    BY <1>4, <2>1, Stable DEF PublishPaused
<1>5. CASE SendPaused(w)
  <2>1. RedisTypeOK'
    BY <1>5 DEF SendPaused, SetStatus, HandlerGoes, RedisTypeOK, Status,
       Solution, Saved
  <2>2. ListenerTypeOK'
    BY <1>5 DEF SendPaused, SetStatus, HandlerGoes, ListenerTypeOK, HandlerPc,
       Signal
  <2> QED
    BY <1>5, <2>1, <2>2, Stable DEF SendPaused, SetStatus
<1>6. CASE ClearState(w)
  <2>1. RedisTypeOK'
    BY <1>6 DEF ClearState, SetState, Fault, HandlerGoes, RedisTypeOK, Status,
       Solution, Saved
  <2>2. ListenerTypeOK'
    BY <1>6 DEF ClearState, SetState, Fault, HandlerGoes, ListenerTypeOK,
       HandlerPc, Signal
  <2>3. FailuresTypeOK'
    BY <1>6 DEF ClearState, SetState, Fault, HandlerGoes, FailuresTypeOK
  <2> QED
    BY <1>6, <2>1, <2>2, <2>3, Stable DEF ClearState, SetState, Fault
<1>7. CASE HandlerNotify(w)
  <2>1. LoopInv'
    BY <1>7 DEF HandlerNotify, HandlerGoes, LoopInv, LoopTypeOK, JobKnown,
       WorkerPc
  <2>2. ListenerTypeOK'
    BY <1>7 DEF HandlerNotify, HandlerGoes, ListenerTypeOK, HandlerPc, Signal
  <2> QED
    BY <1>7, <2>1, <2>2, Stable DEF HandlerNotify
<1> QED
  BY <1>1, <1>2, <1>3, <1>4, <1>5, <1>6, <1>7 DEF HandlerStep

\* a call that fails, and a crash.
LEMMA FailureTyped ==
  ASSUME TInv, NEW w \in Workers, Failure(w), UNCHANGED serverVars
  PROVE  TInv'
<1> USE LastAssumption, RejectedAssumption DEF TInv
<1>1. CASE ReplyIsError(w)
  <2>1. LoopInv'
    BY <1>1 DEF ReplyIsError, Fault, LoopAgain, WorkerGoes, LoopInv, LoopTypeOK,
       JobKnown, WorkerPc
  <2>2. FailuresTypeOK'
    BY <1>1 DEF ReplyIsError, Fault, FailuresTypeOK
  <2> QED
    BY <1>1, <2>1, <2>2, Stable DEF ReplyIsError, Fault, LoopAgain
<1>2. CASE WorkerThrows(w)
  <2>1. LoopInv'
    BY <1>2 DEF WorkerThrows, Fault, WorkerGoes, LoopInv, LoopTypeOK, JobKnown,
       WorkerPc
  <2>2. FailuresTypeOK'
    BY <1>2 DEF WorkerThrows, Fault, FailuresTypeOK
  <2> QED
    BY <1>2, <2>1, <2>2, Stable DEF WorkerThrows, Fault
<1>3. CASE CatchThrows(w)
  <2>1. LoopInv'
    BY <1>3 DEF CatchThrows, Fault, WorkerGoes, LoopInv, LoopTypeOK, JobKnown,
       WorkerPc
  <2>2. FailuresTypeOK'
    BY <1>3 DEF CatchThrows, Fault, FailuresTypeOK
  <2> QED
    BY <1>3, <2>1, <2>2, Stable DEF CatchThrows, Fault
<1>4. CASE EngineThrows(w)
  <2>1. SessionInv'
    BY <1>4 DEF EngineThrows, Fault, EngineGoes, SessionInv, SessionTypeOK,
       AdvanceBounded, Advancing, EnginePc, Saved
  <2>2. FailuresTypeOK'
    BY <1>4 DEF EngineThrows, Fault, FailuresTypeOK
  <2> QED
    BY <1>4, <2>1, <2>2, Stable DEF EngineThrows, Fault
<1>5. CASE ErrorCallbackThrows(w)
  <2>1. SessionInv'
    BY <1>5 DEF ErrorCallbackThrows, Fault, EngineGoes, SessionInv,
       SessionTypeOK, AdvanceBounded, Advancing, EnginePc, Saved
  <2>2. FailuresTypeOK'
    BY <1>5 DEF ErrorCallbackThrows, Fault, FailuresTypeOK
  <2> QED
    BY <1>5, <2>1, <2>2, Stable DEF ErrorCallbackThrows, Fault
<1>6. CASE HandlerThrows(w)
  <2>1. ListenerTypeOK'
    BY <1>6 DEF HandlerThrows, Fault, HandlerGoes, ListenerTypeOK, HandlerPc,
       Signal
  <2>2. FailuresTypeOK'
    BY <1>6 DEF HandlerThrows, Fault, FailuresTypeOK
  <2> QED
    BY <1>6, <2>1, <2>2, Stable DEF HandlerThrows, Fault
<1>7. CASE Crash(w)
  <2>1. AmqpTypeOK'
    <3>1. << >> \in Seq(ControlSignal)
      BY EmptySeq
    <3> QED
      BY <1>7, <3>1 DEF Crash, AmqpTypeOK
  <2>2. LoopInv'
    BY <1>7 DEF Crash, LoopAgain, LoopInv, LoopTypeOK, JobKnown, WorkerPc
  <2>3. SessionInv'
    BY <1>7 DEF Crash, NoSession, SessionInv, SessionTypeOK, AdvanceBounded,
       Advancing, EnginePc, Saved, Exhausted
  <2>4. ListenerTypeOK'
    BY <1>7 DEF Crash, ListenerTypeOK, HandlerPc, Signal
  <2>5. FailuresTypeOK'
    BY <1>7 DEF Crash, FailuresTypeOK
  <2> QED
    BY <1>7, <2>1, <2>2, <2>3, <2>4, <2>5, Stable DEF Crash, LoopAgain,
       NoSession
<1> QED
  BY <1>1, <1>2, <1>3, <1>4, <1>5, <1>6, <1>7 DEF Failure

\* So does every request a call of the server makes,
LEMMA ServerTyped ==
  ASSUME TInv, ServerNext, UNCHANGED workerVars
  PROVE  TInv'
<1> USE DEF TInv
<1> PICK t \in Tasks :
      \/ StartTsp(t) \/ PauseTsp(t) \/ ResumeTsp(t) \/ StopTsp(t)
      \/ SendStartSignal(t) \/ SendPauseSignal(t) \/ IsResumeable(t)
      \/ GetTaskStatus(t) \/ ForceInterrupted(t) \/ SendInterruptSignal(t)
      \/ LoadSolution(t) \/ RemoveTask(t) \/ CallFails(t)
  BY DEF ServerNext
<1>1. ASSUME NEW first \in Step \union {Returned}, CallArrives(t, first)
      PROVE  /\ in_flight' \in [Tasks -> [Step -> Nat]]
             /\ made' \in 0..MaxCalls
  BY <1>1, MaxCallsAssumption DEF CallArrives, ServerTypeOK
<1>2. ASSUME NEW from \in Step, NEW to \in Step \union {Returned},
             CallGoes(t, from, to)
      PROVE  ServerTypeOK'
  BY <1>2 DEF CallGoes, ServerTypeOK
<1>3. ServerTypeOK'
  <2>1. CASE StartTsp(t)
    BY <1>1, <2>1 DEF StartTsp, ServerTypeOK, Step
  <2>2. CASE PauseTsp(t) \/ ResumeTsp(t) \/ StopTsp(t)
    BY <1>1, <2>2 DEF PauseTsp, ResumeTsp, StopTsp, CallAbout, ServerTypeOK, Step
  <2>3. CASE \/ SendStartSignal(t) \/ SendPauseSignal(t) \/ IsResumeable(t)
             \/ GetTaskStatus(t) \/ ForceInterrupted(t)
    BY <1>2, <2>3 DEF SendStartSignal, SendPauseSignal, IsResumeable,
       GetTaskStatus, ForceInterrupted, Step
  <2>4. CASE \/ SendInterruptSignal(t) \/ LoadSolution(t) \/ RemoveTask(t)
             \/ CallFails(t)
    BY <1>2, <2>4 DEF SendInterruptSignal, LoadSolution, RemoveTask, CallFails,
       Step
  <2> QED
    BY <2>1, <2>2, <2>3, <2>4
<1>4. RedisTypeOK'
  <2>1. CASE StartTsp(t) \/ RemoveTask(t) \/ ForceInterrupted(t)
    BY <2>1 DEF StartTsp, RemoveTask, ForceInterrupted, SetTask, SetStatus,
       RedisTypeOK, Status
  <2> QED
    BY <2>1, Stable DEF PauseTsp, ResumeTsp, StopTsp, CallAbout,
       SendStartSignal, SendPauseSignal, IsResumeable, GetTaskStatus,
       SendInterruptSignal, LoadSolution, CallFails
<1>5. AmqpTypeOK'
  <2>1. Append(task_queue, t) \in Seq(Tasks)
    BY AppendProperties DEF AmqpTypeOK
  <2>2. ASSUME NEW s \in Signal, SendSignal(t, s)
        PROVE  signals' \in [Workers -> Seq(ControlSignal)]
    <3>1. ASSUME NEW w \in Workers
          PROVE  Append(signals[w], [task |-> t, signal |-> s])
                    \in Seq(ControlSignal)
      BY AppendProperties DEF AmqpTypeOK, ControlSignal
    <3> QED
      BY <2>2, <3>1 DEF SendSignal
  <2>3. CASE SendStartSignal(t)
    BY <2>1, <2>3 DEF SendStartSignal, SendStart, AmqpTypeOK
  <2>4. CASE SendPauseSignal(t) \/ SendInterruptSignal(t)
    BY <2>2, <2>4 DEF SendPauseSignal, SendInterruptSignal, AmqpTypeOK, Signal
  <2> QED
    BY <2>3, <2>4, Stable DEF StartTsp, PauseTsp, ResumeTsp, StopTsp, CallAbout,
       IsResumeable, GetTaskStatus, ForceInterrupted, LoadSolution, RemoveTask,
       CallFails
<1> QED
  BY <1>3, <1>4, <1>5, Stable

\* and a solution that expires.
LEMMA ExpireTyped ==
  ASSUME TInv, NEW t \in Tasks, Expire(t), UNCHANGED <<serverVars, workerVars>>
  PROVE  TInv'
<1>1. RedisTypeOK'
  BY DEF TInv, Expire, SetSolution, RedisTypeOK, Solution
<1> QED
  BY <1>1, Stable DEF TInv, Expire

\* All keys unset, all queues empty and all threads idle: the types hold at first.
LEMMA InitTyped == Init => TInv
<1> SUFFICES ASSUME Init PROVE TInv
  OBVIOUS
<1> USE LastAssumption, MaxCallsAssumption DEF Init, StoreInit, ServerInit, WorkerInit
<1>1. RedisTypeOK
  BY DEF RedisTypeOK, Status, Saved, NoState, Solution
<1>2. AmqpTypeOK
  BY EmptySeq DEF AmqpTypeOK
<1>3. ServerTypeOK
  BY DEF ServerTypeOK
<1>4. LoopInv /\ FailuresTypeOK /\ HistoryTypeOK
  BY DEF LoopInv, LoopTypeOK, JobKnown, WorkerPc, FailuresTypeOK, HistoryTypeOK
<1>5. SessionInv
  BY DEF SessionInv, SessionTypeOK, EnginePc, Saved, NoState, Exhausted,
     AdvanceBounded, Advancing
<1>6. ListenerTypeOK
  BY DEF ListenerTypeOK, HandlerPc, Signal
<1> QED
  BY <1>1, <1>2, <1>3, <1>4, <1>5, <1>6 DEF TInv

----------------------------------------------------------------------------
(* Who works on a task.                                                    *)

\* The lock of a task is kept while a worker is working on it ...
Locked == \A w \in Workers : Holding(w) => lock[job[w]]

\* ... and only one does.
Exclusive == \A v, w \in Workers :
    Holding(v) /\ Holding(w) /\ job[v] = job[w] => v = w

XInv == EngineInSession /\ Locked /\ Exclusive

\* The three parts are about these variables only.
LEMMA ExclusionStable ==
  ASSUME XInv, UNCHANGED <<worker, job, engine, lock>>
  PROVE  XInv'
BY DEF XInv, EngineInSession, InSession, Locked, Exclusive, Holding

\* A worker that goes from one of its steps to another between tryLock and unlock
\* still holds the lock.
LEMMA HoldingStable ==
  ASSUME XInv, NEW w \in Workers, Holding(w),
         NEW pc \in WorkerPc \ {"idle", "tryLock"},
         worker' = [worker EXCEPT ![w] = pc], UNCHANGED <<job, lock>>
  PROVE  Locked' /\ Exclusive'
BY DEF XInv, Locked, Exclusive, Holding

\* The main thread: tryLock takes a lock that nobody has, unlock gives back its own,
\* and the session is joined in between.
LEMMA MainExclusive ==
  ASSUME TInv, XInv, NEW w \in Workers, MainStep(w)
  PROVE  XInv'
<1> USE DEF TInv, LoopInv, LoopTypeOK, XInv
<1>1. CASE NextTask(w)
  BY <1>1 DEF NextTask, WorkerGoes, EngineInSession, InSession, Locked, Exclusive,
     Holding
<1>2. CASE TryLock(w)
  <2>1. EngineInSession'
    BY <1>2 DEF TryLock, LoopAgain, WorkerGoes, EngineInSession, InSession
  <2>2. job[w] \in Tasks /\ lock \in [Tasks -> BOOLEAN]
    BY <1>2 DEF TryLock, JobKnown, RedisTypeOK
  <2>3. CASE lock[job[w]]
    BY <1>2, <2>1, <2>2, <2>3 DEF TryLock, SetLock, LoopAgain, Locked, Exclusive,
       Holding
  <2>4. CASE ~lock[job[w]]
    <3>1. \A v \in Workers : Holding(v) => job[v] # job[w]
      BY <2>4 DEF Locked
    <3> QED
      BY <1>2, <2>1, <2>2, <2>4, <3>1 DEF TryLock, SetLock, WorkerGoes, Locked,
         Exclusive, Holding
  <2> QED
    BY <2>3, <2>4
<1>3. CASE Unlock(w)
  <2>1. EngineInSession'
    BY <1>3 DEF Unlock, LoopAgain, EngineInSession, InSession
  <2>2. \A v \in Workers \ {w} : Holding(v) => job[v] # job[w]
    BY <1>3 DEF Unlock, Exclusive, Holding
  <2> QED
    BY <1>3, <2>1, <2>2 DEF Unlock, SetLock, LoopAgain, Locked, Exclusive, Holding,
       RedisTypeOK
<1>4. CASE \/ IsFinished(w) \/ IsPaused(w) \/ IncAttempts(w) \/ RetrieveTask(w)
           \/ LoadState(w) \/ PublishStarted(w) \/ SendStarted(w)
           \/ PublishError(w) \/ SendError(w) \/ Unsubscribe(w)
  <2> DEFINE Pcs == WorkerPc \ {"idle", "tryLock"}
  <2>1. /\ Holding(w) /\ ~InSession(w) /\ UNCHANGED <<job, lock, engine>>
        /\ \E pc \in Pcs : worker' = [worker EXCEPT ![w] = pc]
    BY <1>4 DEF IsFinished, IsPaused, IncAttempts, RetrieveTask, LoadState,
       PublishStarted, SendStarted, PublishError, SendError, Unsubscribe, SetStatus,
       WorkerGoes, WorkerPc, Holding, InSession
  <2>2. EngineInSession'
    BY <2>1 DEF EngineInSession, InSession
  <2> QED
    BY <2>1, <2>2, HoldingStable
<1>5. CASE SolveTsp(w) \/ Join(w)
  <2> DEFINE Pcs == WorkerPc \ {"idle", "tryLock"}
  <2>1. /\ Holding(w) /\ UNCHANGED <<job, lock>>
        /\ \E pc \in Pcs : worker' = [worker EXCEPT ![w] = pc]
    BY <1>5 DEF SolveTsp, Join, WorkerGoes, WorkerPc, Holding
  <2>2. EngineInSession'
    BY <1>5 DEF SolveTsp, Join, NoSession, WorkerGoes, EngineInSession, InSession,
       SessionInv, SessionTypeOK
  <2> QED
    BY <2>1, <2>2, HoldingStable
<1>6. CASE Subscribe(w) \/ WaitUntil(w) \/ SendInProgress(w) \/ Close(w)
  <2> DEFINE Pcs == WorkerPc \ {"idle", "tryLock"}
  <2>1. /\ Holding(w) /\ UNCHANGED <<job, lock, engine>>
        /\ \E pc \in Pcs : worker' = [worker EXCEPT ![w] = pc]
    BY <1>6 DEF Subscribe, WaitUntil, SendInProgress, Close, SetStatus, WorkerGoes,
       WorkerPc, Holding
  <2>2. EngineInSession'
    BY <1>6 DEF Subscribe, WaitUntil, SendInProgress, Close, WorkerGoes,
       EngineInSession, InSession
  <2> QED
    BY <2>1, <2>2, HoldingStable
<1> QED
  BY <1>1, <1>2, <1>3, <1>4, <1>5, <1>6 DEF MainStep

\* The engine thread keeps the session it runs in.
LEMMA EngineExclusive ==
  ASSUME TInv, XInv, NEW w \in Workers, EngineStep(w)
  PROVE  XInv'
<1>1. UNCHANGED <<worker, job, lock>>
  BY DEF EngineStep, Validate, PublishSolution, PublishNewSolution, LeaveLoop,
     Iterate, Advance, Persist, PublishFinished, SendFinished, EnginePublishError,
     EngineSendError, EngineNotify, SetSolution, SetState, SetStatus
<1>2. engine[w] # "none" /\ \A v \in Workers \ {w} : engine'[v] = engine[v]
  BY DEF EngineStep, Validate, PublishSolution, PublishNewSolution, LeaveLoop,
     Iterate, Advance, Persist, PublishFinished, SendFinished, EnginePublishError,
     EngineSendError, EngineNotify, EngineGoes, TInv, SessionInv, SessionTypeOK
<1> QED
  BY <1>1, <1>2 DEF XInv, EngineInSession, InSession, Locked, Exclusive, Holding

\* The thread of the interrupt listener takes no lock and ends no session.
LEMMA HandlerExclusive ==
  ASSUME XInv, NEW w \in Workers, HandlerStep(w)
  PROVE  XInv'
<1>1. UNCHANGED <<worker, job, engine, lock>>
  BY DEF HandlerStep, Receive, RaiseInterrupted, PauseSession, PublishPaused,
     SendPaused, ClearState, HandlerNotify, SetStatus, SetState
<1> QED
  BY <1>1, ExclusionStable

\* A lock that a failure or a crash leaves behind keeps the others away.
LEMMA FailureExclusive ==
  ASSUME TInv, XInv, NEW w \in Workers, Failure(w)
  PROVE  XInv'
<1> USE DEF TInv, LoopInv, LoopTypeOK, XInv
<1> DEFINE Pcs == WorkerPc \ {"idle", "tryLock"}
<1>1. CASE ReplyIsError(w)
  <2>1. UNCHANGED <<job, lock, engine>> /\ ~InSession(w)
    BY <1>1 DEF ReplyIsError, LoopAgain, WorkerGoes, InSession
  <2>2. EngineInSession'
    BY <1>1, <2>1 DEF ReplyIsError, LoopAgain, WorkerGoes, EngineInSession, InSession
  <2>3. CASE LoopAgain(w)
    BY <2>1, <2>2, <2>3 DEF LoopAgain, Locked, Exclusive, Holding
  <2>4. CASE ~LoopAgain(w)
    <3>1. Holding(w) /\ \E pc \in Pcs : worker' = [worker EXCEPT ![w] = pc]
      BY <1>1, <2>4 DEF ReplyIsError, WorkerGoes, WorkerPc, Holding
    <3> QED
      BY <2>1, <2>2, <3>1, HoldingStable
  <2> QED
    BY <2>3, <2>4
<1>2. CASE WorkerThrows(w) \/ CatchThrows(w)
  <2>1. UNCHANGED <<job, lock, engine>>
    BY <1>2 DEF WorkerThrows, CatchThrows
  <2>2. EngineInSession'
    BY <1>2, <2>1 DEF WorkerThrows, CatchThrows, WorkerGoes, EngineInSession,
       InSession
  <2>3. Holding(w) /\ \E pc \in Pcs : worker' = [worker EXCEPT ![w] = pc]
    BY <1>2 DEF WorkerThrows, CatchThrows, WorkerGoes, WorkerPc, Holding
  <2> QED
    BY <2>1, <2>2, <2>3, HoldingStable
<1>3. CASE EngineThrows(w) \/ ErrorCallbackThrows(w)
  <2>1. UNCHANGED <<worker, job, lock>>
    BY <1>3 DEF EngineThrows, ErrorCallbackThrows
  <2>2. engine[w] # "none" /\ \A v \in Workers \ {w} : engine'[v] = engine[v]
    BY <1>3 DEF EngineThrows, ErrorCallbackThrows, EngineGoes, SessionInv,
       SessionTypeOK
  <2> QED
    BY <2>1, <2>2 DEF EngineInSession, InSession, Locked, Exclusive, Holding
<1>4. CASE HandlerThrows(w)
  BY <1>4, ExclusionStable DEF HandlerThrows
<1>5. CASE Crash(w)
  BY <1>5 DEF Crash, LoopAgain, NoSession, EngineInSession, InSession, Locked,
     Exclusive, Holding, SessionInv, SessionTypeOK
<1> QED
  BY <1>1, <1>2, <1>3, <1>4, <1>5 DEF Failure

\* No call of the server touches a lock.
LEMMA ServerExclusive ==
  ASSUME XInv, ServerNext \/ \E t \in Tasks : Expire(t), UNCHANGED workerVars
  PROVE  XInv'
<1>1. UNCHANGED lock
  BY DEF ServerNext, StartTsp, PauseTsp, ResumeTsp, StopTsp, CallAbout,
     SendStartSignal, SendPauseSignal, IsResumeable, GetTaskStatus,
     ForceInterrupted, SendInterruptSignal, LoadSolution, RemoveTask, CallFails,
     Expire, SetTask, SetStatus, SetSolution
<1> QED
  BY <1>1, ExclusionStable

\* At first nobody holds a lock and no session runs.
LEMMA InitExclusive == Init => XInv
BY DEF Init, WorkerInit, XInv, EngineInSession, InSession, Locked, Exclusive, Holding

\* The first two layers are kept by every step of the system.
LEMMA StepInv == TInv /\ XInv /\ [Next]_vars => TInv' /\ XInv'
<1> SUFFICES ASSUME TInv, XInv, [Next]_vars PROVE TInv' /\ XInv'
  OBVIOUS
<1>1. CASE ServerNext /\ UNCHANGED workerVars
  BY <1>1, ServerTyped, ServerExclusive
<1>2. CASE WorkerNext /\ UNCHANGED serverVars
  <2>1. PICK w \in Workers :
          MainStep(w) \/ EngineStep(w) \/ HandlerStep(w) \/ Failure(w)
    BY <1>2 DEF WorkerNext
  <2>2. TInv'
    BY <1>2, <2>1, MainTyped, EngineTyped, HandlerTyped, FailureTyped DEF XInv
  <2>3. XInv'
    BY <2>1, MainExclusive, EngineExclusive, HandlerExclusive, FailureExclusive
  <2> QED
    BY <2>2, <2>3
<1>3. CASE (\E t \in Tasks : Expire(t)) /\ UNCHANGED <<serverVars, workerVars>>
  BY <1>3, ExpireTyped, ServerExclusive
<1>4. CASE UNCHANGED vars
  <2>1. TInv'
    BY <1>4, Stable DEF TInv
  <2>2. XInv'
    BY <1>4, ExclusionStable
  <2> QED
    BY <2>1, <2>2
<1> QED
  BY <1>1, <1>2, <1>3, <1>4 DEF Next

\* What the system keeps whatever calls fail: the types, and that locks in Redis,
\* main threads and engine threads go together.
THEOREM Invariance == Spec => [](TInv /\ XInv)
<1>1. Init => TInv /\ XInv
  BY InitTyped, InitExclusive
<1> QED
  BY <1>1, StepInv, PTL DEF Spec

\* Every variable of servers, workers, Redis and RabbitMQ keeps to its type.
THEOREM TypeCorrect == Spec => []TypeOK
<1>1. TInv => TypeOK
  BY DEF TInv, TypeOK, LoopInv, SessionInv
<1> QED
  BY <1>1, Invariance, PTL

\* Whatever calls fail and whichever workers crash, Worker::start never lets two
\* workers, or a session that was left behind, work on one task.
THEOREM OneWorker == Spec => []OneWorkerPerTask
<1>1. XInv => OneWorkerPerTask
  BY DEF XInv, EngineInSession, InSession, Exclusive, Holding, OneWorkerPerTask,
     Solving
<1> QED
  BY <1>1, Invariance, PTL

----------------------------------------------------------------------------
(* What is finished.                                                       *)

\* A worker that has seen that its task is not finished, and has not reported it
\* as finished itself.
Unreported(w) ==
    \/ worker[w] \in {"isPaused", "incAttempts", "retrieve", "load",
                      "publishStarted", "sendStarted", "solve"}
    \/ engine[w] \in {"validate", "solution", "announce", "test", "advance",
                      "persist", "publishFinished", "sendFinished"}

\* A worker that has stored the final solution, and is going to report it.
Announcing(w) ==
    \/ engine[w] \in {"publishFinished", "sendFinished"}
    \/ engine[w] = "announce" /\ Final(w)

FInv ==
    /\ FinishedHasFinalSolution
    /\ \A w \in Workers : Unreported(w) => status[job[w]] # "FINISHED"
    /\ \A w \in Workers : Announcing(w) => solution[job[w]] # "partial"

\* Both work on a task that no other worker works on.
LEMMA UnreportedHolds ==
  ASSUME TInv, XInv, NEW w \in Workers, Unreported(w) \/ Announcing(w)
  PROVE  /\ Holding(w) /\ job[w] \in Tasks
         /\ \A v \in Workers \ {w} :
               Unreported(v) \/ Announcing(v) => job[v] # job[w]
<1>1. \A v \in Workers : Unreported(v) \/ Announcing(v) => Holding(v)
  BY DEF XInv, EngineInSession, InSession, Holding, Unreported, Announcing
<1>2. \A v \in Workers : Holding(v) => job[v] \in Tasks
  BY DEF TInv, LoopInv, JobKnown, Holding
<1> QED
  BY <1>1, <1>2 DEF XInv, Exclusive

\* A step that reports nothing as finished, stores nothing and gives no worker
\* anything to report.
LEMMA FinishedStable ==
  ASSUME TInv, XInv, FInv,
         \A t \in Tasks : status'[t] = "FINISHED" => status[t] = "FINISHED",
         \A t \in Tasks : solution'[t] = "partial" => solution[t] = "partial",
         \A w \in Workers : Unreported(w)' => Unreported(w) /\ job'[w] = job[w],
         \A w \in Workers : Announcing(w)' => Announcing(w) /\ job'[w] = job[w]
  PROVE  FInv'
<1>1. FinishedHasFinalSolution'
  BY DEF FInv, FinishedHasFinalSolution
<1>2. ASSUME NEW w \in Workers, Unreported(w)'
      PROVE  status'[job'[w]] # "FINISHED"
  BY <1>2, UnreportedHolds DEF FInv
<1>3. ASSUME NEW w \in Workers, Announcing(w)'
      PROVE  solution'[job'[w]] # "partial"
  BY <1>3, UnreportedHolds DEF FInv
<1> QED
  BY <1>1, <1>2, <1>3 DEF FInv

\* The main thread sets a status, but never FINISHED.
LEMMA MainFinished ==
  ASSUME TInv, XInv, FInv, NEW w \in Workers, MainStep(w)
  PROVE  FInv'
<1> USE DEF TInv, LoopInv, LoopTypeOK, SessionInv, SessionTypeOK
<1>1. CASE NextTask(w) \/ TryLock(w) \/ Unlock(w)
  <2>1. UNCHANGED <<status, solution, engine, back, at>>
    BY <1>1 DEF NextTask, TryLock, Unlock, SetLock
  <2>2. engine[w] = "none"
    BY <1>1 DEF NextTask, TryLock, Unlock, WorkerGoes, XInv, EngineInSession,
       InSession
  <2>3. /\ \A v \in Workers \ {w} : worker'[v] = worker[v] /\ job'[v] = job[v]
        /\ worker'[w] \in {"tryLock", "idle", "isFinished"}
    BY <1>1 DEF NextTask, TryLock, Unlock, LoopAgain, WorkerGoes
  <2> QED
    BY <2>1, <2>2, <2>3, FinishedStable DEF Unreported, Announcing, Final
<1>2. CASE IsFinished(w)
  <2>1. UNCHANGED <<status, solution, engine, back, at, job>>
    BY <1>2 DEF IsFinished
  <2>2. \A v \in Workers \ {w} : worker'[v] = worker[v]
    BY <1>2 DEF IsFinished, WorkerGoes
  <2>3. CASE status[job[w]] = "FINISHED"
    <3>1. worker'[w] = "skip"
      BY <1>2, <2>3 DEF IsFinished, WorkerGoes
    <3> QED
      BY <2>1, <2>2, <3>1, FinishedStable DEF Unreported, Announcing, Final
  <2>4. CASE status[job[w]] # "FINISHED"
    BY <2>1, <2>2, <2>4 DEF FInv, FinishedHasFinalSolution, Unreported, Announcing,
       Final
  <2> QED
    BY <2>3, <2>4
<1>3. CASE \/ IsPaused(w) \/ IncAttempts(w) \/ RetrieveTask(w) \/ LoadState(w)
           \/ PublishStarted(w) \/ Subscribe(w) \/ WaitUntil(w) \/ Close(w)
           \/ PublishError(w) \/ Unsubscribe(w)
  <2>1. UNCHANGED <<status, solution, engine, back, at, job>>
    BY <1>3 DEF IsPaused, IncAttempts, RetrieveTask, LoadState, PublishStarted,
       Subscribe, WaitUntil, Close, PublishError, Unsubscribe
  <2>2. \A v \in Workers : Unreported(v)' => Unreported(v)
    BY <1>3, <2>1 DEF IsPaused, IncAttempts, RetrieveTask, LoadState,
       PublishStarted, Subscribe, WaitUntil, Close, PublishError, Unsubscribe,
       WorkerGoes, Unreported
  <2> QED
    BY <2>1, <2>2, FinishedStable DEF Announcing, Final
<1>4. CASE SendStarted(w) \/ SendInProgress(w) \/ SendError(w)
  <2>1. UNCHANGED <<solution, engine, back, at, job>>
    BY <1>4 DEF SendStarted, SendInProgress, SendError, SetStatus
  <2>2. \A t \in Tasks : status'[t] = "FINISHED" => status[t] = "FINISHED"
    BY <1>4 DEF SendStarted, SendInProgress, SendError, SetStatus, RedisTypeOK
  <2>3. \A v \in Workers : Unreported(v)' => Unreported(v)
    BY <1>4, <2>1 DEF SendStarted, SendInProgress, SendError, WorkerGoes, Unreported
  <2> QED
    BY <2>1, <2>2, <2>3, FinishedStable DEF Announcing, Final
<1>5. CASE SolveTsp(w) \/ Join(w)
  <2>1. UNCHANGED <<status, solution, job>>
    BY <1>5 DEF SolveTsp, Join
  <2>2. \A v \in Workers : Unreported(v)' => Unreported(v)
    BY <1>5 DEF SolveTsp, Join, NoSession, WorkerGoes, Unreported
  <2>3. \A v \in Workers : Announcing(v)' => Announcing(v)
    BY <1>5 DEF SolveTsp, Join, NoSession, Announcing, Final
  <2> QED
    BY <2>1, <2>2, <2>3, FinishedStable
<1> QED
  BY <1>1, <1>2, <1>3, <1>4, <1>5 DEF MainStep

\* The engine thread stores the final solution, as long as Redis takes it, before
\* it reports the task as finished, and nothing after that.
LEMMA EngineFinished ==
  ASSUME "store" \notin FaultKinds,
         TInv, XInv, FInv, NEW w \in Workers, EngineStep(w)
  PROVE  FInv'
<1> USE DEF TInv, SessionInv, SessionTypeOK
<1>1. UNCHANGED <<worker, job>>
  BY DEF EngineStep, Validate, PublishSolution, PublishNewSolution, LeaveLoop,
     Iterate, Advance, Persist, PublishFinished, SendFinished, EnginePublishError,
     EngineSendError, EngineNotify
<1>2. CASE PublishSolution(w)
  <2>1. /\ engine[w] = "solution" /\ UNCHANGED <<status, back, at>>
        /\ engine' = [engine EXCEPT ![w] = IF interrupted[w] THEN Announced(w)
                                                            ELSE "announce"]
        /\ solution' = [solution EXCEPT ![job[w]] =
                            IF Final(w) THEN "final" ELSE "partial"]
    BY <1>2 DEF PublishSolution, EngineGoes, SetSolution, Fault
  <2>2. Unreported(w) /\ job[w] \in Tasks
    BY <2>1, UnreportedHolds DEF Unreported
  <2>3. FinishedHasFinalSolution'
    BY <2>1, <2>2 DEF FInv, FinishedHasFinalSolution
  <2>4. \A v \in Workers : Unreported(v)' => Unreported(v)
    BY <1>1, <2>1, <2>2 DEF Unreported
  <2>5. ASSUME NEW v \in Workers, Announcing(v)'
        PROVE  solution'[job'[v]] # "partial"
    <3>1. CASE v = w
      <4>1. Final(w)
        BY <2>1, <2>5, <3>1 DEF Announcing, Announced, Final
      <4> QED
        BY <1>1, <2>1, <2>2, <3>1, <4>1 DEF RedisTypeOK
    <3>2. CASE v # w
      <4>1. Announcing(v) /\ job[v] # job[w]
        BY <2>1, <2>2, <2>5, <3>2, UnreportedHolds DEF Announcing, Final
      <4> QED
        BY <1>1, <2>1, <4>1, UnreportedHolds DEF FInv, RedisTypeOK
    <3> QED
      BY <3>1, <3>2
  <2> QED
    BY <1>1, <2>1, <2>3, <2>4, <2>5 DEF FInv
<1>3. CASE SendFinished(w)
  <2>1. /\ engine[w] = "sendFinished" /\ UNCHANGED <<solution, back, at>>
        /\ engine' = [engine EXCEPT ![w] = "notify"]
        /\ status' = [status EXCEPT ![job[w]] = "FINISHED"]
    BY <1>3 DEF SendFinished, EngineGoes, SetStatus
  <2>2. Unreported(w) /\ Announcing(w) /\ InSession(w)
    BY <2>1 DEF Unreported, Announcing, XInv, EngineInSession
  <2>3. FinishedHasFinalSolution'
    BY <2>1, <2>2, UnreportedHolds DEF FInv, FinishedHasFinalSolution, RedisTypeOK
  <2>4. ASSUME NEW v \in Workers, Unreported(v)'
        PROVE  status'[job'[v]] # "FINISHED"
    <3>1. v # w
      BY <1>1, <2>1, <2>2, <2>4 DEF Unreported, InSession
    <3>2. Unreported(v)
      BY <1>1, <2>1, <2>4, <3>1 DEF Unreported
    <3> QED
      BY <1>1, <2>1, <2>2, <3>1, <3>2, UnreportedHolds DEF FInv, RedisTypeOK
  <2>5. \A v \in Workers : Announcing(v)' => Announcing(v)
    BY <2>1 DEF Announcing, Final
  <2> QED
    BY <1>1, <2>1, <2>3, <2>4, <2>5 DEF FInv
<1>4. CASE EnginePublishError(w) \/ EngineSendError(w) \/ EngineNotify(w)
  <2>1. UNCHANGED <<solution, back, at>>
    BY <1>4 DEF EnginePublishError, EngineSendError, EngineNotify, SetStatus
  <2>2. \A t \in Tasks : status'[t] = "FINISHED" => status[t] = "FINISHED"
    BY <1>4 DEF EnginePublishError, EngineSendError, EngineNotify, SetStatus,
       RedisTypeOK
  <2>3. \A v \in Workers : Unreported(v)' => Unreported(v)
    BY <1>1, <1>4, <2>1 DEF EnginePublishError, EngineSendError, EngineNotify,
       EngineGoes, Unreported
  <2>4. \A v \in Workers : Announcing(v)' => Announcing(v)
    BY <1>1, <1>4, <2>1 DEF EnginePublishError, EngineSendError, EngineNotify,
       EngineGoes, Announcing, Final
  <2> QED
    BY <1>1, <2>1, <2>2, <2>3, <2>4, FinishedStable
<1>5. CASE \/ Validate(w) \/ PublishNewSolution(w) \/ LeaveLoop(w) \/ Iterate(w)
           \/ Advance(w) \/ Persist(w) \/ PublishFinished(w)
  <2>1. UNCHANGED <<status, solution>>
    BY <1>5 DEF Validate, PublishNewSolution, LeaveLoop, Iterate, Advance, Persist,
       PublishFinished, SetState
  <2>2. /\ Unreported(w)
        /\ \A v \in Workers \ {w} : /\ engine'[v] = engine[v]
                                     /\ back'[v] = back[v] /\ at'[v] = at[v]
    BY <1>5 DEF Validate, PublishNewSolution, LeaveLoop, Iterate, Advance, Persist,
       PublishFinished, EngineGoes, Unreported
  <2>3. Announcing(w)' => Announcing(w)
    BY <1>5 DEF Validate, PublishNewSolution, LeaveLoop, Iterate, Advance, Persist,
       PublishFinished, EngineGoes, Announced, Announcing, Final
  <2> QED
    BY <1>1, <2>1, <2>2, <2>3, FinishedStable DEF Unreported, Announcing, Final
<1> QED
  BY <1>2, <1>3, <1>4, <1>5 DEF EngineStep

\* The interrupt handler stores a status, but never FINISHED, and no solution.
LEMMA HandlerFinished ==
  ASSUME TInv, XInv, FInv, NEW w \in Workers, HandlerStep(w)
  PROVE  FInv'
<1>1. UNCHANGED <<worker, job, engine, back, at, solution>>
  BY DEF HandlerStep, Receive, RaiseInterrupted, PauseSession, PublishPaused,
     SendPaused, ClearState, HandlerNotify, SetStatus, SetState
<1>2. \A t \in Tasks : status'[t] = "FINISHED" => status[t] = "FINISHED"
  BY DEF HandlerStep, Receive, RaiseInterrupted, PauseSession, PublishPaused,
     SendPaused, ClearState, HandlerNotify, SetStatus, SetState, TInv, RedisTypeOK
<1> QED
  BY <1>1, <1>2, FinishedStable DEF Unreported, Announcing, Final

\* A failure, other than of a read or a write that is only logged, only keeps a
\* worker from reporting.
LEMMA FailureFinished ==
  ASSUME "store" \notin FaultKinds,
         TInv, XInv, FInv, NEW w \in Workers, Failure(w)
  PROVE  FInv'
<1> USE DEF TInv, LoopInv, LoopTypeOK, SessionInv, SessionTypeOK
<1>1. UNCHANGED <<job, status, solution>>
  BY DEF Failure, ReplyIsError, WorkerThrows, CatchThrows, EngineThrows,
     ErrorCallbackThrows, HandlerThrows, Crash, Fault, LoopAgain
<1>2. CASE WorkerThrows(w) \/ CatchThrows(w)
  <2>1. UNCHANGED <<engine, back, at>>
    BY <1>2 DEF WorkerThrows, CatchThrows
  <2>2. \A v \in Workers : Unreported(v)' => Unreported(v)
    BY <1>2, <2>1 DEF WorkerThrows, CatchThrows, WorkerGoes, Unreported
  <2> QED
    BY <1>1, <2>1, <2>2, FinishedStable DEF Announcing, Final
<1>3. CASE EngineThrows(w) \/ ErrorCallbackThrows(w)
  <2>1. UNCHANGED <<worker, back, at>>
    BY <1>3 DEF EngineThrows, ErrorCallbackThrows
  <2>2. \A v \in Workers : engine'[v] = engine[v] \/ engine'[v] \in {"publishError",
                                                                   "ended"}
    BY <1>3 DEF EngineThrows, ErrorCallbackThrows, EngineGoes
  <2> QED
    BY <1>1, <2>1, <2>2, FinishedStable DEF Unreported, Announcing, Final
<1>4. CASE HandlerThrows(w)
  BY <1>1, <1>4, FinishedStable DEF HandlerThrows, Unreported, Announcing, Final
<1>5. CASE Crash(w)
  <2>1. /\ worker'[w] = "idle" /\ engine'[w] = "none"
        /\ \A v \in Workers \ {w} : /\ worker'[v] = worker[v]
                                     /\ engine'[v] = engine[v]
                                     /\ back'[v] = back[v] /\ at'[v] = at[v]
    BY <1>5 DEF Crash, LoopAgain, NoSession
  <2> QED
    BY <1>1, <2>1, FinishedStable DEF Unreported, Announcing, Final
<1> QED
  BY <1>2, <1>3, <1>4, <1>5 DEF Failure, ReplyIsError, Fault

\* The server stores a status, but never FINISHED.
LEMMA ServerFinished ==
  ASSUME TInv, XInv, FInv,
         ServerNext \/ \E t \in Tasks : Expire(t), UNCHANGED workerVars
  PROVE  FInv'
<1>1. \A t \in Tasks : status'[t] = "FINISHED" => status[t] = "FINISHED"
  BY DEF ServerNext, StartTsp, PauseTsp, ResumeTsp, StopTsp, CallAbout,
     SendStartSignal, SendPauseSignal, IsResumeable, GetTaskStatus,
     ForceInterrupted, SendInterruptSignal, LoadSolution, RemoveTask, CallFails,
     Expire, SetTask, SetStatus, SetSolution, TInv, RedisTypeOK
<1>2. \A t \in Tasks : solution'[t] = "partial" => solution[t] = "partial"
  BY DEF ServerNext, StartTsp, PauseTsp, ResumeTsp, StopTsp, CallAbout,
     SendStartSignal, SendPauseSignal, IsResumeable, GetTaskStatus,
     ForceInterrupted, SendInterruptSignal, LoadSolution, RemoveTask, CallFails,
     Expire, SetTask, SetStatus, SetSolution, TInv, RedisTypeOK
<1> QED
  BY <1>1, <1>2, FinishedStable DEF Unreported, Announcing, Final

\* All three layers are kept by every step, if Redis takes what it is sent.
LEMMA StepFinished ==
  ASSUME "store" \notin FaultKinds
  PROVE  TInv /\ XInv /\ FInv /\ [Next]_vars => FInv'
<1> SUFFICES ASSUME TInv, XInv, FInv, [Next]_vars PROVE FInv'
  OBVIOUS
<1>1. CASE ServerNext /\ UNCHANGED workerVars
  BY <1>1, ServerFinished
<1>2. CASE WorkerNext /\ UNCHANGED serverVars
  BY <1>2, MainFinished, EngineFinished, HandlerFinished, FailureFinished
     DEF WorkerNext
<1>3. CASE (\E t \in Tasks : Expire(t)) /\ UNCHANGED <<serverVars, workerVars>>
  BY <1>3, ServerFinished
<1>4. CASE UNCHANGED vars
  BY <1>4, FinishedStable DEF Unreported, Announcing, Final
<1> QED
  BY <1>1, <1>2, <1>3, <1>4 DEF Next

\* If Redis takes what it is sent, a task the workers report as finished has its
\* final solution, or none any more: no partial solution is left in its place.
THEOREM FinishedFinal ==
  ASSUME "store" \notin FaultKinds
  PROVE  Spec => []FinishedHasFinalSolution
<1>1. Init => FInv
  BY DEF Init, StoreInit, WorkerInit, FInv, FinishedHasFinalSolution, Unreported,
     Announcing
<1>2. TInv /\ XInv /\ FInv /\ [Next]_vars => FInv'
  BY StepFinished
<1>3. FInv => FinishedHasFinalSolution
  BY DEF FInv
<1> QED
  BY <1>1, <1>2, <1>3, Invariance, PTL DEF Spec

----------------------------------------------------------------------------
(* What was worked off.                                                    *)

\* The iterations of a task before the i-th have been executed.
Backed(t, i) == 0..(i - 1) \subseteq executed[t]

\* The container of the worker holds what was loaded for its task.
Loaded(w) == worker[w] \in {"publishStarted", "sendStarted", "solve"} \/ InSession(w)

\* The algorithm is at an iteration: from validation to the end of its loop.
Looping(w) == engine[w] \in {"solution", "announce", "test", "advance"}

\* No iteration is left out: neither a state in Redis, nor the one a worker is
\* going to persist, nor the one it is at, is ahead of what was executed.
PInv ==
    /\ \A t \in Tasks : Backed(t, state[t])
    /\ \A w \in Workers : Loaded(w) => Backed(job[w], container[w])
    /\ \A w \in Workers : Looping(w) => Backed(job[w], at[w])
    /\ \A w \in Workers : Advancing(w) => at[w] \in executed[job[w]]

\* The worker of a container or an iteration has a task.
LEMMA LoadedHasTask ==
  ASSUME TInv, XInv, NEW w \in Workers, Loaded(w) \/ Looping(w) \/ Advancing(w)
  PROVE  job[w] \in Tasks /\ Holding(w)
BY DEF TInv, LoopInv, JobKnown, XInv, EngineInSession, InSession, Loaded, Looping,
   Advancing, Holding

\* Nowhere is before the first iteration.
LEMMA NowhereBacked == ASSUME NEW t \in Tasks PROVE Backed(t, NoState)'
BY DEF Backed, NoState

\* A step that at most clears a state, or the container or the iteration of a worker.
LEMMA ProgressStable ==
  ASSUME TInv, XInv, PInv,
         \A t \in Tasks : executed[t] \subseteq executed'[t],
         \A t \in Tasks : state'[t] \in {state[t], NoState},
         \A w \in Workers : Loaded(w)' =>
            Loaded(w) /\ job'[w] = job[w] /\ container'[w] \in {container[w], NoState},
         \A w \in Workers : Looping(w)' =>
            Looping(w) /\ job'[w] = job[w] /\ at'[w] = at[w],
         \A w \in Workers : Advancing(w)' =>
            Advancing(w) /\ job'[w] = job[w] /\ at'[w] = at[w]
  PROVE  PInv'
<1>1. ASSUME NEW t \in Tasks PROVE Backed(t, state[t])'
  BY <1>1, NowhereBacked DEF PInv, Backed
<1>2. ASSUME NEW w \in Workers, Loaded(w)' PROVE Backed(job[w], container[w])'
  <2>1. job[w] \in Tasks
    BY <1>2, LoadedHasTask
  <2> QED
    BY <1>2, <2>1, NowhereBacked DEF PInv, Backed
<1>3. ASSUME NEW w \in Workers, Looping(w)' PROVE Backed(job[w], at[w])'
  <2>1. job[w] \in Tasks
    BY <1>3, LoadedHasTask
  <2> QED
    BY <1>3, <2>1 DEF PInv, Backed
<1>4. ASSUME NEW w \in Workers, Advancing(w)' PROVE (at[w] \in executed[job[w]])'
  <2>1. job[w] \in Tasks
    BY <1>4, LoadedHasTask
  <2> QED
    BY <1>4, <2>1 DEF PInv
<1> QED
  BY <1>1, <1>2, <1>3, <1>4 DEF PInv

\* The main thread loads a state into the container, and drops it with the session.
LEMMA MainProgress ==
  ASSUME TInv, XInv, PInv, NEW w \in Workers, MainStep(w)
  PROVE  PInv'
<1> USE DEF TInv, LoopInv, LoopTypeOK, SessionInv, SessionTypeOK
<1>1. UNCHANGED <<state, executed>>
  BY DEF MainStep, NextTask, TryLock, IsFinished, IsPaused, IncAttempts,
     RetrieveTask, LoadState, PublishStarted, SendStarted, SolveTsp, Subscribe,
     WaitUntil, SendInProgress, Close, Join, PublishError, SendError, Unsubscribe,
     Unlock, SetLock, SetStatus
<1>2. CASE NextTask(w) \/ TryLock(w) \/ Unlock(w)
  <2>1. UNCHANGED <<engine, back, container, at>>
    BY <1>2 DEF NextTask, TryLock, Unlock, SetLock
  <2>2. engine[w] = "none"
    BY <1>2 DEF NextTask, TryLock, Unlock, WorkerGoes, XInv, EngineInSession,
       InSession
  <2>3. /\ worker'[w] \in {"tryLock", "idle", "isFinished"}
        /\ \A v \in Workers \ {w} : worker'[v] = worker[v] /\ job'[v] = job[v]
    BY <1>2 DEF NextTask, TryLock, Unlock, LoopAgain, WorkerGoes
  <2> QED
    BY <1>1, <2>1, <2>2, <2>3, ProgressStable DEF Loaded, InSession, Looping, Advancing
<1>3. CASE LoadState(w)
  <2>1. /\ UNCHANGED <<job, engine, back, at>>
        /\ \A v \in Workers \ {w} : /\ worker'[v] = worker[v]
                                     /\ container'[v] = container[v]
        /\ container'[w] \in {state[job[w]], NoState}
        /\ job[w] \in Tasks
    BY <1>3 DEF LoadState, WorkerGoes, JobKnown
  <2>2. ASSUME NEW v \in Workers, Loaded(v)' PROVE Backed(job[v], container[v])'
    <3>1. CASE v = w
      BY <1>1, <2>1, <3>1, NowhereBacked DEF PInv, Backed
    <3>2. CASE v # w
      BY <1>1, <2>1, <2>2, <3>2 DEF PInv, Backed, Loaded, InSession
    <3> QED
      BY <3>1, <3>2
  <2> QED
    BY <1>1, <2>1, <2>2 DEF PInv, Backed, Looping, Advancing
<1>4. CASE \/ IsFinished(w) \/ IsPaused(w) \/ IncAttempts(w) \/ RetrieveTask(w)
           \/ PublishStarted(w) \/ SendStarted(w) \/ Subscribe(w) \/ WaitUntil(w)
           \/ SendInProgress(w) \/ Close(w) \/ PublishError(w) \/ SendError(w)
           \/ Unsubscribe(w)
  <2>1. UNCHANGED <<job, engine, back, container, at>>
    BY <1>4 DEF IsFinished, IsPaused, IncAttempts, RetrieveTask, PublishStarted,
       SendStarted, Subscribe, WaitUntil, SendInProgress, Close, PublishError,
       SendError, Unsubscribe, SetStatus
  <2>2. \A v \in Workers : Loaded(v)' => Loaded(v)
    BY <1>4 DEF IsFinished, IsPaused, IncAttempts, RetrieveTask, PublishStarted,
       SendStarted, Subscribe, WaitUntil, SendInProgress, Close, PublishError,
       SendError, Unsubscribe, WorkerGoes, Loaded, InSession
  <2> QED
    BY <1>1, <2>1, <2>2, ProgressStable DEF Looping, Advancing
<1>5. CASE SolveTsp(w) \/ Join(w)
  <2>1. /\ UNCHANGED job
        /\ engine'[w] \in {"validate", "none"}
        /\ \A v \in Workers \ {w} :
              /\ engine'[v] = engine[v] /\ back'[v] = back[v]
              /\ at'[v] = at[v]
        /\ \A v \in Workers : container'[v] \in {container[v], NoState}
    BY <1>5 DEF SolveTsp, Join, NoSession
  <2>2. \A v \in Workers : Loaded(v)' => Loaded(v)
    BY <1>5 DEF SolveTsp, Join, WorkerGoes, Loaded, InSession
  <2> QED
    BY <1>1, <2>1, <2>2, ProgressStable DEF Looping, Advancing
<1> QED
  BY <1>2, <1>3, <1>4, <1>5 DEF MainStep

\* The engine thread starts where the container says, executes an iteration before
\* it advances, and persists what the container holds.
LEMMA EngineProgress ==
  ASSUME TInv, XInv, PInv, NEW w \in Workers, EngineStep(w)
  PROVE  PInv'
<1> USE DEF TInv, SessionInv, SessionTypeOK, RedisTypeOK, HistoryTypeOK
<1>1. UNCHANGED <<worker, job>>
  BY DEF EngineStep, Validate, PublishSolution, PublishNewSolution, LeaveLoop,
     Iterate, Advance, Persist, PublishFinished, SendFinished, EnginePublishError,
     EngineSendError, EngineNotify
<1>2. Loaded(w) /\ job[w] \in Tasks
  <2>1. engine[w] # "none"
    BY DEF EngineStep, Validate, PublishSolution, PublishNewSolution, LeaveLoop,
       Iterate, Advance, Persist, PublishFinished, SendFinished, EnginePublishError,
       EngineSendError, EngineNotify, EngineGoes
  <2>2. Loaded(w)
    BY <2>1 DEF XInv, EngineInSession, Loaded
  <2> QED
    BY <2>2, LoadedHasTask
<1>3. \A v \in Workers : Loaded(v)' <=> Loaded(v)
  BY <1>1 DEF Loaded, InSession
<1>4. CASE Validate(w)
  <2>1. /\ UNCHANGED <<state, executed>>
        /\ engine'[w] = "solution" /\ back'[w] = "test"
        /\ container'[w] \in {container[w], NoState}
        /\ at'[w] = IF container'[w] = NoState THEN 0 ELSE container'[w]
        /\ \A v \in Workers \ {w} :
              /\ engine'[v] = engine[v] /\ back'[v] = back[v]
              /\ container'[v] = container[v] /\ at'[v] = at[v]
    BY <1>4 DEF Validate, EngineGoes
  <2>2. Backed(job[w], container'[w])
    BY <1>2, <2>1 DEF PInv, Backed, NoState
  <2>3. Backed(job[w], at'[w])
    BY <2>1, <2>2 DEF Backed
  <2> QED
    BY <1>1, <1>3, <2>1, <2>2, <2>3 DEF PInv, Backed, Looping, Advancing
<1>5. CASE Iterate(w)
  <2>1. /\ UNCHANGED <<state, container, at>>
        /\ executed' = [executed EXCEPT ![job[w]] = @ \union {at[w]}]
        /\ Looping(w)
        /\ \A v \in Workers \ {w} : engine'[v] = engine[v] /\ back'[v] = back[v]
    BY <1>5 DEF Iterate, EngineGoes, Looping
  <2>2. /\ \A t \in Tasks : executed[t] \subseteq executed'[t]
        /\ at[w] \in executed'[job[w]]
    BY <1>2, <2>1
  <2>3. \A t \in Tasks : Backed(t, state[t])'
    BY <2>1, <2>2 DEF PInv, Backed
  <2>4. ASSUME NEW v \in Workers, Loaded(v)' PROVE Backed(job[v], container[v])'
    <3>1. job[v] \in Tasks
      BY <1>3, <2>4, LoadedHasTask
    <3> QED
      BY <1>1, <1>3, <2>1, <2>2, <2>4, <3>1 DEF PInv, Backed
  <2>5. ASSUME NEW v \in Workers, Looping(v)' PROVE Backed(job[v], at[v])'
    <3>1. Looping(v) /\ job[v] \in Tasks
      BY <2>1, <2>5, LoadedHasTask DEF Looping
    <3> QED
      BY <1>1, <2>1, <2>2, <3>1 DEF PInv, Backed
  <2>6. ASSUME NEW v \in Workers, Advancing(v)' PROVE (at[v] \in executed[job[v]])'
    <3>1. CASE v = w
      BY <1>1, <2>1, <2>2, <3>1
    <3>2. CASE v # w
      <4>1. Advancing(v) /\ job[v] \in Tasks
        BY <2>1, <2>6, <3>2, LoadedHasTask DEF Advancing
      <4> QED
        BY <1>1, <2>1, <2>2, <4>1 DEF PInv
    <3> QED
      BY <3>1, <3>2
  <2> QED
    BY <2>3, <2>4, <2>5, <2>6 DEF PInv
<1>6. CASE Advance(w)
  <2>1. /\ UNCHANGED <<state, executed, back>>
        /\ engine[w] = "advance" /\ engine'[w] = "test"
        /\ at'[w] = at[w] + 1
        /\ container'[w] \in {container[w], at[w] + 1}
        /\ \A v \in Workers \ {w} :
              /\ engine'[v] = engine[v]
              /\ container'[v] = container[v] /\ at'[v] = at[v]
    BY <1>6 DEF Advance, EngineGoes
  <2>2. Backed(job[w], at[w] + 1)
    <3>1. Backed(job[w], at[w]) /\ at[w] \in executed[job[w]] /\ at[w] \in 0..Last
      BY <2>1 DEF PInv, Looping, Advancing, AdvanceBounded
    <3> QED
      BY <3>1, LastAssumption DEF Backed
  <2> QED
    BY <1>1, <1>2, <1>3, <2>1, <2>2 DEF PInv, Backed, Looping, Advancing
<1>7. CASE Persist(w)
  <2>1. /\ UNCHANGED <<executed, back, container, at>>
        /\ engine'[w] = "ended"
        /\ \A v \in Workers \ {w} : engine'[v] = engine[v]
        /\ \A t \in Tasks : \/ state'[t] = state[t]
                            \/ t = job[w] /\ state'[t] = container[w]
    BY <1>7 DEF Persist, EngineGoes, SetState
  <2>2. \A t \in Tasks : Backed(t, state[t])'
    BY <1>2, <2>1 DEF PInv, Backed
  <2> QED
    BY <1>1, <1>3, <2>1, <2>2 DEF PInv, Backed, Looping, Advancing
<1>8. CASE \/ PublishSolution(w) \/ PublishNewSolution(w) \/ LeaveLoop(w)
           \/ PublishFinished(w) \/ SendFinished(w) \/ EnginePublishError(w)
           \/ EngineSendError(w) \/ EngineNotify(w)
  <2>1. /\ UNCHANGED <<state, executed, container, at>>
        /\ \A v \in Workers \ {w} : engine'[v] = engine[v] /\ back'[v] = back[v]
    BY <1>8 DEF PublishSolution, PublishNewSolution, LeaveLoop, PublishFinished,
       SendFinished, EnginePublishError, EngineSendError, EngineNotify, EngineGoes,
       SetSolution, SetStatus
  <2>2. (Looping(w)' => Looping(w)) /\ (Advancing(w)' => Advancing(w))
    BY <1>8 DEF PublishSolution, PublishNewSolution, LeaveLoop, PublishFinished,
       SendFinished, EnginePublishError, EngineSendError, EngineNotify, EngineGoes,
       Announced, Looping, Advancing
  <2> QED
    BY <1>1, <1>3, <2>1, <2>2, ProgressStable DEF Looping, Advancing
<1> QED
  BY <1>4, <1>5, <1>6, <1>7, <1>8 DEF EngineStep

\* The interrupt handler only clears a state.
LEMMA HandlerProgress ==
  ASSUME TInv, XInv, PInv, NEW w \in Workers, HandlerStep(w)
  PROVE  PInv'
<1>1. UNCHANGED <<worker, job, engine, back, container, at, executed>>
  BY DEF HandlerStep, Receive, RaiseInterrupted, PauseSession, PublishPaused,
     SendPaused, ClearState, HandlerNotify, SetStatus, SetState
<1>2. \A t \in Tasks : state'[t] \in {state[t], NoState}
  BY DEF HandlerStep, Receive, RaiseInterrupted, PauseSession, PublishPaused,
     SendPaused, ClearState, HandlerNotify, SetStatus, SetState, TInv, RedisTypeOK
<1> QED
  BY <1>1, <1>2, ProgressStable DEF Loaded, InSession, Looping, Advancing

\* A failure or a crash leaves Redis, and what was executed, as they are.
LEMMA FailureProgress ==
  ASSUME TInv, XInv, PInv, NEW w \in Workers, Failure(w)
  PROVE  PInv'
<1> USE DEF TInv, LoopInv, LoopTypeOK, SessionInv, SessionTypeOK
<1>1. UNCHANGED <<job, state, executed>>
  BY DEF Failure, ReplyIsError, WorkerThrows, CatchThrows, EngineThrows,
     ErrorCallbackThrows, HandlerThrows, Crash, LoopAgain
<1>2. CASE ReplyIsError(w) \/ WorkerThrows(w) \/ CatchThrows(w) \/ HandlerThrows(w)
  <2>1. UNCHANGED <<engine, back, container, at>>
    BY <1>2 DEF ReplyIsError, WorkerThrows, CatchThrows, HandlerThrows
  <2>2. \A v \in Workers : Loaded(v)' => Loaded(v)
    BY <1>2 DEF ReplyIsError, WorkerThrows, CatchThrows, HandlerThrows, LoopAgain,
       WorkerGoes, Loaded, InSession
  <2> QED
    BY <1>1, <2>1, <2>2, ProgressStable DEF Looping, Advancing
<1>3. CASE EngineThrows(w) \/ ErrorCallbackThrows(w)
  <2>1. UNCHANGED <<worker, back, container, at>>
    BY <1>3 DEF EngineThrows, ErrorCallbackThrows
  <2>2. \A v \in Workers :
          engine'[v] = engine[v] \/ engine'[v] \in {"publishError", "ended"}
    BY <1>3 DEF EngineThrows, ErrorCallbackThrows, EngineGoes
  <2> QED
    BY <1>1, <2>1, <2>2, ProgressStable DEF Loaded, InSession, Looping, Advancing
<1>4. CASE Crash(w)
  <2>1. /\ worker'[w] = "idle" /\ engine'[w] = "none"
        /\ \A v \in Workers \ {w} :
              /\ worker'[v] = worker[v] /\ engine'[v] = engine[v]
              /\ back'[v] = back[v] /\ container'[v] = container[v]
              /\ at'[v] = at[v]
    BY <1>4 DEF Crash, LoopAgain, NoSession
  <2> QED
    BY <1>1, <2>1, ProgressStable DEF Loaded, InSession, Looping, Advancing
<1> QED
  BY <1>2, <1>3, <1>4 DEF Failure

\* No call of the server touches a saved state.
LEMMA ServerUntouched ==
  ASSUME ServerNext \/ \E t \in Tasks : Expire(t)
  PROVE  UNCHANGED <<lock, state>>
BY DEF ServerNext, StartTsp, PauseTsp, ResumeTsp, StopTsp, CallAbout,
   SendStartSignal, SendPauseSignal, IsResumeable, GetTaskStatus, ForceInterrupted,
   SendInterruptSignal, LoadSolution, RemoveTask, CallFails, Expire, SetTask,
   SetStatus, SetSolution

\* No step of the system puts a state ahead of what was executed.
LEMMA StepProgress == TInv /\ XInv /\ PInv /\ [Next]_vars => PInv'
<1> SUFFICES ASSUME TInv, XInv, PInv, [Next]_vars PROVE PInv'
  OBVIOUS
<1>1. CASE WorkerNext
  BY <1>1, MainProgress, EngineProgress, HandlerProgress, FailureProgress
     DEF WorkerNext
<1>2. CASE ~WorkerNext
  <2>1. UNCHANGED <<state, workerVars>>
    BY <1>2, ServerUntouched DEF Next
  <2> QED
    BY <2>1, ProgressStable DEF Loaded, InSession, Looping, Advancing
<1> QED
  BY <1>1, <1>2

\* At first nothing was executed and nothing is saved.
LEMMA InitProgress == Init => PInv
BY DEF Init, StoreInit, WorkerInit, PInv, Backed, NoState, Loaded, InSession,
   Looping, Advancing

----------------------------------------------------------------------------
(* A task is worked off as ResumableRun promises.                          *)

\* At first every task maps to a run that was not started.
LEMMA InitRun == ASSUME Init, NEW t \in Tasks PROVE Run(t)!Init
<1>1. /\ lock[t] = FALSE /\ executed[t] = {} /\ state[t] = -1 /\ completed = {}
  BY DEF Init, StoreInit, WorkerInit, NoState
<1> QED
  BY <1>1 DEF Run!Init, Run!Checkpoints

\* A step of the main thread begins a run with tryLock, ends it with unlock, or is
\* none of its business.
LEMMA MainRun ==
  ASSUME TInv, XInv, NEW w \in Workers, MainStep(w), NEW t \in Tasks
  PROVE  [Run(t)!Next]_(Run(t)!vars)
<1> USE DEF TInv, RedisTypeOK
<1>1. UNCHANGED <<state, executed, completed>>
  BY DEF MainStep, NextTask, TryLock, IsFinished, IsPaused, IncAttempts,
     RetrieveTask, LoadState, PublishStarted, SendStarted, SolveTsp, Subscribe,
     WaitUntil, SendInProgress, Close, Join, PublishError, SendError, Unsubscribe,
     Unlock, SetLock, SetStatus
<1>2. CASE TryLock(w)
  <2>1. CASE t = job[w] /\ ~lock[t]
    <3>1. lock'[t] = TRUE
      BY <1>2, <2>1 DEF TryLock, SetLock
    <3>2. Run(t)!Begin
      BY <1>1, <2>1, <3>1 DEF Run!Begin
    <3> QED
      BY <3>2 DEF Run!Next
  <2>2. CASE t # job[w] \/ lock[t] = TRUE
    <3>1. lock'[t] = lock[t]
      BY <1>2, <2>2 DEF TryLock, SetLock
    <3> QED
      BY <1>1, <3>1 DEF Run!vars
  <2> QED
    BY <2>1, <2>2
<1>3. CASE Unlock(w)
  <2>1. CASE t = job[w]
    <3>1. lock[t]
      BY <1>3, <2>1 DEF Unlock, XInv, Locked, Holding
    <3>2. lock'[t] = FALSE
      BY <1>3, <2>1 DEF Unlock, SetLock
    <3>3. Run(t)!End
      BY <1>1, <3>1, <3>2 DEF Run!End
    <3> QED
      BY <3>3 DEF Run!Next
  <2>2. CASE t # job[w]
    <3>1. lock'[t] = lock[t]
      BY <1>3, <2>2 DEF Unlock, SetLock
    <3> QED
      BY <1>1, <3>1 DEF Run!vars
  <2> QED
    BY <2>1, <2>2
<1>4. CASE ~TryLock(w) /\ ~Unlock(w)
  <2>1. UNCHANGED lock
    BY <1>4 DEF MainStep, NextTask, IsFinished, IsPaused, IncAttempts, RetrieveTask,
       LoadState, PublishStarted, SendStarted, SolveTsp, Subscribe, WaitUntil,
       SendInProgress, Close, Join, PublishError, SendError, Unsubscribe, SetStatus
  <2> QED
    BY <1>1, <2>1 DEF Run!vars
<1> QED
  BY <1>2, <1>3, <1>4

\* A step of the engine thread executes an iteration of its task, saves its state,
\* or completes it: always in order, and under its lock.
LEMMA EngineRun ==
  ASSUME TInv, XInv, PInv, NEW w \in Workers, EngineStep(w), NEW t \in Tasks
  PROVE  [Run(t)!Next]_(Run(t)!vars)
<1> USE DEF TInv, RedisTypeOK, HistoryTypeOK, SessionInv, SessionTypeOK
<1>1. engine[w] # "none" /\ UNCHANGED lock
  BY DEF EngineStep, Validate, PublishSolution, PublishNewSolution, LeaveLoop,
     Iterate, Advance, Persist, PublishFinished, SendFinished, EnginePublishError,
     EngineSendError, EngineNotify, EngineGoes, SetSolution, SetState, SetStatus
<1>2. Loaded(w) /\ job[w] \in Tasks /\ lock[job[w]]
  <2>1. Loaded(w)
    BY <1>1 DEF XInv, EngineInSession, Loaded
  <2> QED
    BY <2>1, LoadedHasTask DEF XInv, Locked
<1>3. CASE Iterate(w)
  <2>1. /\ UNCHANGED <<state, completed>>
        /\ executed' = [executed EXCEPT ![job[w]] = @ \union {at[w]}]
        /\ Looping(w) /\ at[w] \in 0..Last
    BY <1>3, LastAssumption DEF Iterate, EngineGoes, Looping, Exhausted
  <2>2. CASE t = job[w]
    <3>1. 0..(at[w] - 1) \subseteq executed[t]
      BY <2>1, <2>2 DEF PInv, Backed
    <3>2. executed'[t] = executed[t] \union {at[w]}
      BY <2>1, <2>2
    <3>3. Run(t)!Execute
      BY <1>1, <1>2, <2>1, <2>2, <3>1, <3>2 DEF Run!Execute, Run!Iterations,
         Run!AllDoneBefore
    <3> QED
      BY <3>3 DEF Run!Next
  <2>3. CASE t # job[w]
    BY <1>1, <2>1, <2>3 DEF Run!vars
  <2> QED
    BY <2>2, <2>3
<1>4. CASE Persist(w)
  <2>1. UNCHANGED <<executed, completed>>
    BY <1>4 DEF Persist
  <2>2. CASE state'[t] = state[t]
    BY <1>1, <2>1, <2>2 DEF Run!vars
  <2>3. CASE state'[t] # state[t]
    <3>1. t = job[w] /\ state'[t] = container[w]
      BY <1>4, <2>3 DEF Persist, SetState
    <3>2. 0..(container[w] - 1) \subseteq executed[t] /\ container[w] \in {-1} \union 0..Last
      BY <1>2, <3>1 DEF PInv, Backed, Saved, NoState
    <3>3. Run(t)!Save
      BY <1>1, <1>2, <2>1, <3>1, <3>2 DEF Run!Save, Run!Checkpoints, Run!Iterations,
         Run!AllDoneBefore
    <3> QED
      BY <3>3 DEF Run!Next
  <2> QED
    BY <2>2, <2>3
<1>5. CASE PublishSolution(w)
  <2>1. /\ UNCHANGED <<state, executed>> /\ Looping(w)
        /\ completed' = IF Final(w) THEN completed \union {job[w]} ELSE completed
    BY <1>5 DEF PublishSolution, EngineGoes, SetSolution, Looping
  <2>2. CASE t = job[w] /\ Final(w)
    <3>1. at[w] = Last + 1
      BY <2>2 DEF Final, Exhausted
    <3>2. 0..Last \subseteq executed[t]
      BY <2>1, <2>2, <3>1, LastAssumption DEF PInv, Backed
    <3>3. executed[t] = 0..Last
      BY <3>2
    <3>4. Run(t)!Complete
      BY <1>1, <1>2, <2>1, <2>2, <3>3 DEF Run!Complete, Run!Iterations
    <3> QED
      BY <3>4 DEF Run!Next
  <2>3. CASE ~(t = job[w] /\ Final(w))
    <3>1. (t \in completed') = (t \in completed)
      BY <2>1, <2>3
    <3> QED
      BY <1>1, <2>1, <3>1 DEF Run!vars
  <2> QED
    BY <2>2, <2>3
<1>6. CASE ~Iterate(w) /\ ~Persist(w) /\ ~PublishSolution(w)
  <2>1. UNCHANGED <<state, executed, completed>>
    BY <1>6 DEF EngineStep, Validate, PublishNewSolution, LeaveLoop, Advance,
       PublishFinished, SendFinished, EnginePublishError, EngineSendError,
       EngineNotify, SetStatus
  <2> QED
    BY <1>1, <2>1 DEF Run!vars
<1> QED
  BY <1>3, <1>4, <1>5, <1>6

\* A step of the interrupt handler forgets a saved state at most.
LEMMA HandlerRun ==
  ASSUME TInv, NEW w \in Workers, HandlerStep(w), NEW t \in Tasks
  PROVE  [Run(t)!Next]_(Run(t)!vars)
<1>1. UNCHANGED <<lock, executed, completed>>
  BY DEF HandlerStep, Receive, RaiseInterrupted, PauseSession, PublishPaused,
     SendPaused, ClearState, HandlerNotify, SetStatus, SetState
<1>2. state'[t] = state[t] \/ state'[t] = -1
  BY DEF HandlerStep, Receive, RaiseInterrupted, PauseSession, PublishPaused,
     SendPaused, ClearState, HandlerNotify, SetStatus, SetState, TInv, RedisTypeOK,
     NoState
<1> QED
  BY <1>1, <1>2 DEF Run!vars, Run!Next, Run!Forget

\* A step of the system is a step of the run of each task, or none.
LEMMA StepRun ==
  TInv /\ XInv /\ PInv /\ [Next]_vars
     => \A t \in Tasks : [Run(t)!Next]_(Run(t)!vars)
<1> SUFFICES ASSUME TInv, XInv, PInv, [Next]_vars, NEW t \in Tasks
             PROVE  [Run(t)!Next]_(Run(t)!vars)
  OBVIOUS
<1>1. CASE WorkerNext
  <2>1. ASSUME NEW w \in Workers, Failure(w)
        PROVE  UNCHANGED <<lock, executed, state, completed>>
    BY <2>1 DEF Failure, ReplyIsError, WorkerThrows, CatchThrows, EngineThrows,
       ErrorCallbackThrows, HandlerThrows, Crash
  <2>2. ASSUME NEW w \in Workers, Failure(w)
        PROVE  [Run(t)!Next]_(Run(t)!vars)
    BY <2>1, <2>2 DEF Run!vars
  <2> QED
    BY <1>1, <2>2, MainRun, EngineRun, HandlerRun DEF WorkerNext
<1>2. CASE ~WorkerNext
  <2>1. UNCHANGED <<lock, executed, state, completed>>
    BY <1>2, ServerUntouched DEF Next
  <2> QED
    BY <2>1 DEF Run!vars
<1> QED
  BY <1>1, <1>2

\* Whatever calls fail and whichever workers crash: over all its sessions, on all
\* workers, a task is worked off in order.  No saved state is ahead of the work done,
\* and no final solution is published with an iteration left out.
THEOREM RunImplemented == Spec => TasksImplementResumableRun
<1>1. Spec => \A t \in Tasks : Run(t)!Init
  BY InitRun DEF Spec
<1>2. Spec => [][\A t \in Tasks : [Run(t)!Next]_(Run(t)!vars)]_vars
  BY InitProgress, StepProgress, StepRun, Invariance, PTL DEF Spec
<1> QED
  BY <1>1, <1>2 DEF TasksImplementResumableRun

----------------------------------------------------------------------------
(* What was saved.                                                         *)

\* The worker has loaded a state, and the algorithm has not looked at it yet.
Fresh(w) == Loaded(w) /\ engine[w] \in {"none", "validate"}

\* The worker may still persist what its container holds.
Saving(w) == Looping(w) \/ engine[w] = "persist"

\* The saved state of a task is the one its worker has loaded, unless it was
\* cleared since; what the worker is going to persist is not behind it, unless it
\* is refused; and the container never runs ahead of the algorithm.
KInv == \A w \in Workers :
    /\ Fresh(w) => state[job[w]] \in {container[w], NoState}
    /\ Saving(w) => state[job[w]] <= container[w] \/ state[job[w]] \in Rejected
    /\ Looping(w) => container[w] <= at[w]

\* All of this is about the task of the worker, which no other one works on.
LEMMA SavingHolds ==
  ASSUME TInv, XInv, NEW w \in Workers, Fresh(w) \/ Saving(w)
  PROVE  /\ Loaded(w) /\ job[w] \in Tasks
         /\ \A v \in Workers \ {w} : Fresh(v) \/ Saving(v) => job[v] # job[w]
<1>1. \A v \in Workers : Fresh(v) \/ Saving(v) => Loaded(v)
  BY DEF XInv, EngineInSession, Fresh, Saving, Looping, Loaded
<1> QED
  BY <1>1, LoadedHasTask DEF XInv, Exclusive

\* A step that at most clears a state, and takes no worker to a new iteration.
LEMMA SavedStable ==
  ASSUME TInv, XInv, KInv,
         \A t \in Tasks : state'[t] \in {state[t], NoState},
         \A w \in Workers : Fresh(w)' =>
            Fresh(w) /\ job'[w] = job[w] /\ container'[w] = container[w],
         \A w \in Workers : Saving(w)' =>
            Saving(w) /\ job'[w] = job[w] /\ container'[w] = container[w],
         \A w \in Workers : Looping(w)' => Looping(w) /\ at'[w] = at[w]
  PROVE  KInv'
<1> SUFFICES ASSUME NEW w \in Workers
             PROVE  /\ Fresh(w)' => state'[job'[w]] \in {container'[w], NoState}
                    /\ Saving(w)' => \/ state'[job'[w]] <= container'[w]
                                     \/ state'[job'[w]] \in Rejected
                    /\ Looping(w)' => container'[w] <= at'[w]
  BY DEF KInv
<1>1. container[w] \in Int /\ NoState <= container[w]
  BY LastAssumption DEF TInv, SessionInv, SessionTypeOK, Saved, NoState
<1>2. ASSUME Fresh(w)' PROVE state'[job'[w]] \in {container'[w], NoState}
  BY <1>2, SavingHolds DEF KInv
<1>3. ASSUME Saving(w)'
      PROVE  state'[job'[w]] <= container'[w] \/ state'[job'[w]] \in Rejected
  BY <1>1, <1>3, SavingHolds DEF KInv
<1>4. ASSUME Looping(w)' PROVE container'[w] <= at'[w]
  BY <1>4 DEF KInv, Saving
<1> QED
  BY <1>2, <1>3, <1>4

\* The main thread loads the state that is saved, if Redis gives it.
LEMMA MainKept ==
  ASSUME "store" \notin FaultKinds, TInv, XInv, KInv, NEW w \in Workers, MainStep(w)
  PROVE  KInv'
<1> USE DEF TInv, LoopInv, LoopTypeOK, SessionInv, SessionTypeOK
<1>1. UNCHANGED state
  BY DEF MainStep, NextTask, TryLock, IsFinished, IsPaused, IncAttempts,
     RetrieveTask, LoadState, PublishStarted, SendStarted, SolveTsp, Subscribe,
     WaitUntil, SendInProgress, Close, Join, PublishError, SendError, Unsubscribe,
     Unlock, SetLock, SetStatus
<1>2. CASE NextTask(w) \/ TryLock(w) \/ Unlock(w)
  <2>1. UNCHANGED <<engine, container, at>>
    BY <1>2 DEF NextTask, TryLock, Unlock, SetLock
  <2>2. engine[w] = "none"
    BY <1>2 DEF NextTask, TryLock, Unlock, WorkerGoes, XInv, EngineInSession,
       InSession
  <2>3. /\ worker'[w] \in {"tryLock", "idle", "isFinished"}
        /\ \A v \in Workers \ {w} : worker'[v] = worker[v] /\ job'[v] = job[v]
    BY <1>2 DEF NextTask, TryLock, Unlock, LoopAgain, WorkerGoes
  <2> QED
    BY <1>1, <2>1, <2>2, <2>3, SavedStable DEF Fresh, Saving, Loaded, InSession,
       Looping
<1>3. CASE LoadState(w)
  <2>1. /\ UNCHANGED <<job, engine, at>>
        /\ engine[w] = "none"
        /\ container'[w] = state[job[w]]
        /\ \A v \in Workers \ {w} : /\ worker'[v] = worker[v]
                                     /\ container'[v] = container[v]
    BY <1>3 DEF LoadState, WorkerGoes, Fault, XInv, EngineInSession, InSession
  <2> QED
    BY <1>1, <2>1 DEF KInv, Fresh, Saving, Loaded, InSession, Looping
<1>4. CASE \/ IsFinished(w) \/ IsPaused(w) \/ IncAttempts(w) \/ RetrieveTask(w)
           \/ PublishStarted(w) \/ SendStarted(w) \/ Subscribe(w) \/ WaitUntil(w)
           \/ SendInProgress(w) \/ Close(w) \/ PublishError(w) \/ SendError(w)
           \/ Unsubscribe(w)
  <2>1. UNCHANGED <<job, engine, container, at>>
    BY <1>4 DEF IsFinished, IsPaused, IncAttempts, RetrieveTask, PublishStarted,
       SendStarted, Subscribe, WaitUntil, SendInProgress, Close, PublishError,
       SendError, Unsubscribe, SetStatus
  <2>2. \A v \in Workers : Loaded(v)' => Loaded(v)
    BY <1>4 DEF IsFinished, IsPaused, IncAttempts, RetrieveTask, PublishStarted,
       SendStarted, Subscribe, WaitUntil, SendInProgress, Close, PublishError,
       SendError, Unsubscribe, WorkerGoes, Loaded, InSession
  <2> QED
    BY <1>1, <2>1, <2>2, SavedStable DEF Fresh, Saving, Looping
<1>5. CASE SolveTsp(w)
  <2>1. /\ UNCHANGED <<job, container, at>>
        /\ worker[w] = "solve" /\ engine[w] = "none" /\ engine'[w] = "validate"
        /\ \A v \in Workers \ {w} : worker'[v] = worker[v] /\ engine'[v] = engine[v]
    BY <1>5 DEF SolveTsp, WorkerGoes, XInv, EngineInSession, InSession
  <2> QED
    BY <1>1, <2>1, SavedStable DEF Fresh, Saving, Loaded, InSession, Looping
<1>6. CASE Join(w)
  <2>1. /\ UNCHANGED job
        /\ engine'[w] = "none" /\ worker'[w] \in {"unsubscribe", "publishError"}
        /\ \A v \in Workers \ {w} :
              /\ worker'[v] = worker[v] /\ engine'[v] = engine[v]
              /\ container'[v] = container[v] /\ at'[v] = at[v]
    BY <1>6 DEF Join, NoSession, WorkerGoes
  <2> QED
    BY <1>1, <2>1, SavedStable DEF Fresh, Saving, Loaded, InSession, Looping
<1> QED
  BY <1>2, <1>3, <1>4, <1>5, <1>6 DEF MainStep

\* The engine thread only moves its container on, and persists it last.
LEMMA EngineKept ==
  ASSUME TInv, XInv, KInv, NEW w \in Workers, EngineStep(w)
  PROVE  KInv'
<1> USE DEF TInv, SessionInv, SessionTypeOK, RedisTypeOK
<1>1. UNCHANGED <<worker, job>>
  BY DEF EngineStep, Validate, PublishSolution, PublishNewSolution, LeaveLoop,
     Iterate, Advance, Persist, PublishFinished, SendFinished, EnginePublishError,
     EngineSendError, EngineNotify
<1>2. CASE Validate(w)
  <2>1. /\ UNCHANGED state
        /\ engine[w] = "validate" /\ engine'[w] = "solution"
        /\ container'[w] = IF container[w] \in Rejected THEN NoState ELSE container[w]
        /\ at'[w] = IF container'[w] = NoState THEN 0 ELSE container'[w]
        /\ \A v \in Workers \ {w} :
              /\ engine'[v] = engine[v]
              /\ container'[v] = container[v] /\ at'[v] = at[v]
    BY <1>2 DEF Validate, EngineGoes
  <2>2. Fresh(w)
    BY <2>1 DEF XInv, EngineInSession, Fresh, Loaded
  <2>3. state[job[w]] \in {container[w], NoState} /\ container[w] \in Saved
    BY <2>2 DEF KInv
  <2>4. \/ state'[job'[w]] <= container'[w]
        \/ state'[job'[w]] \in Rejected
    BY <1>1, <2>1, <2>3, LastAssumption DEF Saved, NoState
  <2>5. container'[w] <= at'[w]
    BY <2>1, <2>3, LastAssumption DEF Saved, NoState
  <2> QED
    BY <1>1, <2>1, <2>4, <2>5 DEF KInv, Fresh, Saving, Loaded, InSession, Looping
<1>3. CASE Advance(w)
  <2>1. /\ UNCHANGED state
        /\ engine[w] = "advance" /\ engine'[w] = "test"
        /\ at'[w] = at[w] + 1
        /\ container'[w] \in {container[w], at[w] + 1}
        /\ \A v \in Workers \ {w} :
              /\ engine'[v] = engine[v]
              /\ container'[v] = container[v] /\ at'[v] = at[v]
    BY <1>3 DEF Advance, EngineGoes
  <2>2. /\ Saving(w) /\ Looping(w)
        /\ container[w] \in Int /\ at[w] \in Int /\ container[w] <= at[w]
    BY <2>1, LastAssumption DEF KInv, Saving, Looping, Saved, NoState, Exhausted
  <2>3. job[w] \in Tasks /\ state[job[w]] \in Int
    BY <2>2, SavingHolds DEF Saved, NoState
  <2>4. container[w] <= container'[w] /\ container'[w] <= at'[w]
    BY <2>1, <2>2
  <2>5. \/ state'[job'[w]] <= container'[w]
        \/ state'[job'[w]] \in Rejected
    BY <1>1, <2>1, <2>2, <2>3, <2>4 DEF KInv
  <2> QED
    BY <1>1, <2>1, <2>4, <2>5 DEF KInv, Fresh, Saving, Loaded, InSession, Looping
<1>4. CASE Persist(w)
  <2>1. /\ UNCHANGED <<container, at>>
        /\ engine[w] = "persist" /\ engine'[w] = "ended"
        /\ \A v \in Workers \ {w} : engine'[v] = engine[v]
        /\ \A t \in Tasks : t # job[w] => state'[t] = state[t]
    BY <1>4 DEF Persist, EngineGoes, SetState
  <2>2. \A v \in Workers \ {w} :
           Fresh(v) \/ Saving(v) => job[v] \in Tasks /\ job[v] # job[w]
    BY <2>1, SavingHolds DEF Saving
  <2>3. \A v \in Workers : Fresh(v)' \/ Saving(v)' =>
           v # w /\ state'[job[v]] = state[job[v]]
    BY <1>1, <2>1, <2>2 DEF Fresh, Saving, Loaded, InSession, Looping
  <2> QED
    BY <1>1, <2>1, <2>3 DEF KInv, Fresh, Saving, Loaded, InSession, Looping
<1>5. CASE \/ PublishSolution(w) \/ PublishNewSolution(w) \/ LeaveLoop(w)
           \/ Iterate(w) \/ PublishFinished(w) \/ SendFinished(w)
           \/ EnginePublishError(w) \/ EngineSendError(w) \/ EngineNotify(w)
  <2>1. /\ UNCHANGED <<state, container, at>>
        /\ engine[w] # "none" /\ engine'[w] \notin {"none", "validate"}
        /\ \A v \in Workers \ {w} : engine'[v] = engine[v]
    BY <1>5 DEF PublishSolution, PublishNewSolution, LeaveLoop, Iterate,
       PublishFinished, SendFinished, EnginePublishError, EngineSendError,
       EngineNotify, EngineGoes, SetSolution, SetStatus, Announced
  <2>2. (Looping(w)' => Looping(w)) /\ (Saving(w)' => Saving(w))
    BY <1>5 DEF PublishSolution, PublishNewSolution, LeaveLoop, Iterate,
       PublishFinished, SendFinished, EnginePublishError, EngineSendError,
       EngineNotify, EngineGoes, Announced, Looping, Saving
  <2> QED
    BY <1>1, <2>1, <2>2, SavedStable DEF Fresh, Saving, Loaded, InSession, Looping
<1> QED
  BY <1>2, <1>3, <1>4, <1>5 DEF EngineStep

\* The interrupt handler only clears a state, ...
LEMMA HandlerKept ==
  ASSUME TInv, XInv, KInv, NEW w \in Workers, HandlerStep(w)
  PROVE  KInv'
<1>1. UNCHANGED <<worker, job, engine, container, at>>
  BY DEF HandlerStep, Receive, RaiseInterrupted, PauseSession, PublishPaused,
     SendPaused, ClearState, HandlerNotify, SetStatus, SetState
<1>2. \A t \in Tasks : state'[t] \in {state[t], NoState}
  BY DEF HandlerStep, Receive, RaiseInterrupted, PauseSession, PublishPaused,
     SendPaused, ClearState, HandlerNotify, SetStatus, SetState, TInv, RedisTypeOK
<1> QED
  BY <1>1, <1>2, SavedStable DEF Fresh, Saving, Loaded, InSession, Looping

\* ... a failure or a crash only drops what a worker has loaded.
LEMMA FailureKept ==
  ASSUME TInv, XInv, KInv, NEW w \in Workers, Failure(w)
  PROVE  KInv'
<1> USE DEF TInv, LoopInv, LoopTypeOK, SessionInv, SessionTypeOK
<1>1. UNCHANGED <<job, state>>
  BY DEF Failure, ReplyIsError, WorkerThrows, CatchThrows, EngineThrows,
     ErrorCallbackThrows, HandlerThrows, Crash, LoopAgain
<1>2. CASE ReplyIsError(w) \/ WorkerThrows(w) \/ CatchThrows(w) \/ HandlerThrows(w)
  <2>1. UNCHANGED <<engine, container, at>>
    BY <1>2 DEF ReplyIsError, WorkerThrows, CatchThrows, HandlerThrows
  <2>2. \A v \in Workers : Loaded(v)' => Loaded(v)
    BY <1>2 DEF ReplyIsError, WorkerThrows, CatchThrows, HandlerThrows, LoopAgain,
       WorkerGoes, Loaded, InSession
  <2> QED
    BY <1>1, <2>1, <2>2, SavedStable DEF Fresh, Saving, Looping
<1>3. CASE EngineThrows(w) \/ ErrorCallbackThrows(w)
  <2>1. UNCHANGED <<worker, container, at>>
    BY <1>3 DEF EngineThrows, ErrorCallbackThrows
  <2>2. \A v \in Workers :
          engine'[v] = engine[v] \/ engine'[v] \in {"publishError", "ended"}
    BY <1>3 DEF EngineThrows, ErrorCallbackThrows, EngineGoes
  <2> QED
    BY <1>1, <2>1, <2>2, SavedStable DEF Fresh, Saving, Loaded, InSession, Looping
<1>4. CASE Crash(w)
  <2>1. /\ worker'[w] = "idle" /\ engine'[w] = "none"
        /\ \A v \in Workers \ {w} :
              /\ worker'[v] = worker[v] /\ engine'[v] = engine[v]
              /\ container'[v] = container[v] /\ at'[v] = at[v]
    BY <1>4 DEF Crash, LoopAgain, NoSession
  <2> QED
    BY <1>1, <2>1, SavedStable DEF Fresh, Saving, Loaded, InSession, Looping
<1> QED
  BY <1>2, <1>3, <1>4 DEF Failure

\* The invariant about saved states is kept by every step of the system.
LEMMA StepKept ==
  ASSUME "store" \notin FaultKinds
  PROVE  TInv /\ XInv /\ KInv /\ [Next]_vars => KInv'
<1> SUFFICES ASSUME TInv, XInv, KInv, [Next]_vars PROVE KInv'
  OBVIOUS
<1>1. CASE WorkerNext
  BY <1>1, MainKept, EngineKept, HandlerKept, FailureKept DEF WorkerNext
<1>2. CASE ~WorkerNext
  <2>1. UNCHANGED <<state, workerVars>>
    BY <1>2, ServerUntouched DEF Next
  <2> QED
    BY <2>1, SavedStable DEF Fresh, Saving, Loaded, InSession, Looping
<1> QED
  BY <1>1, <1>2

\* A state that is replaced by an earlier one is refused by the algorithm, or is
\* cleared by an interrupt handler.
LEMMA StepKeepsSaved ==
  ASSUME TInv, XInv, KInv, [Next]_vars, NEW t \in Tasks, state'[t] < state[t],
         state[t] \notin Rejected
  PROVE  \E w \in Workers : handler[w] = "clear" /\ handler'[w] = "notify"
<1> USE DEF TInv, RedisTypeOK
<1>1. state[t] \in Int /\ state'[t] # state[t]
  BY LastAssumption DEF Saved, NoState
<1>2. PICK w \in Workers : Persist(w) \/ ClearState(w)
  <2>1. WorkerNext
    BY <1>1, ServerUntouched DEF Next
  <2>2. ASSUME NEW w \in Workers, MainStep(w) \/ Failure(w) PROVE UNCHANGED state
    BY <2>2 DEF MainStep, NextTask, TryLock, IsFinished, IsPaused, IncAttempts,
       RetrieveTask, LoadState, PublishStarted, SendStarted, SolveTsp, Subscribe,
       WaitUntil, SendInProgress, Close, Join, PublishError, SendError, Unsubscribe,
       Unlock, SetLock, SetStatus, Failure, ReplyIsError, WorkerThrows, CatchThrows,
       EngineThrows, ErrorCallbackThrows, HandlerThrows, Crash
  <2>3. ASSUME NEW w \in Workers, EngineStep(w), ~Persist(w) PROVE UNCHANGED state
    BY <2>3 DEF EngineStep, Validate, PublishSolution, PublishNewSolution, LeaveLoop,
       Iterate, Advance, PublishFinished, SendFinished, EnginePublishError,
       EngineSendError, EngineNotify, SetSolution, SetStatus
  <2>4. ASSUME NEW w \in Workers, HandlerStep(w), ~ClearState(w)
        PROVE  UNCHANGED state
    BY <2>4 DEF HandlerStep, Receive, RaiseInterrupted, PauseSession, PublishPaused,
       SendPaused, HandlerNotify, SetStatus
  <2> QED
    BY <1>1, <2>1, <2>2, <2>3, <2>4 DEF WorkerNext
<1>3. ~Persist(w)
  <2>1. ASSUME Persist(w) PROVE FALSE
    <3>1. engine[w] = "persist" /\ t = job[w] /\ state'[t] = container[w]
      BY <1>1, <2>1 DEF Persist, EngineGoes, SetState
    <3>2. state[t] <= container[w]
      BY <3>1 DEF KInv, Saving
    <3>3. container[w] \in Int
      BY LastAssumption DEF SessionInv, SessionTypeOK, Saved, NoState
    <3> QED
      BY <1>1, <3>1, <3>2, <3>3
  <2> QED
    BY <2>1
<1>4. handler[w] = "clear" /\ handler'[w] = "notify"
  BY <1>2, <1>3 DEF ClearState, HandlerGoes, ListenerTypeOK
<1> QED
  BY <1>4

\* If Redis gives and takes what it is asked for, pausing and resuming a task, on
\* whichever worker and whatever else fails, loses nothing that was saved.
THEOREM SavedKept ==
  ASSUME "store" \notin FaultKinds
  PROVE  Spec => SavedProgressKept
<1>1. Init => KInv
  BY DEF Init, WorkerInit, KInv, Fresh, Saving, Loaded, InSession, Looping
<1>2. TInv /\ XInv /\ KInv /\ [Next]_vars => KInv'
  BY StepKept
<1>3. TInv /\ XInv /\ KInv /\ [Next]_vars =>
        \A t \in Tasks : state'[t] < state[t] =>
          \/ state[t] \in Rejected
          \/ \E w \in Workers : handler[w] = "clear" /\ handler'[w] = "notify"
  BY StepKeepsSaved
<1> QED
  BY <1>1, <1>2, <1>3, Invariance, PTL DEF Spec, SavedProgressKept

----------------------------------------------------------------------------
(* What LockReleased rests on: who has a locked task always has a thread   *)
(* that goes on, and the engine thread does not go on for ever.            *)

\* The main thread is before the destructor of the session.
Early(w) == worker[w] \in {"subscribe", "wait", "sendInProgress"}

\* It need not wait any more, or the interrupt handler is about to tell it so.
Woken(w) == done[w] \/ handler[w] \in {"publish", "send", "clear", "notify"}

\* The task that is locked is at a worker's, and not one that hangs.
Held == \A t \in Tasks : lock[t] =>
    \E w \in Workers : Holding(w) /\ worker[w] # "hung" /\ job[w] = t

\* A session that is interrupted, or has ended, does so with a main thread that knows
\* of it or will; without a failure its last step but one is to say so.
Awake(w) ==
    /\ InSession(w) => engine[w] # "none"
    /\ Early(w) /\ is_interrupted[w] => Woken(w)
    /\ Early(w) /\ engine[w] = "ended" => Woken(w)
    /\ engine[w] = "persist" => is_interrupted[w]
    /\ engine[w] \in {"solution", "announce"} /\ back[w] = "persist" /\ at[w] # Exhausted
           => is_interrupted[w]
    /\ engine[w] \in {"publishError", "sendError"} => faults > 0

WInv == Held /\ \A w \in Workers : Awake(w)

\* Processes do not die, Redis answers, neither the catch block nor the handler fails,
\* and the error callback does not fail after the error it is called for.
FewFailures ==
    /\ MaxCrashes = 0
    /\ FaultKinds \subseteq {"worker", "engine"}
    /\ "engine" \in FaultKinds => MaxFaults <= 1

\* What a worker does is its own.
LEMMA OthersAwake ==
  ASSUME TInv, WInv, NEW w \in Workers, faults' \in Nat, faults <= faults',
         \A v \in Workers \ {w} :
             UNCHANGED <<worker[v], done[v], engine[v], back[v], at[v],
                         is_interrupted[v], handler[v]>>,
         Awake(w)'
  PROVE  \A v \in Workers : Awake(v)'
<1> SUFFICES ASSUME NEW v \in Workers, v # w PROVE Awake(v)'
  OBVIOUS
<1>1. faults \in Nat
  BY DEF TInv, FailuresTypeOK
<1> QED
  BY <1>1 DEF WInv, Awake, InSession, Early, Woken

\* A worker on its way to unlock keeps the task it has.
LEMMA HeldStable ==
  ASSUME TInv, Held, NEW w \in Workers, UNCHANGED <<job, lock>>,
         \A v \in Workers \ {w} : worker'[v] = worker[v],
         Holding(w) /\ worker[w] # "hung" => Holding(w)' /\ worker'[w] # "hung"
  PROVE  Held'
<1> SUFFICES ASSUME NEW t \in Tasks, lock[t]
             PROVE  \E v \in Workers : (Holding(v) /\ worker[v] # "hung")' /\ job[v] = t
  BY DEF Held
<1>1. PICK v \in Workers : Holding(v) /\ worker[v] # "hung" /\ job[v] = t
  BY DEF Held
<1>2. (Holding(v) /\ worker[v] # "hung")'
  BY <1>1 DEF Holding
<1> QED
  BY <1>1, <1>2

\* The main thread does not leave a task without unlocking it, and waits only as long
\* as somebody has something to say to it.
LEMMA MainAwake ==
  ASSUME TInv, XInv, WInv, FewFailures, NEW w \in Workers, MainStep(w)
  PROVE  WInv'
<1> USE DEF WInv, TInv, LoopInv, LoopTypeOK, SessionInv, SessionTypeOK
<1>1. CASE TryLock(w)
  <2>1. job[w] \in Tasks /\ lock \in [Tasks -> BOOLEAN]
    BY <1>1 DEF TryLock, JobKnown, RedisTypeOK
  <2>2. Held'
    <3> SUFFICES ASSUME NEW t \in Tasks, lock'[t]
                 PROVE  \E v \in Workers : (Holding(v) /\ worker[v] # "hung")' /\ job'[v] = t
      BY DEF Held
    <3>1. CASE lock[t]
      <4>1. PICK v \in Workers : Holding(v) /\ worker[v] # "hung" /\ job[v] = t
        BY <3>1 DEF Held
      <4>2. v # w
        BY <1>1, <4>1 DEF TryLock, Holding
      <4>3. worker'[v] = worker[v] /\ job'[v] = job[v]
        BY <1>1, <4>2 DEF TryLock, WorkerGoes, LoopAgain
      <4> QED
        BY <4>1, <4>3 DEF Holding
    <3>2. CASE ~lock[t]
      <4>1. t = job[w] /\ ~lock[job[w]]
        BY <1>1, <2>1, <3>2 DEF TryLock, SetLock
      <4>2. worker'[w] = "isFinished" /\ job'[w] = job[w]
        BY <1>1, <4>1 DEF TryLock, WorkerGoes
      <4> QED
        BY <4>1, <4>2 DEF Holding
    <3> QED
      BY <3>1, <3>2
  <2>3. worker'[w] \in {"idle", "isFinished"} /\ engine[w] = "none"
    BY <1>1 DEF TryLock, WorkerGoes, LoopAgain, XInv, EngineInSession, InSession
  <2>4. Awake(w)'
    BY <1>1, <2>3 DEF TryLock, Awake, InSession, Early
  <2> QED
    BY <1>1, <2>2, <2>4, OthersAwake
       DEF TryLock, WorkerGoes, LoopAgain, FailuresTypeOK
<1>2. CASE Unlock(w)
  <2>1. Held'
    <3> SUFFICES ASSUME NEW t \in Tasks, lock'[t]
                 PROVE  \E v \in Workers : (Holding(v) /\ worker[v] # "hung")' /\ job'[v] = t
      BY DEF Held
    <3>1. lock[t] /\ t # job[w]
      BY <1>2 DEF Unlock, SetLock, RedisTypeOK
    <3>2. PICK v \in Workers : Holding(v) /\ worker[v] # "hung" /\ job[v] = t
      BY <3>1 DEF Held
    <3>3. worker'[v] = worker[v] /\ job'[v] = job[v]
      BY <1>2, <3>1, <3>2 DEF Unlock, LoopAgain
    <3> QED
      BY <3>2, <3>3 DEF Holding
  <2>2. worker'[w] = "idle" /\ engine[w] = "none"
    BY <1>2 DEF Unlock, LoopAgain, XInv, EngineInSession, InSession
  <2>3. Awake(w)'
    BY <1>2, <2>2 DEF Unlock, Awake, InSession, Early
  <2>4. /\ \A v \in Workers \ {w} :
            UNCHANGED <<worker[v], done[v], engine[v], back[v], at[v],
                        is_interrupted[v], handler[v]>>
        /\ faults' \in Nat /\ faults <= faults'
    BY <1>2 DEF Unlock, LoopAgain, FailuresTypeOK
  <2> QED
    BY <2>1, <2>3, <2>4, OthersAwake
<1>3. CASE NextTask(w)
  <2>1. worker[w] = "idle" /\ worker' = [worker EXCEPT ![w] = "tryLock"] /\ engine[w] = "none"
    BY <1>3 DEF NextTask, WorkerGoes, XInv, EngineInSession, InSession
  <2>2. Held'
    <3> SUFFICES ASSUME NEW t \in Tasks, lock[t]
                 PROVE  \E v \in Workers : (Holding(v) /\ worker[v] # "hung")' /\ job'[v] = t
      BY <1>3 DEF NextTask, Held
    <3>1. PICK v \in Workers : Holding(v) /\ worker[v] # "hung" /\ job[v] = t
      BY DEF Held
    <3>2. v # w
      BY <2>1, <3>1 DEF Holding
    <3> QED
      BY <1>3, <2>1, <3>1, <3>2 DEF NextTask, Holding
  <2>3. Awake(w)'
    BY <1>3, <2>1 DEF NextTask, Awake, InSession, Early
  <2> QED
    BY <1>3, <2>1, <2>2, <2>3, OthersAwake DEF NextTask, FailuresTypeOK
<1>4. CASE \/ IsFinished(w) \/ IsPaused(w) \/ IncAttempts(w) \/ RetrieveTask(w)
           \/ LoadState(w) \/ PublishStarted(w) \/ SendStarted(w)
           \/ PublishError(w) \/ SendError(w) \/ Unsubscribe(w)
  <2>1. /\ engine[w] = "none" /\ ~InSession(w)' /\ Holding(w)' /\ worker'[w] # "hung"
        /\ worker' = [worker EXCEPT ![w] = worker'[w]]
        /\ UNCHANGED <<job, lock, done, engine, back, at, is_interrupted, handler>>
    BY <1>4 DEF IsFinished, IsPaused, IncAttempts, RetrieveTask, LoadState,
       PublishStarted, SendStarted, PublishError, SendError, Unsubscribe, SetStatus,
       WorkerGoes, Holding, InSession, XInv, EngineInSession
  <2>2. faults' \in Nat /\ faults <= faults'
    BY <1>4 DEF IsFinished, IsPaused, IncAttempts, RetrieveTask, LoadState,
       PublishStarted, SendStarted, PublishError, SendError, Unsubscribe, Fault,
       FailuresTypeOK
  <2>3. Awake(w)'
    BY <2>1 DEF Awake, InSession, Early
  <2> QED
    BY <2>1, <2>2, <2>3, HeldStable, OthersAwake
<1>5. CASE SolveTsp(w)
  <2>1. Awake(w)'
    BY <1>5 DEF SolveTsp, WorkerGoes, Awake, Early, InSession
  <2>2. Held'
    BY <1>5, HeldStable DEF SolveTsp, WorkerGoes, Holding
  <2>3. /\ \A v \in Workers \ {w} :
            UNCHANGED <<worker[v], done[v], engine[v], back[v], at[v],
                        is_interrupted[v], handler[v]>>
        /\ faults' \in Nat /\ faults <= faults'
    BY <1>5 DEF SolveTsp, WorkerGoes, FailuresTypeOK
  <2> QED
    BY <2>1, <2>2, <2>3, OthersAwake
<1>6. CASE Subscribe(w) \/ WaitUntil(w) \/ SendInProgress(w)
  <2>1. /\ Early(w) /\ InSession(w) /\ InSession(w)' /\ Holding(w)' /\ worker'[w] # "hung"
        /\ worker' = [worker EXCEPT ![w] = worker'[w]]
        /\ UNCHANGED <<job, lock, done, engine, back, at, is_interrupted, handler, faults>>
    BY <1>6 DEF Subscribe, WaitUntil, SendInProgress, SetStatus, WorkerGoes, Holding,
       InSession, Early
  <2>2. Awake(w)'
    BY <2>1 DEF Awake, Early, Woken
  <2> QED
    BY <2>1, <2>2, HeldStable, OthersAwake DEF FailuresTypeOK
<1>7. CASE Close(w)
  <2>1. /\ InSession(w) /\ InSession(w)' /\ ~Early(w)' /\ Holding(w)' /\ worker'[w] # "hung"
        /\ worker' = [worker EXCEPT ![w] = worker'[w]] /\ is_interrupted'[w]
        /\ is_interrupted' = [is_interrupted EXCEPT ![w] = TRUE]
        /\ UNCHANGED <<job, lock, done, engine, back, at, handler, faults>>
    BY <1>7 DEF Close, WorkerGoes, Holding, InSession, Early
  <2>2. Awake(w)'
    BY <2>1 DEF Awake
  <2>3. /\ \A v \in Workers \ {w} :
            UNCHANGED <<worker[v], done[v], engine[v], back[v], at[v],
                        is_interrupted[v], handler[v]>>
        /\ faults' \in Nat /\ faults <= faults'
    BY <2>1 DEF FailuresTypeOK
  <2>4. Held'
    BY <2>1, HeldStable
  <2> QED
    BY <2>2, <2>3, <2>4, OthersAwake
<1>8. CASE Join(w)
  <2>1. /\ ~InSession(w)' /\ ~Early(w)' /\ Holding(w)' /\ worker'[w] # "hung"
        /\ worker' = [worker EXCEPT ![w] = worker'[w]] /\ engine'[w] = "none"
        /\ UNCHANGED <<job, lock, done, is_interrupted, handler, faults>>
    BY <1>8 DEF Join, NoSession, WorkerGoes, Holding, InSession, Early
  <2>2. Awake(w)'
    BY <2>1 DEF Awake
  <2> QED
    BY <1>8, <2>1, <2>2, HeldStable, OthersAwake DEF Join, NoSession, FailuresTypeOK
<1> QED
  BY <1>1, <1>2, <1>3, <1>4, <1>5, <1>6, <1>7, <1>8 DEF MainStep

\* The engine thread ends after it was interrupted, or with a notification.
LEMMA EngineAwake ==
  ASSUME TInv, XInv, WInv, FewFailures, NEW w \in Workers, EngineStep(w)
  PROVE  WInv'
<1> USE DEF WInv, TInv, SessionInv, SessionTypeOK
<1>1. /\ UNCHANGED <<worker, job, lock, is_interrupted, handler>>
      /\ faults' \in Nat /\ faults <= faults'
      /\ \A v \in Workers \ {w} : UNCHANGED <<done[v], engine[v], back[v], at[v]>>
      /\ done[w] => done'[w]
  BY DEF EngineStep, Validate, PublishSolution, PublishNewSolution, LeaveLoop,
     Iterate, Advance, Persist, PublishFinished, SendFinished, EnginePublishError,
     EngineSendError, EngineNotify, SetSolution, SetState, SetStatus, EngineGoes, Fault,
     FailuresTypeOK, LoopInv, LoopTypeOK
<1>2. Held'
  BY <1>1, HeldStable DEF Holding
<1>3. engine'[w] # "none"
  BY DEF EngineStep, Validate, PublishSolution, PublishNewSolution, LeaveLoop,
     Iterate, Advance, Persist, PublishFinished, SendFinished, EnginePublishError,
     EngineSendError, EngineNotify, EngineGoes, Announced
<1>4. engine'[w] = "persist" => is_interrupted[w]
  BY DEF EngineStep, Validate, PublishSolution, PublishNewSolution, LeaveLoop,
     Iterate, Advance, Persist, PublishFinished, SendFinished, EnginePublishError,
     EngineSendError, EngineNotify, EngineGoes, Announced, Final, Awake
<1>5. engine'[w] \in {"solution", "announce"} /\ back'[w] = "persist" /\ at'[w] # Exhausted
          => is_interrupted[w]
  BY DEF EngineStep, Validate, PublishSolution, PublishNewSolution, LeaveLoop,
     Iterate, Advance, Persist, PublishFinished, SendFinished, EnginePublishError,
     EngineSendError, EngineNotify, EngineGoes, Announced, Final, Awake
<1>6. engine'[w] = "ended" => is_interrupted[w] \/ done'[w]
  BY DEF EngineStep, Validate, PublishSolution, PublishNewSolution, LeaveLoop,
     Iterate, Advance, Persist, PublishFinished, SendFinished, EnginePublishError,
     EngineSendError, EngineNotify, EngineGoes, Announced, Final, Awake, LoopInv,
     LoopTypeOK
<1>7. engine'[w] \in {"publishError", "sendError"} => faults > 0
  BY DEF EngineStep, Validate, PublishSolution, PublishNewSolution, LeaveLoop,
     Iterate, Advance, Persist, PublishFinished, SendFinished, EnginePublishError,
     EngineSendError, EngineNotify, EngineGoes, Announced, Final, Awake
<1>8. Awake(w)'
  BY <1>1, <1>3, <1>4, <1>5, <1>6, <1>7 DEF Awake, Early, Woken, InSession, FailuresTypeOK
<1> QED
  BY <1>1, <1>2, <1>8, OthersAwake

\* A handler that has interrupted the session goes on to wake the main thread.
LEMMA HandlerAwake ==
  ASSUME TInv, XInv, WInv, FewFailures, NEW w \in Workers, HandlerStep(w)
  PROVE  WInv'
<1> USE DEF WInv, TInv, SessionInv, SessionTypeOK
<1>1. /\ UNCHANGED <<worker, job, lock, engine, back, at>>
      /\ faults' \in Nat /\ faults <= faults'
      /\ \A v \in Workers \ {w} : UNCHANGED <<done[v], handler[v], is_interrupted[v]>>
  <2> USE DEF FailuresTypeOK, ListenerTypeOK, LoopInv, LoopTypeOK
  <2>1. CASE Receive(w) \/ RaiseInterrupted(w) \/ PauseSession(w) \/ PublishPaused(w)
    BY <2>1 DEF Receive, RaiseInterrupted, PauseSession, PublishPaused, HandlerGoes
  <2>2. CASE SendPaused(w) \/ ClearState(w) \/ HandlerNotify(w)
    BY <2>2 DEF SendPaused, ClearState, HandlerNotify, HandlerGoes, SetStatus, SetState,
                Fault
  <2> QED
    BY <2>1, <2>2 DEF HandlerStep
<1>2. Held'
  BY <1>1, HeldStable DEF Holding
<1>3. Woken(w) => Woken(w)'
  BY DEF HandlerStep, Receive, RaiseInterrupted, PauseSession, PublishPaused,
     SendPaused, ClearState, HandlerNotify, HandlerGoes, Woken, ListenerTypeOK, LoopInv,
     LoopTypeOK
<1>4. \/ is_interrupted'[w] = is_interrupted[w]
      \/ is_interrupted'[w] = TRUE /\ Woken(w)'
  BY DEF HandlerStep, Receive, RaiseInterrupted, PauseSession, PublishPaused,
     SendPaused, ClearState, HandlerNotify, HandlerGoes, Woken, ListenerTypeOK
<1>5. Awake(w)'
  BY <1>1, <1>3, <1>4 DEF Awake, Early, InSession, FailuresTypeOK
<1> QED
  BY <1>1, <1>2, <1>5, OthersAwake

\* A failure that is left over brings the main thread, or the engine thread, to where
\* errors are reported.
LEMMA FailureAwake ==
  ASSUME TInv, XInv, WInv, FewFailures, NEW w \in Workers, Failure(w)
  PROVE  WInv'
<1> USE DEF WInv, TInv, SessionInv, SessionTypeOK, LoopInv, LoopTypeOK
<1>1. WorkerThrows(w) \/ EngineThrows(w)
  <2>1. ~Crash(w)
    BY DEF Crash, FewFailures, FailuresTypeOK
  <2>2. ~(ReplyIsError(w) \/ CatchThrows(w) \/ HandlerThrows(w))
    BY DEF ReplyIsError, CatchThrows, HandlerThrows, Fault, FewFailures
  <2>3. ~ErrorCallbackThrows(w)
    BY MaxFaultsAssumption
       DEF ErrorCallbackThrows, EngineGoes, Fault, FewFailures, Awake, FailuresTypeOK
  <2> QED
    BY <2>1, <2>2, <2>3 DEF Failure
<1>2. CASE WorkerThrows(w)
  <2>1. /\ ~Early(w)' /\ Holding(w)' /\ worker'[w] # "hung"
        /\ InSession(w)' => InSession(w)
        /\ worker' = [worker EXCEPT ![w] = worker'[w]]
        /\ faults' = faults + 1
        /\ UNCHANGED <<job, lock, done, engine, back, at, is_interrupted, handler>>
    BY <1>2 DEF WorkerThrows, Fault, WorkerGoes, Holding, Early, InSession
  <2>2. Awake(w)'
    BY <2>1 DEF Awake, FailuresTypeOK
  <2>3. /\ \A v \in Workers \ {w} :
            UNCHANGED <<worker[v], done[v], engine[v], back[v], at[v],
                        is_interrupted[v], handler[v]>>
        /\ faults' \in Nat /\ faults <= faults'
    BY <2>1 DEF FailuresTypeOK
  <2>4. Held'
    BY <2>1, HeldStable
  <2> QED
    BY <2>2, <2>3, <2>4, OthersAwake
<1>3. CASE EngineThrows(w)
  <2>1. /\ engine' = [engine EXCEPT ![w] = "publishError"] /\ faults' = faults + 1
        /\ UNCHANGED <<worker, job, lock, done, back, at, is_interrupted, handler>>
    BY <1>3 DEF EngineThrows, EngineGoes, Fault
  <2>2. Awake(w)'
    BY <2>1 DEF Awake, Early, Woken, InSession, FailuresTypeOK
  <2>3. Held'
    BY <2>1, HeldStable DEF Holding
  <2> QED
    BY <2>1, <2>2, <2>3, OthersAwake DEF FailuresTypeOK
<1> QED
  BY <1>1, <1>2, <1>3

\* No call of the server touches a lock.
LEMMA ServerAwake ==
  ASSUME WInv, ServerNext \/ (\E t \in Tasks : Expire(t)), UNCHANGED workerVars
  PROVE  WInv'
<1>1. UNCHANGED lock
  BY DEF ServerNext, StartTsp, PauseTsp, ResumeTsp, StopTsp, CallAbout,
     SendStartSignal, SendPauseSignal, IsResumeable, GetTaskStatus,
     ForceInterrupted, SendInterruptSignal, LoadSolution, RemoveTask, CallFails,
     Expire, SetTask, SetStatus, SetSolution
<1> QED
  BY <1>1 DEF WInv, Held, Holding, Awake, InSession, Early, Woken

\* The layer is kept by every step, if few failures are left.
LEMMA StepAwake ==
  ASSUME FewFailures
  PROVE  TInv /\ XInv /\ WInv /\ [Next]_vars => WInv'
<1> SUFFICES ASSUME TInv, XInv, WInv, [Next]_vars PROVE WInv'
  OBVIOUS
<1>1. CASE ServerNext /\ UNCHANGED workerVars
  BY <1>1, ServerAwake
<1>2. CASE WorkerNext /\ UNCHANGED serverVars
  BY <1>2, MainAwake, EngineAwake, HandlerAwake, FailureAwake DEF WorkerNext
<1>3. CASE (\E t \in Tasks : Expire(t)) /\ UNCHANGED <<serverVars, workerVars>>
  BY <1>3, ServerAwake
<1>4. CASE UNCHANGED vars
  BY <1>4 DEF WInv, Held, Holding, Awake, InSession, Early, Woken
<1> QED
  BY <1>1, <1>2, <1>3, <1>4 DEF Next

\* The main thread goes on by itself; or the engine thread does, which it waits for; or
\* it is about to be woken; or the engine thread has ended.
GoesOn(w) ==
    \/ worker[w] \notin {"wait", "sendInProgress", "join", "joinOnError", "hung"}
    \/ Solving(w)
    \/ Early(w) /\ Woken(w)
    \/ worker[w] \in {"join", "joinOnError"} /\ engine[w] = "ended"

LockedGoesOn == \A t \in Tasks : lock[t] =>
    \E w \in Workers : Holding(w) /\ job[w] = t /\ GoesOn(w)

\* With few failures, a lock in Redis always belongs to a worker that is still on its way
\* to unlock: no path through Worker::start leaves it behind, and no main thread waits
\* for a notification that will not come.
THEOREM LockHasHolder ==
  ASSUME FewFailures
  PROVE  Spec => []LockedGoesOn
<1>1. Init => WInv
  BY DEF Init, StoreInit, WorkerInit, WInv, Held, Awake, InSession, Early
<1>2. TInv /\ XInv /\ WInv /\ [Next]_vars => WInv'
  BY StepAwake
<1>3. WInv => LockedGoesOn
  <2> SUFFICES ASSUME WInv, NEW t \in Tasks, lock[t]
               PROVE  \E w \in Workers : Holding(w) /\ job[w] = t /\ GoesOn(w)
    BY DEF LockedGoesOn
  <2>1. PICK w \in Workers : Holding(w) /\ worker[w] # "hung" /\ job[w] = t
    BY DEF WInv, Held
  <2>2. GoesOn(w)
    BY <2>1 DEF WInv, Awake, GoesOn, Solving, Early, InSession
  <2> QED
    BY <2>1, <2>2
<1> QED
  BY <1>1, <1>2, <1>3, Invariance, PTL DEF Spec

\* How many steps an engine thread has left at most, at step e of iteration a: those of
\* the iterations that are left, those for the last solution, and those for an error.
\* Step b is the one after the solution was published.
Iterations(a) == 4 * (Exhausted - a)

StepsLeft(e, b, a) ==
    CASE e \in {"none", "ended"} -> 0
      [] e = "notify" -> 1
      [] e = "sendError" -> 2
      [] e = "publishError" -> 3
      [] e \in {"sendFinished", "persist"} -> 4
      [] e = "publishFinished" -> 5
      [] e = "announce" /\ b = "persist" -> 6
      [] e = "solution" /\ b = "persist" -> 7
      [] e = "advance" -> Iterations(a) + 5
      [] e = "announce" /\ b = "advance" -> Iterations(a) + 6
      [] e = "solution" /\ b = "advance" -> Iterations(a) + 7
      [] e = "test" -> Iterations(a) + 8
      [] e = "announce" /\ b = "test" -> Iterations(a) + 9
      [] e = "solution" /\ b = "test" -> Iterations(a) + 10
      [] e = "validate" -> Iterations(0) + 11

EngineLeft(w) == StepsLeft(engine[w], back[w], at[w])

\* The cases exclude one another.
LEMMA LeftAt ==
  ASSUME NEW e, NEW b, NEW a
  PROVE  /\ e \in {"none", "ended"} => StepsLeft(e, b, a) = 0
         /\ e = "notify" => StepsLeft(e, b, a) = 1
         /\ e = "sendError" => StepsLeft(e, b, a) = 2
         /\ e = "publishError" => StepsLeft(e, b, a) = 3
         /\ e \in {"sendFinished", "persist"} => StepsLeft(e, b, a) = 4
         /\ e = "publishFinished" => StepsLeft(e, b, a) = 5
         /\ e = "announce" /\ b = "persist" => StepsLeft(e, b, a) = 6
         /\ e = "solution" /\ b = "persist" => StepsLeft(e, b, a) = 7
         /\ e = "advance" => StepsLeft(e, b, a) = Iterations(a) + 5
         /\ e = "announce" /\ b = "advance" => StepsLeft(e, b, a) = Iterations(a) + 6
         /\ e = "solution" /\ b = "advance" => StepsLeft(e, b, a) = Iterations(a) + 7
         /\ e = "test" => StepsLeft(e, b, a) = Iterations(a) + 8
         /\ e = "announce" /\ b = "test" => StepsLeft(e, b, a) = Iterations(a) + 9
         /\ e = "solution" /\ b = "test" => StepsLeft(e, b, a) = Iterations(a) + 10
         /\ e = "validate" => StepsLeft(e, b, a) = Iterations(0) + 11
BY DEF StepsLeft

\* As long as it runs there is something left, and never less than nothing.
LEMMA LeftType ==
  ASSUME TInv, NEW w \in Workers
  PROVE  EngineLeft(w) \in Nat /\ (Solving(w) => EngineLeft(w) > 0)
<1>1. /\ Exhausted \in Nat /\ at[w] \in 0..Exhausted
      /\ engine[w] \in EnginePc /\ back[w] \in {"test", "advance", "persist"}
  BY LastAssumption DEF TInv, SessionInv, SessionTypeOK, Exhausted
<1>2. Iterations(at[w]) \in Nat /\ Iterations(0) \in Nat
  BY <1>1 DEF Iterations
<1> QED
  BY <1>1, <1>2, LeftAt DEF EngineLeft, Solving, EnginePc

\* Each step of the engine thread leaves fewer, whether its solution was accepted or
\* not, it is interrupted or not, and Redis stores what it is sent or not.
LEMMA EngineShorter ==
  ASSUME TInv, TInv', NEW w \in Workers, EngineStep(w)
  PROVE  EngineLeft(w)' < EngineLeft(w)
<1>1. /\ Exhausted \in Nat /\ at[w] \in 0..Exhausted /\ at'[w] \in 0..Exhausted
      /\ engine \in [Workers -> EnginePc]
      /\ back \in [Workers -> {"test", "advance", "persist"}]
      /\ at \in [Workers -> 0..Exhausted]
  BY LastAssumption DEF TInv, SessionInv, SessionTypeOK, Exhausted
<1>2. \A a \in 0..Exhausted :
          /\ Iterations(a) \in Nat /\ Iterations(a) <= Iterations(0)
          /\ a + 1 \in 0..Exhausted => Iterations(a + 1) = Iterations(a) - 4
  BY <1>1 DEF Iterations
<1>3. CASE Validate(w)
  BY <1>1, <1>2, <1>3, LeftAt DEF Validate, EngineGoes, EngineLeft
<1>4. CASE PublishSolution(w) \/ PublishNewSolution(w)
  <2>1. /\ engine[w] \in {"solution", "announce"} /\ at'[w] = at[w] /\ back'[w] = back[w]
        /\ engine'[w] \in {"announce", "publishFinished", back[w]}
        /\ engine[w] = "announce" => engine'[w] # "announce"
        /\ engine'[w] = "publishFinished" => back[w] = "persist"
    BY <1>1, <1>4 DEF PublishSolution, PublishNewSolution, EngineGoes, Announced, Final
  <2> QED
    BY <1>1, <1>2, <2>1, LeftAt DEF EngineLeft
<1>5. CASE LeaveLoop(w)
  BY <1>1, <1>2, <1>5, LeftAt DEF LeaveLoop, EngineGoes, EngineLeft
<1>6. CASE Iterate(w)
  BY <1>1, <1>2, <1>6, LeftAt DEF Iterate, EngineGoes, EngineLeft
<1>7. CASE Advance(w)
  BY <1>1, <1>2, <1>7, LeftAt DEF Advance, EngineGoes, EngineLeft
<1>8. CASE \/ Persist(w) \/ PublishFinished(w) \/ SendFinished(w)
           \/ EnginePublishError(w) \/ EngineSendError(w) \/ EngineNotify(w)
  BY <1>1, <1>8, LeftAt
     DEF Persist, PublishFinished, SendFinished, EnginePublishError, EngineSendError,
         EngineNotify, EngineGoes, EngineLeft
<1> QED
  BY <1>3, <1>4, <1>5, <1>6, <1>7, <1>8 DEF EngineStep

\* What the engine thread of any worker has left gets less, whoever does something.
EngineGetsOn == [][\A w \in Workers :
    Solving(w) /\ <<engine[w], back[w], at[w]>>' # <<engine[w], back[w], at[w]>> =>
        EngineLeft(w)' < EngineLeft(w)]_vars

\* No step of anybody adds to it.
LEMMA StepShorter ==
  ASSUME TInv, XInv, TInv', [Next]_vars, NEW w \in Workers, Solving(w),
         <<engine[w], back[w], at[w]>>' # <<engine[w], back[w], at[w]>>
  PROVE  EngineLeft(w)' < EngineLeft(w)
<1> USE DEF TInv, SessionInv, SessionTypeOK
<1>1. PICK v \in Workers : MainStep(v) \/ EngineStep(v) \/ HandlerStep(v) \/ Failure(v)
  BY DEF Next, WorkerNext
<1>2. CASE EngineStep(v)
  <2>1. v = w
    BY <1>2 DEF EngineStep, Validate, PublishSolution, PublishNewSolution, LeaveLoop,
       Iterate, Advance, Persist, PublishFinished, SendFinished, EnginePublishError,
       EngineSendError, EngineNotify, EngineGoes
  <2> QED
    BY <1>2, <2>1, EngineShorter
<1>3. CASE MainStep(v)
  <2>1. SolveTsp(v) \/ Join(v)
    BY <1>3 DEF MainStep, NextTask, TryLock, IsFinished, IsPaused, IncAttempts,
       RetrieveTask, LoadState, PublishStarted, SendStarted, Subscribe, WaitUntil,
       SendInProgress, Close, PublishError, SendError, Unsubscribe, Unlock
  <2>2. v = w
    BY <2>1 DEF SolveTsp, Join, NoSession
  <2> QED
    BY <2>1, <2>2 DEF SolveTsp, Join, WorkerGoes, XInv, EngineInSession, InSession,
       Solving
<1>4. ~HandlerStep(v)
  BY DEF HandlerStep, Receive, RaiseInterrupted, PauseSession, PublishPaused,
     SendPaused, ClearState, HandlerNotify
<1>5. CASE Failure(v)
  <2>1. CASE Crash(v)
    <3>1. v = w /\ engine'[w] = "none"
      BY <2>1 DEF Crash, NoSession
    <3>2. EngineLeft(w)' = 0
      BY <3>1, LeftAt DEF EngineLeft
    <3> QED
      BY <3>2, LeftType
  <2>2. CASE EngineThrows(v) \/ ErrorCallbackThrows(v)
    <3>1. v = w /\ UNCHANGED <<back, at>>
      BY <2>2 DEF EngineThrows, ErrorCallbackThrows, EngineGoes
    <3>2. Iterations(at[w]) \in Nat /\ Iterations(0) \in Nat
      BY LastAssumption DEF Iterations, Exhausted
    <3>3. back[w] \in {"test", "advance", "persist"}
      OBVIOUS
    <3> QED
      BY <2>2, <3>1, <3>2, <3>3, LeftAt
         DEF EngineThrows, ErrorCallbackThrows, EngineGoes, EngineLeft
  <2>3. ~(ReplyIsError(v) \/ WorkerThrows(v) \/ CatchThrows(v) \/ HandlerThrows(v))
    BY DEF ReplyIsError, WorkerThrows, CatchThrows, HandlerThrows
  <2> QED
    BY <1>5, <2>1, <2>2, <2>3 DEF Failure
<1> QED
  BY <1>1, <1>2, <1>3, <1>4, <1>5

\* Once started, an engine thread is at its end after so many steps of its own, and no
\* step of the main thread, of a handler, of another worker or of a server gives it more.
THEOREM EngineShortens ==
  Spec => [](\A w \in Workers : EngineLeft(w) \in Nat) /\ EngineGetsOn
<1>1. TInv => \A w \in Workers : EngineLeft(w) \in Nat
  BY LeftType
<1>2. TInv /\ XInv /\ TInv' /\ [Next]_vars =>
        [\A w \in Workers :
            Solving(w) /\ <<engine[w], back[w], at[w]>>' # <<engine[w], back[w], at[w]>> =>
                EngineLeft(w)' < EngineLeft(w)]_vars
  BY StepShorter
<1> QED
  BY <1>1, <1>2, Invariance, PTL DEF Spec, EngineGetsOn

=============================================================================
