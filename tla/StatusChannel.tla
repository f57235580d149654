---------------------------- MODULE StatusChannel ---------------------------
(***************************************************************************)
(* The AMQP channel on which a worker publishes statuses.  AmqpStatus-     *)
(* Publisher keeps a publisher for every task, which opens channel 3 of    *)
(* the one connection when it is made and closes it when its last copy is  *)
(* gone; the channel is the same for every task.  Three threads use it:    *)
(* the main thread with Worker::start, the engine with the callbacks of    *)
(* the solution listener, the interrupt listener with the handler.         *)
(*                                                                         *)
(* A mutex guards the map of publishers.  Nothing guards the connection: a *)
(* call of the client library begins and ends, and two threads inside the  *)
(* library are a data race.  The broker closes the connection when a       *)
(* channel is opened that is open, or used when it is not.  Either end is  *)
(* broken, and the model stops there.  A call may fail and throw, without  *)
(* effect on the channel but that it is not opened.                        *)
(***************************************************************************)
EXTENDS Integers

CONSTANTS
    MaxJobs,     \* bound: the tasks 1..MaxJobs are worked on one by one
    MaxSignals   \* bound: signals that a task gets

BoundsAssumption == MaxJobs \in Nat \ {0} /\ MaxSignals \in Nat

Tasks == 1..MaxJobs
Threads == {"main", "engine", "handler"}

VARIABLES
    publishers,   \* the map from tasks to publishers, which have numbers; 0: none
    copies,       \* by publisher, who has a copy: threads, and "map"
    channel,      \* "closed" or "open", for the broker
    connection,   \* "up" or "broken"
    inside,       \* threads in a call of the library
    call,         \* by thread: where its publish...() or release() is, or "none"
    task,         \* by thread: the task of the call
    mine,         \* by thread: the publisher it has a copy of, or 0
    releases,     \* by thread: the call erases the publisher at its end
    threw,        \* threads whose call threw
    main,         \* where Worker::start is
    job,          \* the task at work
    engine,       \* "none", "running", "final", "finishing", "erring" or "ended"
    handler,      \* "listening", "called", "publishing" or "dead"
    done, interrupted,
    subscribed,   \* the handler is called for signals about it
    signals,      \* signals the task at work got
    met,          \* history: a handler's call and another one were under way at once
    late          \* history: a handler's call began when its task had been released

amqp == <<publishers, copies, channel, connection, inside>>
calls == <<call, task, mine, releases, threw, met>>
flags == <<done, interrupted, subscribed, signals, late>>
worker == <<main, job, engine, handler, flags>>
vars == <<amqp, calls, worker>>

Init ==
    /\ publishers = [k \in Tasks |-> 0]
    /\ copies = [p \in 1..3 |-> {}]      \* at most one is made by each thread
    /\ channel = "closed" /\ connection = "up" /\ inside = {}
    /\ call = [t \in Threads |-> "none"]
    /\ task = [t \in Threads |-> 0]
    /\ mine = [t \in Threads |-> 0]
    /\ releases = [t \in Threads |-> FALSE]
    /\ threw = {} /\ met = FALSE
    /\ main = "idle" /\ job = 0 /\ engine = "none" /\ handler = "listening"
    /\ done = FALSE /\ interrupted = FALSE
    /\ subscribed = FALSE /\ signals = 0 /\ late = FALSE

----------------------------------------------------------------------------
(* AmqpStatusPublisher: a call of a thread begins, and goes on by itself.  *)

Begin(t, place, k, erase) ==
    /\ call[t] = "none"
    /\ call' = [call EXCEPT ![t] = place]
    /\ task' = [task EXCEPT ![t] = k]
    /\ releases' = [releases EXCEPT ![t] = erase]
    /\ met' = (met \/ \E u \in Threads \ {t} :
                         call[u] # "none" /\ "handler" \in {t, u})
    /\ UNCHANGED <<amqp, mine>>

\* publishStarted, publishNewSolution, and those that erase the publisher at the end.
Publish(t, k, erase) == Begin(t, "find", k, erase)

CallGoes(t, from, to) ==
    /\ call[t] = from
    /\ call' = [call EXCEPT ![t] = to]
    /\ UNCHANGED <<task, met, worker>>

\* publishers_lock is held while the publisher that is erased closes the channel.
Locked == \E t \in Threads : call[t] = "closeErased"

Rest(t) == IF releases[t] THEN "erase" ELSE "none"

\* getPublisher, the first time under the mutex ...
Find(t) ==
    LET p == publishers[task[t]] IN
    /\ ~Locked
    /\ CallGoes(t, "find", IF p = 0 THEN "open" ELSE "send")
    /\ mine' = [mine EXCEPT ![t] = p]
    /\ copies' = IF p = 0 THEN copies ELSE [copies EXCEPT ![p] = @ \union {t}]
    /\ UNCHANGED <<publishers, channel, connection, inside, releases, threw>>

\* ... and the second time: another thread's publisher is not replaced.
Store(t) ==
    /\ ~Locked
    /\ CallGoes(t, "store", "send")
    /\ IF publishers[task[t]] # 0
       THEN UNCHANGED <<publishers, copies>>
       ELSE /\ publishers' = [publishers EXCEPT ![task[t]] = mine[t]]
            /\ copies' = [copies EXCEPT ![mine[t]] = @ \union {"map"}]
    /\ UNCHANGED <<channel, connection, inside, mine, releases, threw>>

\* The copy that was published with is destroyed, and the publisher with its last copy.
Drop(t) ==
    /\ CallGoes(t, "drop", IF copies[mine[t]] = {t} THEN "close" ELSE Rest(t))
    /\ copies' = [copies EXCEPT ![mine[t]] = @ \ {t}]
    /\ mine' = [mine EXCEPT ![t] = 0]
    /\ UNCHANGED <<publishers, channel, connection, inside, releases, threw>>

\* releasePublisher
Erase(t) ==
    LET p == publishers[task[t]] IN
    /\ ~Locked
    /\ CallGoes(t, "erase", IF p # 0 /\ copies[p] = {"map"} THEN "closeErased" ELSE "none")
    /\ publishers' = [publishers EXCEPT ![task[t]] = 0]
    /\ copies' = IF p = 0 THEN copies ELSE [copies EXCEPT ![p] = @ \ {"map"}]
    /\ UNCHANGED <<channel, connection, inside, mine, releases, threw>>

----------------------------------------------------------------------------
(* RabbitMqConnector: the calls of the library, outside of the mutex.      *)

Enter(t) ==
    /\ call[t] \in {"open", "declare", "send", "close", "closeErased"}
    /\ t \notin inside
    /\ inside' = inside \union {t}
    /\ connection' = IF inside = {} THEN connection ELSE "broken"
    /\ UNCHANGED <<publishers, copies, channel, calls, worker>>

LeavesTo(t, from, to) ==
    /\ t \in inside /\ inside' = inside \ {t}
    /\ CallGoes(t, from, to)

\* The channel is there that the call needs, or the broker closes the connection.
Needs(state) == connection' = IF channel = state THEN connection ELSE "broken"

\* What was begun is given up, and what comes after the call, as an erase, is left out.
Throws(t) ==
    /\ releases' = [releases EXCEPT ![t] = FALSE]
    /\ threw' = threw \union {t}

\* State::State
Open(t) ==
    /\ \/ LeavesTo(t, "open", "declare") /\ Needs("closed") /\ channel' = "open"
          /\ UNCHANGED <<releases, threw>>
       \/ LeavesTo(t, "open", "none") /\ Needs("closed") /\ Throws(t)
          /\ UNCHANGED channel
    /\ UNCHANGED <<publishers, copies, mine>>

\* A publisher is made for the thread, who has the one copy.
NewPublisher(t) ==
    LET p == CHOOSE q \in DOMAIN copies : copies[q] = {} IN
    /\ mine' = [mine EXCEPT ![t] = p]
    /\ copies' = [copies EXCEPT ![p] = {t}]

\* PublisherState::PublisherState: if it throws, what State has opened is closed.
Declare(t) ==
    /\ Needs("open")
    /\ \/ LeavesTo(t, "declare", "store") /\ NewPublisher(t) /\ UNCHANGED <<releases, threw>>
       \/ LeavesTo(t, "declare", "close") /\ Throws(t) /\ UNCHANGED <<mine, copies>>
    /\ UNCHANGED <<publishers, channel>>

\* Publisher::publish
Send(t) ==
    /\ LeavesTo(t, "send", "drop")
    /\ Needs("open")
    /\ UNCHANGED <<releases, threw>> \/ Throws(t)
    /\ UNCHANGED <<publishers, copies, channel, mine>>

\* State::~State: an error is only logged.
Close(t) ==
    /\ LeavesTo(t, "close", Rest(t)) \/ LeavesTo(t, "closeErased", "none")
    /\ Needs("open")
    /\ channel' = "closed"
    /\ UNCHANGED <<publishers, copies, mine, releases, threw>>

----------------------------------------------------------------------------
(* The main thread.                                                        *)

MainGoes(from, to) == call["main"] = "none" /\ main = from /\ main' = to

\* nextTask until publishStarted, or until one of the calls before it throws.
NextTask ==
    /\ job < MaxJobs
    /\ job' = job + 1
    /\ done' = FALSE /\ interrupted' = FALSE /\ signals' = 0
    /\ \/ MainGoes("idle", "starting") /\ Publish("main", job', FALSE) /\ UNCHANGED threw
       \/ MainGoes("idle", "failing") /\ UNCHANGED <<amqp, calls>>
    /\ UNCHANGED <<engine, handler, subscribed, late>>

\* The engine starts, unless publishStarted, sendStarted or solveTsp throws.
SolveTsp ==
    /\ \/ /\ MainGoes("starting", "subscribing") /\ "main" \notin threw
          /\ engine' = "running"
          /\ UNCHANGED threw
       \/ /\ MainGoes("starting", "failing")
          /\ threw' = threw \ {"main"}
          /\ UNCHANGED engine
    /\ UNCHANGED <<amqp, call, task, mine, releases, met, job, handler, flags>>

Subscribe ==
    /\ MainGoes("subscribing", "waiting")
    /\ subscribed' = TRUE
    /\ UNCHANGED <<amqp, calls, job, engine, handler, done, interrupted, signals, late>>

\* The wait is over, or sendInProgress throws in it: the session is destroyed.
Leave ==
    /\ \/ MainGoes("waiting", "joining") /\ done
       \/ MainGoes("waiting", "unwinding")
    /\ UNCHANGED <<amqp, calls, job, engine, handler, flags>>

\* Its destructor waits for the engine.
Join ==
    /\ MainGoes("joining", "releasing") \/ MainGoes("unwinding", "failing")
    /\ engine = "ended"
    /\ engine' = "none"
    /\ UNCHANGED <<amqp, calls, job, handler, flags>>

\* The catch block.
PublishError ==
    /\ MainGoes("failing", "erring")
    /\ Publish("main", job, TRUE)
    /\ UNCHANGED <<threw, job, engine, handler, flags>>

\* publishError or sendError throws out of Worker::start, which ends the program.
Exit ==
    /\ MainGoes("erring", "left")
    /\ UNCHANGED <<amqp, calls, job, engine, handler, flags>>

\* Fault: the publisher is erased with a last status only.
ReleaseNothing ==
    /\ "main" \notin threw
    /\ MainGoes("erring", "unsubscribing") \/ MainGoes("releasing", "unsubscribing")
    /\ UNCHANGED <<amqp, calls, job, engine, handler, flags>>

Release ==
    /\ "main" \notin threw
    /\ MainGoes("erring", "unsubscribing") \/ MainGoes("releasing", "unsubscribing")
    /\ Begin("main", "erase", job, FALSE)
    /\ UNCHANGED <<threw, job, engine, handler, flags>>

\* unsubscribe waits for nobody.
Unsubscribe ==
    /\ MainGoes("unsubscribing", "idle")
    /\ subscribed' = FALSE
    /\ UNCHANGED <<amqp, calls, job, engine, handler, done, interrupted, signals, late>>

----------------------------------------------------------------------------
(* The engine's thread.                                                    *)

EngineGoes(from, to) == call["engine"] = "none" /\ engine = from /\ engine' = to

\* The solution callback publishes each solution, the final one too, ...
NextSolution ==
    /\ "engine" \notin threw
    /\ \/ ~interrupted /\ EngineGoes("running", "running") /\ Publish("engine", job, FALSE)
       \/ ~interrupted /\ EngineGoes("running", "final") /\ Publish("engine", job, FALSE)
       \/ interrupted /\ EngineGoes("running", "final") /\ UNCHANGED <<amqp, calls>>
    /\ UNCHANGED <<threw, main, job, handler, flags>>

\* ... and after the final one that the task is finished.
Finish ==
    /\ "engine" \notin threw
    /\ EngineGoes("final", "finishing")
    /\ Publish("engine", job, TRUE)
    /\ UNCHANGED <<threw, main, job, handler, flags>>

\* The error callback, whatever in a callback has thrown: a publish...(), or before or
\* after it something else, as sendFinished after publishFinished.
OnError ==
    /\ \/ EngineGoes("running", "erring") \/ EngineGoes("finishing", "erring")
       \/ EngineGoes("final", "erring") /\ "engine" \in threw
    /\ Publish("engine", job, TRUE)
    /\ threw' = threw \ {"engine"}
    /\ UNCHANGED <<main, job, handler, flags>>

\* Both callbacks end with done = true, unless the second one throws; without them the
\* engine ends when the session is paused or destroyed.
EngineEnds ==
    /\ \/ EngineGoes("finishing", "ended") /\ "engine" \notin threw /\ done' = TRUE
       \/ EngineGoes("erring", "ended") /\ "engine" \notin threw /\ done' = TRUE
       \/ EngineGoes("erring", "ended") /\ UNCHANGED done
       \/ /\ EngineGoes("running", "ended") /\ "engine" \notin threw
          /\ interrupted \/ main \in {"joining", "unwinding"}
          /\ UNCHANGED done
    /\ threw' = threw \ {"engine"}
    /\ UNCHANGED <<amqp, call, task, mine, releases, met, main, job, handler,
                   interrupted, subscribed, signals, late>>

----------------------------------------------------------------------------
(* The thread of the interrupt listener.                                   *)

\* The processor of the task is copied and will be called.
Receive ==
    /\ handler = "listening" /\ handler' = "called"
    /\ subscribed /\ signals < MaxSignals
    /\ signals' = signals + 1
    /\ task' = [task EXCEPT !["handler"] = job]
    /\ UNCHANGED <<amqp, call, mine, releases, threw, met, main, job, engine,
                   done, interrupted, subscribed, late>>

\* interrupted = true, the session is paused, publishPaused or -Interrupted
\* begins.  The variables are those of Worker::start, and so is the name of
\* the task: after its end they may be those of the next one.
HandleSignal ==
    /\ handler = "called" /\ handler' = "publishing"
    /\ interrupted' = TRUE
    /\ \E k \in {task["handler"], job} : Publish("handler", k, TRUE)
    /\ late' = (late \/ task["handler"] # job \/ main \in {"unsubscribing", "idle"})
    /\ UNCHANGED <<threw, main, job, engine, done, subscribed, signals>>

\* done = true; or a call throws, and the listener's thread ends.
HandlerEnds ==
    /\ call["handler"] = "none" /\ handler = "publishing"
    /\ \/ handler' = "listening" /\ "handler" \notin threw /\ done' = TRUE
       \/ handler' = "dead" /\ UNCHANGED done
    /\ UNCHANGED <<amqp, calls, main, job, engine, interrupted, subscribed, signals, late>>

----------------------------------------------------------------------------
Next ==
    /\ connection = "up" /\ main # "left"
    /\ \/ \E t \in Threads :
             \/ Find(t) \/ Store(t) \/ Drop(t) \/ Erase(t)
             \/ Enter(t) \/ Open(t) \/ Declare(t) \/ Send(t) \/ Close(t)
       \/ NextTask \/ SolveTsp \/ Subscribe \/ Leave \/ Join
       \/ PublishError \/ Exit \/ Release \/ Unsubscribe
       \/ NextSolution \/ Finish \/ OnError \/ EngineEnds
       \/ Receive \/ HandleSignal \/ HandlerEnds

Spec == Init /\ [][Next]_vars

----------------------------------------------------------------------------
\* Without a lock the main thread and the engine's hand the channel on to each other,
\* from task to task, and whatever throws neither enters the library while another
\* thread is in it, nor opens the channel twice, nor uses it when it is closed; and
\* the handler of a signal does not either, unless its call meets another thread's
\* or begins when its task's publisher has been released.
SharedWithoutClash == connection = "broken" => met \/ late

\* A signal that is handled while the engine publishes does no harm: the mutex of
\* AmqpStatusPublisher would have to guard more than its map for this.
NeverBroken == connection = "up"

=============================================================================
