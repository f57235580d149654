-------------------------- MODULE TspStatusStream ---------------------------
(***************************************************************************)
(* How status updates of one task come from a worker to the clients that   *)
(* subscribed to them.  The worker publishes an update and stores it in    *)
(* Redis; the exchange is a fanout that deletes itself when the last queue *)
(* bound to it goes; each SubscribeForStatusUpdates call has a queue that  *)
(* deletes itself with its consumer, and reads the stored status once, in  *)
(* a goroutine.  All calls of the server share one AMQP channel, which the *)
(* broker closes when the exchange that is bound or published to is gone.  *)
(***************************************************************************)
EXTENDS Naturals, Sequences, FiniteSets, SequencesExt

CONSTANTS
    Streams,       \* SubscribeForStatusUpdates calls for the task
    MaxSessions,   \* how often a worker starts or resumes the task
    MaxSolutions,  \* solutions it publishes, in all sessions
    MaxForeign,    \* updates published for other tasks
    MayCancel,     \* whether clients hang up
    MayStop,       \* whether StopTsp is called
    None           \* no status

VARIABLES
    worker,     \* "idle", "publishing", "running", "storing", "over"
    ending,     \* the status a session ends with
    sessions, solutions, foreign,
    publisher,  \* its channel: "closed", "open", or "broken" by the broker
    stored,     \* the task's status in Redis
    exchange,   \* whether the exchange exists
    channel,    \* the server's channel: "open" or "closed"
    pc,         \* what each call is about to do
    queue,      \* updates in its queue
    bound,      \* whether the queue is bound
    latest,     \* the goroutine: "none", "reading", "gone", or what it has read
    published,  \* history: updates of the task that the worker or StopTsp published
                \* while the queue is bound, whether or not the broker took them
    delivered,  \* history: what was sent to the client from it
    kept        \* history: whether the worker's channel was in order at the bind

vars == <<worker, ending, sessions, solutions, foreign, publisher, stored, exchange,
          channel, pc, queue, bound, latest, published, delivered, kept>>
session == <<worker, ending, sessions, solutions>>
broker == <<exchange, channel, queue, bound>>
history == <<published, delivered, kept>>
calls == <<pc, latest>>

----------------------------------------------------------------------------
Terminal == {"ERROR", "FINISHED", "INTERRUPTED", "UNKNOWN"}

NoneAssumption == None \notin {"STARTED", "NEW_SOLUTION", "PAUSED"} \union Terminal

Init ==
    /\ worker = "idle"
    /\ ending = None
    /\ sessions = 0 /\ solutions = 0 /\ foreign = 0
    /\ publisher = "closed"
    /\ stored = None
    /\ exchange = TRUE
    /\ channel = "open"
    /\ pc = [s \in Streams |-> "idle"]
    /\ queue = [s \in Streams |-> <<>>]
    /\ bound = [s \in Streams |-> FALSE]
    /\ latest = [s \in Streams |-> "none"]
    /\ published = [s \in Streams |-> <<>>]
    /\ delivered = [s \in Streams |-> <<>>]
    /\ kept = [s \in Streams |-> FALSE]

----------------------------------------------------------------------------
(* The broker                                                              *)

\* A message for another task is None.
Deliver(u) == queue' = [s \in Streams |-> IF bound[s] THEN Append(queue[s], u) ELSE queue[s]]

\* The task's update is published, whatever becomes of it.
Recorded(u) ==
    /\ published' = [s \in Streams |->
                        IF bound[s] THEN Append(published[s], u) ELSE published[s]]
    /\ UNCHANGED <<delivered, kept>>

QueueGoes(s) ==
    /\ queue' = [queue EXCEPT ![s] = <<>>]
    /\ bound' = [bound EXCEPT ![s] = FALSE]
    /\ published' = [published EXCEPT ![s] = <<>>]
    /\ delivered' = [delivered EXCEPT ![s] = <<>>]
    /\ kept' = [kept EXCEPT ![s] = FALSE]

\* The queue goes with its consumer, and the exchange with its last queue.
Unbind(s) ==
    /\ QueueGoes(s)
    /\ exchange' = (exchange /\ (bound[s] => \E r \in Streams \ {s} : bound[r]))

----------------------------------------------------------------------------
(* The worker: AmqpStatusPublisher and RabbitMqConnector                   *)

\* A new publisher opens a channel and declares the exchange.  A publisher whose
\* exchange is gone loses the update, and its channel.
PublishOn(u, release) ==
    LET declared == exchange \/ publisher = "closed"
        works == publisher # "broken" /\ declared
    IN
    /\ exchange' = declared
    /\ publisher' = IF release THEN "closed" ELSE IF works THEN "open" ELSE "broken"
    /\ IF works THEN Deliver(u) ELSE UNCHANGED queue
    /\ Recorded(u)
    /\ UNCHANGED <<channel, bound>>

PublishStarted ==
    /\ worker = "idle"
    /\ sessions < MaxSessions
    /\ sessions' = sessions + 1
    /\ worker' = "publishing"
    /\ PublishOn("STARTED", FALSE)
    /\ UNCHANGED <<ending, solutions, foreign, stored, calls>>

SendStarted ==
    /\ worker = "publishing"
    /\ worker' = "running"
    /\ stored' = "STARTED"
    /\ UNCHANGED <<ending, sessions, solutions, foreign, publisher, broker, calls, history>>

PublishNewSolution ==
    /\ worker = "running"
    /\ solutions < MaxSolutions
    /\ solutions' = solutions + 1
    /\ PublishOn("NEW_SOLUTION", FALSE)
    /\ UNCHANGED <<worker, ending, sessions, foreign, stored, calls>>

SendInProgress ==
    /\ worker = "running"
    /\ stored' = "IN_PROGRESS"
    /\ UNCHANGED <<session, foreign, publisher, broker, calls, history>>

\* publishPaused, publishInterrupted, publishError, publishFinished
PublishEnding(e) ==
    /\ worker = "running"
    /\ worker' = "storing"
    /\ ending' = e
    /\ PublishOn(e, TRUE)
    /\ UNCHANGED <<sessions, solutions, foreign, stored, calls>>

SendEnding ==
    /\ worker = "storing"
    /\ worker' = IF ending = "PAUSED" THEN "idle" ELSE "over"
    /\ stored' = ending
    /\ ending' = None
    /\ UNCHANGED <<sessions, solutions, foreign, publisher, broker, calls, history>>

\* The worker of another task publishes, with a publisher of its own.
PublishForeign ==
    /\ foreign < MaxForeign
    /\ foreign' = foreign + 1
    /\ exchange' = TRUE
    /\ Deliver(None)
    /\ UNCHANGED <<session, publisher, stored, channel, bound, calls, history>>

----------------------------------------------------------------------------
(* The server                                                              *)

\* StopTsp of a task that is paused publishes on the channel all calls share.
StopTsp ==
    /\ MayStop
    /\ stored = "PAUSED"
    /\ stored' = "INTERRUPTED"
    /\ channel' = IF exchange THEN channel ELSE "closed"
    /\ IF channel = "open" /\ exchange THEN Deliver("INTERRUPTED") ELSE UNCHANGED queue
    /\ Recorded("INTERRUPTED")
    /\ UNCHANGED <<session, foreign, publisher, exchange, bound, calls>>

Goto(s, from, to) == pc[s] = from /\ pc' = [pc EXCEPT ![s] = to]

QueueDeclare(s) ==
    /\ Goto(s, "idle", IF channel = "open" THEN "bind" ELSE "ended")
    /\ UNCHANGED <<session, foreign, publisher, stored, broker, latest, history>>

\* The error is not looked at.
QueueBind(s) ==
    /\ Goto(s, "bind", "consume")
    /\ bound' = [bound EXCEPT ![s] = channel = "open" /\ exchange]
    /\ channel' = IF exchange THEN channel ELSE "closed"
    /\ kept' = [kept EXCEPT ![s] = bound'[s] /\ publisher # "broken"]
    /\ UNCHANGED <<session, foreign, publisher, stored, exchange, queue, latest,
                   published, delivered>>

Consume(s) ==
    /\ Goto(s, "consume", IF channel = "open" THEN "select" ELSE "ended")
    /\ latest' = [latest EXCEPT ![s] = IF channel = "open" THEN "reading" ELSE "none"]
    /\ UNCHANGED <<session, foreign, publisher, stored, broker, history>>

\* The goroutine: there is a status, or it says nothing for ever.
retrieveLatestStatus(s) ==
    /\ latest[s] = "reading"
    /\ latest' = [latest EXCEPT ![s] = IF stored = None THEN "gone" ELSE stored]
    /\ UNCHANGED <<session, foreign, publisher, stored, broker, pc, history>>

\* Fault: the channel is closed rather than the consumer cancelled.
EndClosingChannel(s) ==
    /\ Goto(s, "select", "ended")
    /\ channel' = "closed"
    /\ Unbind(s)

\* Fault: the exchange is deleted along with the queue.
EndDeletingExchange(s) ==
    /\ Goto(s, "select", "ended")
    /\ QueueGoes(s)
    /\ exchange' = FALSE
    /\ UNCHANGED channel

\* Cancel, by defer.
End(s) ==
    /\ Goto(s, "select", "ended")
    /\ Unbind(s)
    /\ UNCHANGED channel

\* Fault: one of the four statuses is forgotten.
EndsOnThree(u) == u \in Terminal \ {"FINISHED"}

isTerminalState(u) == u \in Terminal

SelectLatest(s) ==
    /\ pc[s] = "select"
    /\ latest[s] \notin {"none", "reading", "gone"}
    /\ latest' = [latest EXCEPT ![s] = "gone"]
    /\ IF isTerminalState(latest[s]) THEN End(s)
       ELSE UNCHANGED <<broker, pc, history>>
    /\ UNCHANGED <<session, foreign, publisher, stored>>

\* Updates of other tasks are neither sent nor acknowledged.
SelectUpdate(s) ==
    /\ pc[s] = "select"
    /\ queue[s] # <<>>
    /\ LET u == Head(queue[s]) IN
       IF isTerminalState(u) THEN End(s)
       ELSE /\ queue' = [queue EXCEPT ![s] = Tail(@)]
            /\ delivered' = [delivered EXCEPT ![s] = IF u = None THEN @ ELSE Append(@, u)]
            /\ UNCHANGED <<exchange, channel, bound, pc, published, kept>>
    /\ UNCHANGED <<session, foreign, publisher, stored, latest>>

\* observer.Context().Done()
ContextDone(s) ==
    /\ MayCancel
    /\ End(s)
    /\ UNCHANGED <<session, foreign, publisher, stored, latest>>

----------------------------------------------------------------------------
WorkerStep ==
    \/ PublishStarted
    \/ SendStarted
    \/ PublishNewSolution
    \/ SendInProgress
    \/ \E e \in {"PAUSED", "INTERRUPTED", "ERROR", "FINISHED"} : PublishEnding(e)
    \/ SendEnding

\* What a call does of its own.
StreamStep(s) ==
    \/ QueueBind(s)
    \/ Consume(s)
    \/ retrieveLatestStatus(s)
    \/ SelectLatest(s)
    \/ SelectUpdate(s)

Next ==
    \/ WorkerStep
    \/ PublishForeign
    \/ StopTsp
    \/ \E s \in Streams : QueueDeclare(s) \/ StreamStep(s) \/ ContextDone(s)

\* A call that has begun runs; a select that can take an update at last does.
Spec ==
    /\ Init
    /\ [][Next]_vars
    /\ \A s \in Streams : WF_vars(StreamStep(s)) /\ WF_vars(SelectUpdate(s))

----------------------------------------------------------------------------
\* No call waits on the closed channel (its updates would be empty messages, read
\* in a loop): whoever closes it, with a bind or a publication to an exchange
\* that deleted itself, does so when no other call has a queue.
NoStreamOnClosedChannel ==
    \A s \in Streams :
        /\ pc[s] = "select" => channel = "open"
        /\ bound[s] => exchange

\* The updates of the task among the messages of a queue.
OwnUpdates(q) ==
    LET own[n \in 0..Len(q)] ==
            IF n = 0 THEN <<>>
            ELSE IF q[n] = None THEN own[n - 1] ELSE Append(own[n - 1], q[n])
    IN own[Len(q)]

\* Of what the worker and StopTsp publish while a client's queue is bound, nothing is
\* lost, repeated or out of order from the first update that it gets, whatever other
\* clients hang up, the goroutine reads, or other tasks publish: neither the worker's
\* channel nor the server's is closed by the broker while there is a queue.  Updates
\* are missing at the beginning only if the worker's channel was closed before.
NoGapInUpdates ==
    \A s \in Streams :
        bound[s] =>
            \E n \in 0..Len(published[s]) :
                /\ delivered[s] \o OwnUpdates(queue[s])
                       = SubSeq(published[s], n + 1, Len(published[s]))
                /\ kept[s] => n = 0

\* A call that had its queue before the task's last update ends, whoever hangs up
\* or stops the task meanwhile; unless the broker had closed the worker's channel
\* before, when the exchange had gone with the last subscriber.
StreamEnds ==
    \A s \in Streams :
        (/\ bound[s] /\ publisher # "broken"
         /\ worker \notin {"storing", "over"} /\ <>(worker = "over"))
            ~> pc[s] = "ended"

=============================================================================
