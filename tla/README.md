# Formal models of assfire-suite

assfire-suite is a set of services for routing, travelling-salesman (TSP)
optimisation and waybill scheduling. This directory holds TLA+ models of its
services: the TSP service from the threads of a session to the stream of status
updates a client reads, the distance matrices, router client, router server and
route cache it gets its routes from, and the scheduler; the configurations that
model-check them with TLC; and proofs, checked by TLAPS, that the safety
properties hold for every value of the constants.

    tlc -workers 2 -config TspSafety.cfg MCTsp.tla       # check a run
    tlapm TspSystem_proofs.tla                           # check the proofs

`PROJECT.json` lists the runs, the theorems, the lines of source each definition
stands for, the hazards of the code, and for each property a fault that makes TLC
find it violated. Such faults are operators next to the action they replace;
their comment begins with "Fault:" and no specification uses them.

## 1. The system

Paths are relative to `src/apps`.

| Component | State | Operations | Talks to |
|---|---|---|---|
| TSP session: `EngineTspSolutionController` (`tsp/engine`) and the algorithms `TimeWasting`, `TwoOpt` | `is_started`, `is_interrupted`, `has_final_solution`, the future `control_state`, the container of the saved state | start, resume, pause, interrupt, destructor; a task thread per launch that runs `solveTsp` | its owner (a worker) by callbacks: next solution, final solution, error, persister |
| TSP worker (`tsp/worker`) | the flags `done` and `interrupted` of the loop body, the session, the signal processors of the interrupt listener | `Worker::start`: take a start message, lock, solve, report, unlock | Redis, RabbitMQ |
| TSP server (`tsp/go/server/server.go`) | none between calls | StartTsp, PauseTsp, ResumeTsp, StopTsp, GetLatestSolution, SubscribeForStatusUpdates | Redis, RabbitMQ |
| Redis | per task: `task`, `lock`, `status`, `attempts`, `state`, `solution`, `keepAlive` | GET, SET, GETSET, DEL, INCR, expiry | |
| RabbitMQ | the task queue; the interrupt exchange with a queue per worker; the status exchange with a queue per subscriber | publish, consume, acknowledge | |
| Status publisher (`tsp/worker/.../AmqpStatusPublisher`) | a publisher per task, all on channel 3 of the worker's connection | publish, release | RabbitMQ |
| Distance matrices (`router/api`): `FullMatrixCacheDistanceMatrixEngine`, `DirectRequestDistanceMatrixEngine` | the known locations, `is_initialized`, the matrix of routes, a lock; or nothing | addLocation, getRouteInfo, getRouteDetails | a route provider engine |
| Router client (`router/client`) | none between calls | single routes, batches, streamed batches | router server, gRPC |
| Router server (`router/server`) | none between calls | GetSingleRoute, GetRoutesBatch, GetStreamingRoutesBatch | a matrix per request |
| Route cache (`router/engine`): `RedisRouteProviderEngine`, `CppRedisCacheConnector` | routes in Redis; puts under way on a connection | look up, ask the backend, put | Redis, a provider |
| Route providers (OSRM, crowflight, Euclidean, random) | none | a route | OSRM |
| Scheduler (`scheduler`): algorithms, service, client | the waybill being scheduled | linear and bilinear scheduling, ScheduleWaybill | a distance matrix, gRPC |
| Concepts and translators | none | conversions between API values and messages | |
| Gateways, tools, deployment | none | | |

Servers and workers never call one another. A server stores a task in Redis and
sends a start message; some worker takes it, and takes the lock of the task in
Redis. The worker has three threads: the main thread waits for `done` and sends a
heartbeat status every five seconds; the engine thread runs the algorithm and
calls back into the worker for every solution; the thread of the interrupt
listener handles PAUSE and INTERRUPT signals. All three write the status of the
task. A paused session persists the iteration it has reached, and a resume is a
start message that any worker may take.

What is hard about it:

- *Threads.* `launchTask` takes a flag, waits for a future, clears the interrupt
  flag and starts a task that gives the flag back, while other threads pause it.
  The three threads of a worker share flags without a lock.
- *Several writers of one key.* Main thread, engine thread, interrupt handler and
  server write the status, in any order.
- *Failure.* Any call to Redis or RabbitMQ may fail; some failures throw, some are
  logged, some are taken for an answer. A worker may die with the lock held.
- *Readers without a lock.* A full matrix is calculated under a lock and read
  without it, by callers that looked their indices up long before.
- *Caches.* Requests share routes in Redis, ask the backend side by side, and nobody
  waits for a put.
- *Streams.* A reply per pair of locations, requests and replies at the same time,
  flow control; updates from a queue and a stored status from a goroutine.
- *Boundaries.* The last range of 2-opt, 64 bits in 32, six digits of a double,
  positions instead of locations, keys without a separator, enumerations that are open.
- *Ordering and loss.* Start messages are acknowledged before the task is locked
  and dropped when it is; signals without a processor are dropped.

The properties that make it correct, by component:

- a session never runs two tasks at once, never claims work it has not done, comes to
  an end, and is outlived by nothing it started; 2-opt stays within its sequence, keeps
  it a permutation, tries what it should and goes on with what it saved;
- a task is worked on by one worker; saved progress survives pauses and crashes; a
  finished task has its final solution; a lock that was taken is released;
- what is published while a subscriber has its queue reaches it without a gap from the
  first update that does, its stream ends, and no call is left on a channel that was
  closed; the main thread and the engine of a worker do not get in one another's way on
  the connection they use without a lock;
- a matrix answers with the route between the two locations it was asked for, or with
  what the error policy says, whoever adds locations or calculates it meanwhile;
- a batch returns a route in no place but its own, and every call ends; the cache returns
  what the backend answered for these locations and settings, and asks it for nothing that
  it could find;
- a schedule can be driven, nobody who was on time is made late, and what the client
  gets is the waybill it sent; settings arrive as they were meant.

The full list of hazards, at their lines, is in `PROJECT.json`.

## 2. The modules

| Module | Models | Extends |
|---|---|---|
| `ResumableRun` | the abstract specification: what a resumable computation promises | |
| `EngineTspSolutionController` | one session, all its threads, any number of launches | |
| `TspStore` | the Redis keys and RabbitMQ queues, one command each | |
| `TspServer` | the four calls of the server that change something | `TspStore` |
| `TspWorker` | the worker processes, three threads each | `TspStore` |
| `TspSystem` | servers and workers together; the properties | `TspServer`, `TspWorker` |
| `TwoOptTspAlgorithm` | what a session of 2-opt computes: sequences, costs, the states (i, j, k), what is saved | |
| `TspStatusStream` | status updates from a worker through RabbitMQ and Redis to the calls that subscribed | |
| `StatusChannel` | the AMQP channel three threads of a worker publish on | |
| `RouterConcepts` | locations, their keys, routes, error policies | |
| `DistanceMatrix` | the abstract specification: what a matrix promises | `RouterConcepts` |
| `FullMatrixCache`, `DirectRequestMatrix` | the two engines, each shown to implement it | `RouterConcepts` |
| `RoutesBatch` | single routes and batches between client and server | `RouterConcepts` |
| `RoutesStream` | the streamed batch: two threads of the client, the handler, flow control | |
| `RouteCache` | router engines in front of a cache and a backend | |
| `WaybillScheduling` | both algorithms of the scheduler | |
| `ScheduleWaybill` | a waybill to the scheduler's service and back | instance of `WaybillScheduling` |
| `TaskSettings` | settings of a task, waybill or route through two translations | |
| `MCEngineController`, `MCTsp`, `MCTwoOpt` | constants for TLC | the module they are about |
| `MCRouter` | matrix, batch and cache side by side | `FullMatrixCache`, instances of `RoutesBatch`, `RouteCache` |
| `MCServices` | scheduler, settings, status updates and channel side by side | `WaybillScheduling`, instances of `ScheduleWaybill`, `TaskSettings`, `TspStatusStream`, `StatusChannel` |
| `MCProgress` | what somebody waits for, side by side | `TspStatusStream`, instances of `RoutesStream`, `FullMatrixCache`, `DirectRequestMatrix` |
| `..._proofs` | theorems | the module they are about; `MCServices_proofs` also has an instance of `WaybillScheduling_proofs`, `MCProgress_proofs` one of `FullMatrixCache_proofs` |

**`EngineTspSolutionController`.** The variables are the fields of the class under
their own names; `owner`, `task[t]` and `at[t]` are program counters and the
algorithm's loop variable; `persisted`, `executed` and `finals` record what an
observer sees. `launchTask` is cut at each access to a shared field:
`Resume` (the test of `has_final_solution`), `CompareExchange`, `WaitForTaskStop`,
`ClearInterrupt`, `Launch`, `AssignControlState`. The last one blocks as the
assignment to a future of `std::async` does. The task goes through `Validate`,
`PublishInitial`, then `TestLoop`, `Iterate`, `CheckInterrupted` in a circle,
`PublishLast`, `Persist`, `ClearStarted`, `Return`, and from any call that may throw
to `OnError`. An iteration is a number: the counter of the time-wasting
algorithm, or the rank of (k, i, j) in the order 2-opt visits them. Which saved
iterations `validateOrResetSavedState` refuses is the constant `Rejected`.

**`TspStore`.** A key that does not exist is `FALSE`, `"NONE"`, 0 or `NoState`. A
solution is `"none"`, `"partial"` or `"final"`; a saved state is the iteration it
resumes at. Several workers consume the task queue: RabbitMQ deals messages out
ahead of time, here a worker takes the next one when it is free.

**`TspServer`.** A call is at one of the requests it still has to make, and
`in_flight` counts the calls of each task at each request: calls of any number
of server replicas. With `CallsFail` a call stops anywhere with an error, and
`StopTsp` goes on without the status when only that request fails.

**`TspWorker`.** `worker[w]`, `engine[w]` and `handler[w]` are the program counters of
the three threads; every call to Redis or RabbitMQ is a step, as is every access to
a shared flag. The session is the part of `EngineTspSolutionController` a worker
uses (started once, never resumed, destroyed at the end of the try block): the
steps of its task between two shared accesses are merged. `Close` and `Join` are the
two halves of its destructor. `FaultKinds` names the calls that fail:

| Kind | Fails | Effect |
|---|---|---|
| `worker` | a call of the try block of `Worker::start` throws | the catch block, after the session is gone |
| `catch` | a call of the catch block throws | leaves `Worker::start`; the destructor of the interrupt listener never returns (`hung`) |
| `engine` | the algorithm, a callback or the error callback throws | the error callback, or only a log message |
| `handler` | a call of the signal processor throws | the listening thread ends (`dead`) |
| `store` | Redis answers with an error that is logged or taken for a "no" | goes on |

`Crash` ends a process wherever one of its threads has something under way; it is
started again with empty memory and a new interrupt queue. It also stands for exceptions outside the
try block and for a handler that uses the loop body after its end.

**`TspSystem`** interleaves the steps of all of them and adds the expiry of
solutions.

**`TwoOptTspAlgorithm`.** `EngineTspSolutionController` has the threads and a number for
an iteration; here are the iterations. `Init` is `TspSolverEngine::solveTsp`, `solveTsp`
the creation or loading of the first solution, `Test`, `Iterate` and `Check` the three
places of the loop at which a pause makes a difference. Vectors are functions on
0..N-1, as in C++. `nextState` and `Reverse` are the code's functions; the matrix is any
of `Tables`, one for each launch, as the router may answer differently. `tried` is
a history of the states executed since the algorithm began afresh, those before a saved
one included.

**`TspStatusStream`.** The worker is reduced to the order in which it publishes and stores
statuses (`TspWorker` has why); `publisher`, `channel`, `exchange` and `queue[s]` are what
RabbitMQ keeps. A subscription is cut at `QueueDeclare`, `QueueBind`, `Consume`, the read
of the goroutine (`retrieveLatestStatus`) and the branches of the select. The
exchange deletes itself with its last queue; binding or publishing to it then closes the
channel of who did. `published[s]` is a history apart from the queue: what the worker and
StopTsp published while the queue is bound, whether or not the broker took it. An update on
a broken channel is in `published`, not in `queue`. `delivered[s]` is what was sent to the
client, `kept[s]` whether the worker's channel was in order at the bind.

**`StatusChannel`.** `publishers` and `copies` are the map of shared publishers and their
reference counts; `call[t]` is where a thread is in `publish...()` or `release()`: `Find`,
`Open`, `Declare`, `Store`, `Send`, `Drop`, `Close`, `Erase`. Opening a channel, declaring the
exchange, publishing and closing are calls of the client library, which begin (`Enter`)
and end with a step of their own; nothing keeps two threads from being `inside` at once,
which is a data race. A channel opened twice, or used when closed, makes the broker close the
connection. Either way `connection` is `"broken"`, and the model stops there. Each of
these calls may throw, and what was to follow it is then left out; if the exchange
cannot be declared, the channel is closed again. The mutex of the publisher is modelled where it is held
during a call of the library: `releasePublisher` destroys the publisher, and so closes the
channel, under it (`Locked`). The three threads do what `Worker.cpp` has them do, in its order:
NEW_SOLUTION and then FINISHED for a final solution, ERROR after whatever has thrown in a callback,
even after FINISHED (`OnError`), the catch block of the main thread, and its `release`.
`met` and `late` are histories: a call of the signal's handler was under way together with another
one, or began after the task's publisher had been released.

**`FullMatrixCache`.** Every access to `is_initialized`, `known_locations_mapping`, the lock
and the pointer to the matrix is a step: `AddLocation` (clears the flag), `StoreLocation`,
`TestInitialized`, `Calculate` or `FailToCalculate`, `Publish`, `LoadPointer`, `CopyEntry`. A
caller whose matrix was replaced meanwhile reads `Garbage`. **`DirectRequestMatrix`** asks
the provider in two steps, so that callers overlap. Both implement `DistanceMatrix`, whose
state is what callers asked for and were answered.

**`RoutesBatch`.** A call goes through the client's engine (repeated locations are left
out, positions remembered by key), the handler (a matrix for the request, a reply per
pair) and back, where `Read` keeps a reply and `Fill` puts its routes into their places.
The other places get `Missing` ways from `origins[i]` to `origins[j]`, as in the code
(GrpcRouteProviderEngine.cpp:170). What lies past the end of the origins, when there are more
destinations, is undefined: `ReturnRoutes` reads any location or none there (`Past`), or
crashes.
**`RoutesStream`** has the same service as a stream of requests; its data are numbers
of messages, because flow control is what can go wrong.

**`RouteCache`.** An engine is made for a request with its settings and `force_update`; `Key`
is what the serializer makes of locations and settings; `pending[e]` are its puts that Redis
has not executed. Redis executes a put (`Execute`), loses it with the connection (`GetFails`),
or answers with an error that is only logged (`Reject`). Entries do not expire, and none is
evicted. `Printed` is a number as a stream of limited precision prints it.

**`WaybillScheduling`.** A step is a round of the loop over allocations: `Linear` and
`Bilinear`; `Shift` moves what is scheduled already. **`ScheduleWaybill`** has the call around
it; what crosses the wire wraps to `Half`, half the range of an int32. `sent` is a history
of the waybill the client called with, before it crosses.
**`TaskSettings`** has the translators as functions on numbers and names: `FromProto`
and `ToProto` are what all of them do with an enumeration.

## 3. What is checked

| Run | Instance | Properties | Result |
|---|---|---|---|
| `engine_controller` | 3 launches, 3 iterations, any saved state, exceptions | `TypeOK`, `OneActiveTask`, `NoIterationSkipped`, `NoTaskOutlivesController`, `TaskEnds`, `CallsReturn`, `ImplementsResumableRun` | hold |
| `engine_exactly_once` | 2 launches, nothing saved, no exceptions | `ExecutedOnce` | violated |
| `tsp_safety` | 1 task, 2 workers, 3 calls, 3 iterations, 1 crash | `FinishedHasFinalSolution`, `SavedProgressKept`, `TasksImplementResumableRun` | hold |
| `tsp_failures` | 1 task, 2 workers, 2 calls, 2 faults of any kind, 2 crashes | `TypeOK`, `OneWorkerPerTask`, `TasksImplementResumableRun` | hold |
| `tsp_liveness` | 1 task, 1 worker, 3 calls, 1 fault | `LockReleased` | holds |
| `tsp_in_progress` | 1 task, 1 worker, 1 call | `InProgressIsWorkedOn` | violated |
| `tsp_finished` | 1 task, 1 worker, 2 calls | `FinishedStays` | violated |
| `tsp_dropped` | 1 task, 2 workers, 3 calls | `DroppedOnlyIfWorkedOn` | violated |
| `two_opt` | 4 points, 5 saved states, a failing router, 2 pauses | `RangesInBounds`, `PermutationKept`, `SequencesAgree`, `EveryRangeTried`, `Ends` | hold |
| `router` | matrix: 2 callers, 3 locations added at any time, a missing route | `ReadsInBounds`, `EntriesInPlace`, `EntriesKept` | hold |
| | batch: lists of up to 2 of 3 locations, 2 of them with one key in the matrix, failing connections, anything past the end of the origins | `EveryPairRepliedToOnce`, `RoutesInPlace` | hold |
| | cache: 2 engines, 2 settings, 3 calls, failing gets and backends, lost and rejected puts | `RoutesOfTheBackend`, `OnlyMissingAsked` | hold |
| `services` | algorithm: 3 allocations, 10 kinds, routes up to infinity | `Feasible`, `EndsAsEarly`, `WaitsOnlyWithoutSlack`, `ShiftKeepsOnTime` | hold |
| | call: 3 allocations, 4 kinds, any algorithm, an error at any time | `ComesBackScheduled` | holds |
| | settings: any settings; messages with the numbers 0 to 4 | `SettingsArrive`, `RequestOfTheTask` | hold |
| | updates: 2 subscribers, 1 session, 2 solutions, 1 update of another task, hang-ups, StopTsp | `NoStreamOnClosedChannel`, `NoGapInUpdates` | hold |
| | channel: 3 threads, 2 tasks, 2 signals each, any call may throw | `SharedWithoutClash` | holds |
| `progress` | updates: 2 subscribers, 1 session, 1 solution, hang-ups, StopTsp | `StreamEnds` | holds |
| | routes: 4 requests, up to 2 replies, 1 message under way | `AllAnswered`, `StreamedCallEnds` | hold |
| | matrix, direct: 2 callers, 2 locations, a missing route | `ImplementsDistanceMatrix` | holds |

*Why these bounds.* Three launches let a resume overlap a task that is winding down
while the next one waits, and a task follow a failed one; a fourth meets the same
situations, as nothing but the latest task can be active (`TasksNumbered`, proved).
Three iterations give a pause a beginning, a middle and an end; the last one is
refused when it was saved, as counter 99 is. Tasks share nothing but the workers, so
one task shows what several would, except for a handler that is late and meets the
session of another task; in the model it uses the job of that moment, whichever
it is, and the theorems hold for any number of tasks. Two workers are enough to
disagree. Three calls are a start, an interruption and a resume, or two of either.
`MaxAttempts` is small enough to be reached (5 in the code). Symmetry is used
among workers, in safety runs only: their properties do not distinguish them.
`CHECK_DEADLOCK FALSE` is in the configurations of the service: with all calls made
and all tasks done, workers rightly wait for ever.

*Parts.* `router`, `services` and `progress` each check several modules that
have no state in common. The variable `part` says which one a behaviour is about: the
initial states are those of all of them, steps are those of that part, and the
variables of the others rest (`MCRouter`, `MCServices`, `MCProgress`). A property is
about the part whose module it comes from; in the others it is about an initial state.

Four points have ranges with a beginning, a middle and an end, and all of [i, j) but the
first in each pass; a pause may come at every place of the loop. Two subscribers can
close the channel on one another; with two solutions there is one update before, and one
after, a subscriber comes or goes. A
worker works on one task after another, so that two tasks show what is left over; two
signals are one that is handled in time and one that meets another call or is late, and the
worker goes on after both. Two callers of a matrix disagree
about its age; a third meets what one of two does, as the lock admits one. Three
locations let a matrix be replaced while it is read. Lists of two have repetitions and
equal positions. In the stream, a window of one message blocks both sides at once.
Three calls to the cache are a first one, a forced one and a later one. Three allocations
let a shift move two. `Half` is small enough for infinity not to fit. Numbers from 0 to 4
are all a translator knows and one it does not. Symmetry is used among callers, engines
and subscribers where no liveness is checked. Deadlock is checked in `router`, where
callers and engines may always ask again; elsewhere calls, waybills and sessions are over
at some time, and `CHECK_DEADLOCK FALSE` is for that.

*Fairness.* Weak fairness for each thread of the session and of each worker: a
thread that can go on is scheduled. Nothing is assumed of those who make calls
(servers, callers of pause, resume and the destructor), of failures, or of expiry.
The main thread is fair as a whole, not step by step, and `WaitUntil` needs no more:
with `done` false it goes round through the heartbeat. In the other modules fairness is
weak and belongs to a thread or a handler: a caller of a full matrix (`Step(c)`) and the
provider behind the other one; the two threads of a streamed call and its handler; the
session of 2-opt (pauses are bounded, not fair); a subscriber and, since Go chooses
at random between the ready branches of a select, its branch for updates by itself.
`ProgressSpec` states it for each part.

*What the violations show.*

- `ExecutedOnce`: both algorithms read `isInterrupted()` twice per iteration, first to
  save the state, then to leave the loop. A pause in between is acted upon but nothing is
  saved, and the run starts over from where it was started. The test
  `InterruptResumeWorkflowIsThreadSafe` asserts that each iteration is executed
  exactly once; the algorithm it brings along has the same two reads.
- `InProgressIsWorkedOn`: the heartbeat can follow `sendFinished`; the finished task
  stays IN_PROGRESS, and cannot be resumed either.
- `FinishedStays`: the interrupt handler can follow `sendFinished`; the finished task
  is PAUSED or INTERRUPTED.
- `DroppedOnlyIfWorkedOn`: a resume may reach a worker while the one that was paused
  still has the lock, and is dropped.

*Further configurations.* These end in a violation, too. Each shows what the code does
where a test, a message, a name in the repository or the documentation of a library it
uses says otherwise; `tlc` reports the behaviour.

| Configuration | Module | Property | What it shows |
|---|---|---|---|
| `TwoOptUsed` | `MCTwoOpt` | `UsesWhatItSaved` | the last range of a row ends at the number of points, and a state saved there is refused as inconsistent (TwoOptTspAlgorithm.cpp:36) |
| `RouterKeys` | `MCRouter` | `CacheOnlyForKnown` | two locations with one key share the routes of the one that was added (FullMatrixCacheDistanceMatrixEngine.cpp:80) |
| `RouterComplete` | `MCRouter` | `EveryRouteReturned` | the client copies each streamed reply over the one before it (GrpcRouteProviderEngine.cpp:100) |
| `RouterMissing` | `MCRouter` | `MissingOfItsPair` | the missing ways of a batch name an origin as their destination, or what lies past the end of the origins (GrpcRouteProviderEngine.cpp:170) |
| `RouterZero` | `MCRouter` | `ZeroForSelfOnly` | equal positions in two lists are taken for equal locations (GrpcRouteProviderEngine.cpp:121) |
| `RouterForced` | `MCRouter` | `UpdatedOnForceUpdate` | a request that asked the backend before a change puts its route after a forced update (RedisRouteProviderEngine.cpp:54) |
| `RouterPrinted` | `MCRouter` | `SameResultReturned` | distances in the cache have six digits (DefaultRedisSerializer.hpp:34) |
| `ServicesLate` | `MCServices` | `LateOnlyIfWindowsAreTooTight` | only the first window of an allocation is ever used (WaybillAllocation.cpp:42) |
| `ServicesClash` | `MCServices` | `NeverBroken` | one signal that is handled while the engine publishes is enough for two threads in the AMQP library at once (AmqpStatusPublisher.cpp:77) |
| `ServicesInfinity` | `MCServices` | `FailedRoutesAreInfinite` | an infinite duration crosses the wire as a negative one (TimeIntervalTranslator.cpp:11) |

What the models show and nothing in the repository rules out, so that there is no
configuration for it: a subscriber that binds its queue between the last update and the storing of the last
status waits for ever; an older stored status may follow a newer update; a worker whose status exchange went
with its last subscriber loses all updates up to the end of the session, also those for
subscribers that come later (the reason for `kept`); a task whose final solution Redis
did not store is FINISHED; an error callback that throws leaves the worker waiting; a batch
between equal locations throws; the cost per kilometre crosses the wire and is used by nobody.

## 4. What is proved

For every value of the constants, under the named assumptions on them only.

**The session** (`EngineTspSolutionController_proofs`). `OneActiveTask` is not inductive:
that the compare-exchange fails while a task is active has to be said. The invariant
`IInv` adds that tasks are numbered by launches and only the latest can be active
(`TasksNumbered`); that `is_started` is true from the owner's compare-exchange to the
last store of the task, so that the owner and an active task exclude one another in
between (`StartedIsHeld`); and that `control_state` is the latest task except between
the launch and the assignment (`FutureIsCurrent`), which the destructor needs. From it
follow `TypeCorrect`, `TaskExclusion`, `ProgressIsBacked`, `DestructorWaits`, and
`Refinement`: the session implements `ResumableRun`, step by step. `StartIsGivenBack` says that
somebody is on the way to clear `is_started` whenever it is set (`SomebodyHolds`), and that
no future is waited for whose task was not started; `SessionGetsOn`, that each step of a
task or of its owner uses up one of a number of steps left to it (`TaskLeft`), and nobody
gives it more. `TaskEnds` and `CallsReturn` rest on both.

**The service** (`TspSystem_proofs`). The invariant has six layers, each proved for
every kind of step (main thread, engine thread, handler, failure, server, expiry). The
last four need the first two, and none of them another one.

1. `TInv`, types. It is inductive only with `JobKnown` (a worker past `idle` has a task) and
   `AdvanceBounded` (an engine that goes to the next iteration has one).
2. `XInv`, exclusion: an engine thread exists only while its main thread is in the part
   of the loop where the session is alive (`EngineInSession`), who holds a task has
   its lock set (`Locked`), and two workers do not hold the same one (`Exclusive`).
   `OneWorkerPerTask` follows.
3. `FInv`: a worker that is about to report a task as
   finished has stored its final solution (`Announcing`), a worker that may
   still store a partial one does not work on a FINISHED task (`Unreported`). The
   theorem `FinishedFinal` assumes `"store" \notin FaultKinds`: `RedisSolutionPublisher`
   only logs when Redis refuses a solution.
4. `PInv`: neither the state of a task in Redis, nor what its worker has loaded or is going
   to persist (`Loaded`), nor the iteration it is at (`Looping`) is ahead of what was
   executed (`Backed`). With it every step is one of `ResumableRun` for each task, or a
   stutter: `RunImplemented`, whatever crashes or fails.
5. `KInv`: what a worker has loaded is what Redis holds, or was cleared since, until the
   algorithm has looked at it (`Fresh`); what it is going to persist is not behind the
   state in Redis (`Saving`), which no other worker writes. From it follows `SavedKept`, again
   for `"store" \notin FaultKinds`: a state that Redis does not store is lost.
6. `WInv`: a locked task is at a worker that does not hang (`Held`), and a session that was
   interrupted or has ended has a main thread that knows, or a handler about to tell
   it (`Awake`): nobody waits for a notification that will not come. `LockHasHolder`
   states what a locked task then has. It assumes `FewFailures`: no crashes, failures
   of the try block and of the engine only, and one of them at most if the engine is among them. Each
   part is needed, as TLC shows without it. The second failure of the engine is the hazard of the error callback that throws
   after the error it was called for (EngineTspSolutionController.cpp:82).

`LockReleased` rests on the sixth and on `EngineShortens`: each step of an engine thread uses
up one of the steps it has left (`EngineLeft`, a function of its program counter and its
iteration), and no step of anybody else gives it more, whatever crashes or fails.

**The matrices.** `FullMatrixCache_proofs`: the lock is held by the caller that stores a
location or publishes a matrix, and the flag is down while a location is stored (`LockHeld`);
indices are those of known locations (`IdsKnown`), which never become fewer, so that a
reader without the lock is within bounds of any matrix it can find; when nobody adds
locations meanwhile, a reader finds the matrix initialized and nobody replaces it
(`PointersCurrent`). `EntriesKept` is proved of every step along the way.
`Implements`: callers are answered as `DistanceMatrix` answers them. The invariant `AInv` adds that a
known location is found at its own index (`Findable`), that the indices of a caller are those of
what it asked for, until it has its answer (`Asking`), and that each entry answers for its
row and column (`EntriesAnswer`). It assumes that nobody adds locations while somebody reads, that no two
locations have one key (`KeysDiffer`, as `encodeLocation` does not see to it), and that
`NoRequest` and `NoReply` are no request and no reply. `CallsEnd`: who has the lock gives it back
with its next step (`LockGivenBack`), a call has six steps at the most, and one that waits for
the lock is not overtaken once the matrix is initialized.
In `MCProgress_proofs`, `DirectImplements` is the same for the other engine, without conditions on
keys: a caller is with the provider exactly when it has no answer yet. `BothImplement`
is the two together, as `MCProgress` composes them.

**2-opt** (`TwoOptTspAlgorithm_proofs`), for any number of points from two and any saved
state the algorithm may have written: the state is a range in the sequence (`RangeOfState`)
since `nextState` and a state that passes validation are; a reversed range of a
permutation is a permutation (`ReversePermutes`), and reversing it again restores it
(`ReverseTwice`), which is how a worse sequence is undone and the loop and the saved
solution agree. `AllTried` rests on `TInv`: all that comes, in later passes, before the
state that is saved and before the one that is being tried has been tried, across pauses
and launches; no state lies between one and its `nextState`. `PassesGetOn`, which `Ends` rests on: a
step uses up one of the pauses that are left (`PausesLeft`), or leaves fewer steps to the
next one (`StepsLeft`, where `RangesFrom` counts the ranges from a state to the last one).

**The scheduler** (`WaybillScheduling_proofs`), for waybills of any length: the budget of the
shifts is no more than the slack of anybody who is scheduled (`BudgetKeepsOnTime`), and no less
than that of somebody (`BudgetIsSomebodys`); the loop stands where the last allocation
and its route end (`AtTheNext`). From the first follows that a shift makes nobody late,
from the second that the vehicle waits only when somebody has no slack left. `AsEarly`
is that shifts cost no time: an allocation ends, when it is scheduled, as early as if nobody
had been shifted. `EarliestEnds` is a recursive function: that it satisfies its own definition
(`EndsOf`), and is the same for waybills that agree on windows, durations and routes
(`EndsAgree`), as they do before and after a shift, is shown by the least index at which it
would fail.
`WaybillsAssumption` says that windows begin before `TimeInterval::infinity()` as a time.

**The cache and the batch** (`MCRouter_proofs`).

- *Cache.* `CacheInv`: whatever is in Redis or on its way there was answered by the backend for
  its key (`EntriesOnly`), and a key the backend was asked for is in Redis, in the queue of
  the connection the next look-up uses, or about to be put (`MissedArrive`). The first
  gives `BackendsOnly`, the second `AskedOnce`: the puts nobody waits for arrive before the
  next get of the same engine. A put that is rejected, or lost with the connection of a get
  that fails, takes its key out of what the engine is known to have asked for (`missed`).
- *Batch.* `BatchInv`: between the call, the message, the pairs the handler has still to
  reply to and the replies, a pair is in one place only (`LeftOrSent`). `FirstOfEach`
  and `AllPairs` are folds; that they return each location, and each pair, once is
  proved of them (`FirstOfEachOnce`, `AllPairsOnce`). That the client leaves out repeated
  locations and no others needs `LocationKeysDiffer`: decimal numbers of any length with a
  space in between determine both. `RepliedToOnce` follows.
- *Routes.* `RepliesInv` carries the route of each reply to the places of its pair
  (`Fitting`). `encodeLocation` gives some locations one key, so that the route is one between two
  locations of the call that the server's matrix takes for the two of the place;
  `ReturnedWhereAsked` says this with no assumption on keys, and for anything that is
  read past the end of the origins.

**The stream of requests** (`MCProgress_proofs`). `RoutesInv`: as long as the server has not given up,
every reply that was asked for was read, is on its way, is owed by the handler, or belongs
to a request on its way. The sum over those is said by its running totals (`AskedBy`): a
function on the places of the queue, of which a request that is read drops the first and one that is
written appends the last. The server returns when nothing is left, and the caller after it
(`Ordered`), so that `AllAnswered` holds (`Answering`). `NoCircle`: until the call is over, the thread
that writes, the caller or the server has something to do, however narrow the window.
`Shortening`: each step, a broken connection included, leaves fewer of them (`StepsLeft`).
`StreamedCallEnds` rests on the last two.

**Subscribers** (`MCProgress_proofs`). `UpdatesInv`: only a bound queue holds updates, and it keeps the
exchange and with it the channel (`QueuesKeep`). `EndIsCertain`: a call whose queue is bound stays so
until it ends, gets the update its task ends with, and has it one place nearer with each
update it takes; meanwhile its branch of the select can be taken. `StreamEnds` rests on it.

**Scheduler's call, settings, updates, channel** (`MCServices_proofs`).

- *Channel.* `ChannelInv` holds until a call of the handler meets another one or is late
  (`Blamed`): one call of one thread is under way at most, and it is about the task at work
  (`OneCalls`); the copies of a publisher are those of the thread that publishes with it
  and the one in the map (`Counted`); the channel is open for the broker as long as a task
  has a publisher, or a thread is about to store or to close one (`Steps`). The engine runs only where
  the main thread makes no calls, whatever has thrown, and none of its publishers
  is left when the next task begins (`Places`): that the main thread's `release` comes
  after `Join`, on every path, is what makes it so. `NeverClashes` follows.
- *Updates.* `StreamInv`: a queue keeps the exchange, so who closes the channel finds none:
  `ClosedForNobody`. `GapInv`: what was delivered and what is in the queue (`Got`) is, for every
  bound queue, an end of what was published. An update that is lost breaks this unless nothing was got
  before; and the worker's channel can be broken only if it was before the bind (`kept`), as
  afterwards the queue keeps the exchange. `PublisherInv` says when it may be broken at all.
  `NoneIsMissed` follows, if no status is `None` (`NoneAssumption`). What is a subscriber's own is a
  recursive function (`OwnUpdates`), with lemmas for a message that comes and one that
  goes (`OwnOfAppend`, `OwnOfTail`).
- *Settings.* `SettingsInv` says of each message what it was translated from (`OfMeant`, `OfTask`);
  `MeantIsDone` and `AskedIsSent` follow for all settings and numbers.
- *Scheduler's call.* `CallInv`: what the service schedules is what the client sent, and as long
  as the wire holds it and no route takes negative time, the algorithm keeps its own
  invariant. That is the one of `WaybillScheduling_proofs`, taken as an instance whose
  waybills are all there are; its lemmas are cited, and its assumptions
  discharged (`DriveAssumes`). `ScheduledAsSent` has the same two conditions as the
  property. The proof is why there is `sent`: compared with the request, which has
  crossed the wire and always fits it, the property said nothing of what was lost on the way.

*Recursion.* The provers cannot instantiate the library's induction theorems. Lemmas about
recursive functions and folds take the least number for which they fail
(`NatLessThanWellFounded`, `WFMin`), and show that there is none.

Proved but not checked by a run: `TypeOK` of the matrix, 2-opt and the scheduler
(`TypeCorrect`), `MatrixCoversKnown` (`Covering`), `NobodyReadsFreed` (`NotFreed`; it is about
a matrix to which nothing is added while somebody asks), `LocationKeysDiffer`; of the
refinement of `DistanceMatrix`, which a run checks with its liveness, the safety
(`Implements`, `DirectImplements`, `BothImplement`); and what progress rests on
(`StartIsGivenBack`, `SessionGetsOn`, `LockHasHolder`, `EngineShortens`, `PassesGetOn`, `CallsEnd`,
`NoCircle`, `Shortening`, `EndIsCertain`). TLC found no counterexample to the latter before they were
proved.

Only model-checked: liveness under fairness, which is out of the provers' reach (`TaskEnds`,
`CallsReturn`, `LockReleased`, `StreamEnds`, `Ends`, `StreamedCallEnds`, and that a matrix
answers in the end, which is the fairness in `ImplementsDistanceMatrix`). The safety
each of them rests on is proved: what is waited for has somebody who can bring it about,
and no step leaves more to do than there was. What remains is that threads are scheduled.
All other properties of the passing runs are theorems.

## 5. What is left out

- A call to Redis or RabbitMQ that fails does so before it takes effect; a reply that is
  lost afterwards is not modelled. (If the unlock of a finished task, Worker.cpp:53, is such
  a command, the second unlock, :157, frees the lock of another worker.)
- The contents of tasks and solutions and the random acceptance of iterations in the
  service (a choice there; `TwoOptTspAlgorithm` has them); time (a heartbeat may come at any
  moment, a solution expire, a deadline pass).
- Memory errors: a handler that uses a dead loop body is a `Crash` or acts on the next task;
  the AMQP connection that two threads use at once is broken; a freed matrix is garbage.
- Route providers: floating-point geometry, random numbers, and requests to OSRM, without
  state. The models let a provider answer or fail.
- Of the translators and concepts: streams, speeds, coordinates' arithmetic and what is
  copied field by field; validators, of which the only one accepts everything.
- `GetLatestSolution` and the last request of `PauseTsp` only read; `waitFor` only waits.
- Gateways, web page, command line tools, charts and images keep no state, or are no logic of
  this program.

## 6. What could come next

1. A fault kind for replies lost after the command took effect.
2. `TspStatusStream` below `TspSystem`, so that the stream is checked with the statuses of
   several workers.
