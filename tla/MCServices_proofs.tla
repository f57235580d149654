------------------------- MODULE MCServices_proofs --------------------------
(***************************************************************************)
(* Safety of what MCServices puts together, for every value of the         *)
(* constants: the channel the threads of a worker publish on, the status   *)
(* updates of a task, the settings of a task on their way, and a waybill   *)
(* that a client has scheduled.                                            *)
(*                                                                         *)
(* The parts share no state, so each has an invariant of its own, kept by  *)
(* its own steps, and by the others', which leave its variables alone.     *)
(***************************************************************************)
EXTENDS MCServices, WellFoundedInduction, TLAPS

----------------------------------------------------------------------------
(* The channel of a worker (StatusChannel).                                *)

\* The variables of MCServices stand for those of the channel.
Threads == Channel!Threads
Jobs == Channel!Tasks
Pubs == 1..3
Library == {"open", "declare", "send", "close", "closeErased"}

ChannelTypes ==
    /\ publishers \in [Jobs -> {0} \union Pubs]
    /\ copies \in [Pubs -> SUBSET (Threads \union {"map"})]
    /\ worker_channel \in {"open", "closed"}
    /\ inside \in SUBSET Threads
    /\ publishing \in [Threads -> {"none", "find", "store", "drop", "erase"} \union Library]
    /\ about \in [Threads -> {0} \union Jobs]
    /\ held \in [Threads -> {0} \union Pubs]
    /\ job \in {0} \union Jobs

\* One thread at a time has a call, which is about the task at work, and only it may
\* be in the library.
OneCalls ==
    /\ \A t, u \in Threads : publishing[t] # "none" /\ publishing[u] # "none" => t = u
    /\ \A t \in Threads : publishing[t] # "none" => about[t] = job /\ job \in Jobs
    /\ \A t \in inside : publishing[t] \in Library

\* The copies of a publisher are those of the threads that publish with it, and the
\* one in the map, which has none but for the task at work.
Counted ==
    /\ \A t \in Threads, p \in Pubs : t \in copies[p] <=> held[t] = p
    /\ \A p \in Pubs : "map" \in copies[p] <=> \E k \in Jobs : publishers[k] = p
    /\ \A k \in Jobs : publishers[k] # 0 => k = job

\* What the map, the copies and the channel are at each place of a call.
Steps ==
    /\ \A t \in Threads : held[t] # 0 <=> publishing[t] \in {"store", "send", "drop"}
    /\ \A t \in Threads :
          publishing[t] \in {"open", "declare", "store", "close", "closeErased"} =>
             publishers[job] = 0
    /\ \A t \in Threads : publishing[t] \in {"send", "drop"} => publishers[job] = held[t]
    /\ worker_channel = "open" <=>
          \/ \E k \in Jobs : publishers[k] # 0
          \/ \E t \in Threads : publishing[t] \in {"declare", "store", "close", "closeErased"}

\* Where the threads are when they call, and that nothing is left of a task at its end.
Places ==
    /\ publishing["main"] # "none" => main \in {"starting", "erring", "unsubscribing"}
    /\ publishing["engine"] # "none" => engine \notin {"none", "ended"}
    /\ engine # "none" <=> main \in {"subscribing", "waiting", "joining", "unwinding"}
    /\ main \in {"unsubscribing", "idle"} => publishing["handler"] = "none"
    /\ main = "unsubscribing" => publishing["main"] \in {"none", "erase", "closeErased"}
    /\ main = "unsubscribing" /\ publishing["main"] # "erase" => publishers[job] = 0
    /\ main = "idle" => \A k \in Jobs : publishers[k] = 0
    /\ main # "idle" \/ subscribed => job \in Jobs
    /\ publishing["handler"] # "none" => listener = "publishing"

\* A handler's call has met another thread's, or has come after the end of its task.
Blamed == met \/ late

ChannelInv ==
    \/ Blamed
    \/ /\ ChannelTypes /\ connection = "up"
       /\ OneCalls /\ Counted /\ Steps /\ Places

\* The sets the steps range over, and the tuples of what they leave alone.
USE DEF Threads, Jobs, Pubs, Library, Channel!Threads, Channel!Tasks, Channel!amqp,
        Channel!calls, Channel!flags, Channel!worker

\* Whoever has a call is alone with the map and its copies.
LEMMA MapKeeps ==
  ASSUME ChannelInv, ~Blamed, ~Blamed',
         NEW t \in Threads,
         Channel!Find(t) \/ Channel!Store(t) \/ Channel!Drop(t) \/ Channel!Erase(t)
  PROVE  ChannelInv'
<1> USE BoundsAssumption DEF ChannelInv, Blamed, Channel!BoundsAssumption
<1>1. CASE Channel!Find(t)
  <2>1. ChannelTypes'
    BY <1>1 DEF ChannelTypes, OneCalls, Places, Channel!Find, Channel!CallGoes,
       Channel!Locked
  <2>2. OneCalls'
    BY <1>1 DEF ChannelTypes, OneCalls, Counted, Steps, Places, Channel!Find,
       Channel!CallGoes, Channel!Locked
  <2>3. Counted'
    BY <1>1 DEF ChannelTypes, OneCalls, Counted, Steps, Places, Channel!Find,
       Channel!CallGoes, Channel!Locked
  <2>4. Steps'
    BY <1>1 DEF ChannelTypes, OneCalls, Counted, Steps, Places, Channel!Find,
       Channel!CallGoes, Channel!Locked
  <2>5. Places'
    BY <1>1 DEF ChannelTypes, OneCalls, Counted, Steps, Places, Channel!Find,
       Channel!CallGoes, Channel!Locked
  <2>6. connection' = "up"
    BY <1>1 DEF ChannelTypes, OneCalls, Counted, Steps, Places, Channel!Find,
       Channel!CallGoes, Channel!Locked
  <2> QED
    BY <2>1, <2>2, <2>3, <2>4, <2>5, <2>6
<1>2. CASE Channel!Store(t)
  <2>1. ChannelTypes'
    <3>1. publishing[t] = "store"
      BY <1>2 DEF Channel!Store, Channel!CallGoes
    <3>2. held[t] \in Pubs
      BY <3>1 DEF ChannelTypes, Steps
    <3>3. about[t] \in Jobs
      BY <3>1 DEF OneCalls
    <3>4. publishers' \in [Jobs -> {0} \union Pubs]
      BY <1>2, <3>2, <3>3 DEF ChannelTypes, Channel!Store
    <3>5. copies' \in [Pubs -> SUBSET (Threads \union {"map"})]
      BY <1>2, <3>2 DEF ChannelTypes, Channel!Store
    <3> QED
      BY <1>2, <3>4, <3>5 DEF ChannelTypes, Channel!Store, Channel!CallGoes
  <2>2. OneCalls'
    BY <1>2 DEF ChannelTypes, OneCalls, Counted, Steps, Places, Channel!Store,
       Channel!CallGoes, Channel!Locked
  <2>3. Counted'
    BY <1>2 DEF ChannelTypes, OneCalls, Counted, Steps, Places, Channel!Store,
       Channel!CallGoes, Channel!Locked
  <2>4. Steps'
    BY <1>2 DEF ChannelTypes, OneCalls, Counted, Steps, Places, Channel!Store,
       Channel!CallGoes, Channel!Locked
  <2>5. Places'
    BY <1>2 DEF ChannelTypes, OneCalls, Counted, Steps, Places, Channel!Store,
       Channel!CallGoes, Channel!Locked
  <2>6. connection' = "up"
    BY <1>2 DEF ChannelTypes, OneCalls, Counted, Steps, Places, Channel!Store,
       Channel!CallGoes, Channel!Locked
  <2> QED
    BY <2>1, <2>2, <2>3, <2>4, <2>5, <2>6
<1>3. CASE Channel!Drop(t)
  <2>1. ChannelTypes'
    BY <1>3 DEF ChannelTypes, OneCalls, Places, Channel!Drop, Channel!CallGoes,
       Channel!Rest
  <2>2. OneCalls'
    BY <1>3 DEF ChannelTypes, OneCalls, Counted, Steps, Places, Channel!Drop,
       Channel!CallGoes, Channel!Rest
  <2>3. Counted'
    BY <1>3 DEF ChannelTypes, OneCalls, Counted, Steps, Places, Channel!Drop,
       Channel!CallGoes, Channel!Rest
  <2>4. Steps'
    BY <1>3 DEF ChannelTypes, OneCalls, Counted, Steps, Places, Channel!Drop,
       Channel!CallGoes, Channel!Rest
  <2>5. Places'
    BY <1>3 DEF ChannelTypes, OneCalls, Counted, Steps, Places, Channel!Drop,
       Channel!CallGoes, Channel!Rest
  <2>6. connection' = "up"
    BY <1>3 DEF ChannelTypes, OneCalls, Counted, Steps, Places, Channel!Drop,
       Channel!CallGoes, Channel!Rest
  <2> QED
    BY <2>1, <2>2, <2>3, <2>4, <2>5, <2>6
<1>4. CASE Channel!Erase(t)
  <2>1. ChannelTypes'
    BY <1>4 DEF ChannelTypes, OneCalls, Places, Channel!Erase, Channel!CallGoes,
       Channel!Locked
  <2>2. OneCalls'
    BY <1>4 DEF ChannelTypes, OneCalls, Counted, Steps, Places, Channel!Erase,
       Channel!CallGoes, Channel!Locked
  <2>3. Counted'
    BY <1>4 DEF ChannelTypes, OneCalls, Counted, Steps, Places, Channel!Erase,
       Channel!CallGoes, Channel!Locked
  <2>4. Steps'
    <3>1. /\ about[t] = job /\ job \in Jobs /\ held[t] = 0
          /\ \A u \in Threads \ {t} : publishing[u] = "none" /\ held[u] = 0
      BY <1>4 DEF ChannelTypes, OneCalls, Steps, Channel!Erase, Channel!CallGoes
    <3>2. publishers[job] # 0 => copies[publishers[job]] = {"map"}
      BY <3>1 DEF ChannelTypes, Counted
    <3>3. \A k \in Jobs : publishers'[k] = 0
      BY <1>4, <3>1 DEF ChannelTypes, Counted, Channel!Erase
    <3>4. /\ publishing' = [publishing EXCEPT ![t] =
                              IF publishers[job] # 0 THEN "closeErased" ELSE "none"]
          /\ publishing[t] = "erase" /\ UNCHANGED <<held, worker_channel, job>>
      BY <1>4, <3>1, <3>2 DEF Channel!Erase, Channel!CallGoes
    <3>5. worker_channel = "open" <=> publishers[job] # 0
      BY <3>1, <3>4 DEF Steps, Counted
    <3> QED
      BY <3>1, <3>3, <3>4, <3>5 DEF ChannelTypes, Steps
  <2>5. Places'
    BY <1>4 DEF ChannelTypes, OneCalls, Counted, Steps, Places, Channel!Erase,
       Channel!CallGoes, Channel!Locked
  <2>6. connection' = "up"
    BY <1>4 DEF ChannelTypes, OneCalls, Counted, Steps, Places, Channel!Erase,
       Channel!CallGoes, Channel!Locked
  <2> QED
    BY <2>1, <2>2, <2>3, <2>4, <2>5, <2>6
<1> QED
  BY <1>1, <1>2, <1>3, <1>4

\* A publisher is declared when there is no other.
LEMMA NoCopies ==
  ASSUME ChannelTypes, OneCalls, Counted, Steps, NEW t \in Threads,
         publishing[t] = "declare"
  PROVE  \A p \in Pubs : copies[p] = {}
<1>1. \A u \in Threads : held[u] = 0
  BY DEF OneCalls, Steps
<1>2. \A k \in Jobs : publishers[k] = 0
  BY DEF OneCalls, Counted, Steps
<1> QED
  BY <1>1, <1>2 DEF ChannelTypes, Counted

\* It is alone in the library too, and finds the channel as it needs it.
LEMMA LibraryKeeps ==
  ASSUME ChannelInv, ~Blamed, ~Blamed',
         NEW t \in Threads,
         \/ Channel!Enter(t) \/ Channel!Open(t) \/ Channel!Declare(t)
         \/ Channel!Send(t) \/ Channel!Close(t)
  PROVE  ChannelInv'
<1> USE BoundsAssumption DEF ChannelInv, Blamed, Channel!BoundsAssumption
<1>1. CASE Channel!Enter(t)
  <2>1. ChannelTypes'
    BY <1>1 DEF ChannelTypes, OneCalls, Places, Channel!Enter
  <2>2. OneCalls'
    BY <1>1 DEF ChannelTypes, OneCalls, Counted, Steps, Places, Channel!Enter
  <2>3. Counted'
    BY <1>1 DEF ChannelTypes, OneCalls, Counted, Steps, Places, Channel!Enter
  <2>4. Steps'
    BY <1>1 DEF ChannelTypes, OneCalls, Counted, Steps, Places, Channel!Enter
  <2>5. Places'
    BY <1>1 DEF ChannelTypes, OneCalls, Counted, Steps, Places, Channel!Enter
  <2>6. connection' = "up"
    BY <1>1 DEF ChannelTypes, OneCalls, Counted, Steps, Places, Channel!Enter
  <2> QED
    BY <2>1, <2>2, <2>3, <2>4, <2>5, <2>6
<1>2. CASE Channel!Open(t)
  <2>1. ChannelTypes'
    BY <1>2 DEF ChannelTypes, OneCalls, Places, Channel!Open, Channel!LeavesTo,
       Channel!CallGoes, Channel!Needs, Channel!Throws
  <2>2. OneCalls'
    BY <1>2 DEF ChannelTypes, OneCalls, Counted, Steps, Places, Channel!Open,
       Channel!LeavesTo, Channel!CallGoes, Channel!Needs, Channel!Throws
  <2>3. Counted'
    BY <1>2 DEF ChannelTypes, OneCalls, Counted, Steps, Places, Channel!Open,
       Channel!LeavesTo, Channel!CallGoes, Channel!Needs, Channel!Throws
  <2>4. Steps'
    BY <1>2 DEF ChannelTypes, OneCalls, Counted, Steps, Places, Channel!Open,
       Channel!LeavesTo, Channel!CallGoes, Channel!Needs, Channel!Throws
  <2>5. Places'
    BY <1>2 DEF ChannelTypes, OneCalls, Counted, Steps, Places, Channel!Open,
       Channel!LeavesTo, Channel!CallGoes, Channel!Needs, Channel!Throws
  <2>6. connection' = "up"
    BY <1>2 DEF ChannelTypes, OneCalls, Counted, Steps, Places, Channel!Open,
       Channel!LeavesTo, Channel!CallGoes, Channel!Needs, Channel!Throws
  <2> QED
    BY <2>1, <2>2, <2>3, <2>4, <2>5, <2>6
<1>3. CASE Channel!Declare(t)
  <2>1. ChannelTypes'
    <3>1. publishing[t] = "declare"
      BY <1>3 DEF Channel!Declare, Channel!LeavesTo, Channel!CallGoes
    <3> DEFINE p == CHOOSE q \in DOMAIN copies : copies[q] = {}
    <3>2. p \in Pubs
      <4>1. DOMAIN copies = Pubs
        BY DEF ChannelTypes
      <4>2. copies[1] = {} /\ 1 \in Pubs
        BY <3>1, NoCopies
      <4> HIDE DEF Pubs
      <4> QED
        BY <4>1, <4>2
    <3>3. \/ held' = [held EXCEPT ![t] = p] /\ copies' = [copies EXCEPT ![p] = {t}]
          \/ UNCHANGED <<held, copies>>
      BY <1>3 DEF Channel!Declare, Channel!NewPublisher
    <3> HIDE DEF p
    <3>4. /\ held' \in [Threads -> {0} \union Pubs]
          /\ copies' \in [Pubs -> SUBSET (Threads \union {"map"})]
      <4>1. {t} \in SUBSET (Threads \union {"map"})
        OBVIOUS
      <4> HIDE DEF Threads, Pubs
      <4> QED
        BY <3>2, <3>3, <4>1 DEF ChannelTypes
    <3>5. inside' \in SUBSET Threads
      BY <1>3 DEF ChannelTypes, Channel!Declare, Channel!LeavesTo
    <3>6. \/ publishing' = [publishing EXCEPT ![t] = "store"]
          \/ publishing' = [publishing EXCEPT ![t] = "close"]
      BY <1>3 DEF Channel!Declare, Channel!LeavesTo, Channel!CallGoes
    <3>7. UNCHANGED <<publishers, worker_channel, about, job>>
      BY <1>3 DEF Channel!Declare, Channel!LeavesTo, Channel!CallGoes
    <3> QED
      BY <3>4, <3>5, <3>6, <3>7 DEF ChannelTypes
  <2>2. OneCalls'
    BY <1>3 DEF ChannelTypes, OneCalls, Counted, Steps, Places, Channel!Declare,
       Channel!LeavesTo, Channel!CallGoes, Channel!Needs, Channel!Throws,
       Channel!NewPublisher
  <2>3. Counted'
    <3>1. publishing[t] = "declare" /\ about[t] = job /\ UNCHANGED <<publishers, job>>
      BY <1>3 DEF OneCalls, Channel!Declare, Channel!LeavesTo, Channel!CallGoes
    <3>2. \A p \in Pubs : copies[p] = {}
      BY <3>1, NoCopies
    <3>3. CASE Channel!NewPublisher(t)
      <4> DEFINE p == CHOOSE q \in DOMAIN copies : copies[q] = {}
      <4>1. p \in Pubs
        BY <3>2 DEF ChannelTypes
      <4>2. held' = [held EXCEPT ![t] = p] /\ copies' = [copies EXCEPT ![p] = {t}]
        BY <3>3 DEF Channel!NewPublisher
      <4> HIDE DEF p
      <4> QED
        BY <3>1, <3>2, <4>1, <4>2 DEF ChannelTypes, Counted
    <3>4. CASE UNCHANGED <<held, copies>>
      BY <3>1, <3>4 DEF Counted
    <3> QED
      BY <1>3, <3>3, <3>4 DEF Channel!Declare
  <2>4. Steps'
    BY <1>3 DEF ChannelTypes, OneCalls, Counted, Steps, Places, Channel!Declare,
       Channel!LeavesTo, Channel!CallGoes, Channel!Needs, Channel!Throws,
       Channel!NewPublisher
  <2>5. Places'
    BY <1>3 DEF ChannelTypes, OneCalls, Counted, Steps, Places, Channel!Declare,
       Channel!LeavesTo, Channel!CallGoes, Channel!Needs, Channel!Throws,
       Channel!NewPublisher
  <2>6. connection' = "up"
    BY <1>3 DEF ChannelTypes, OneCalls, Counted, Steps, Places, Channel!Declare,
       Channel!LeavesTo, Channel!CallGoes, Channel!Needs, Channel!Throws,
       Channel!NewPublisher
  <2> QED
    BY <2>1, <2>2, <2>3, <2>4, <2>5, <2>6
<1>4. CASE Channel!Send(t)
  <2>1. ChannelTypes'
    BY <1>4 DEF ChannelTypes, OneCalls, Places, Channel!Send, Channel!LeavesTo,
       Channel!CallGoes, Channel!Needs, Channel!Throws
  <2>2. OneCalls'
    BY <1>4 DEF ChannelTypes, OneCalls, Counted, Steps, Places, Channel!Send,
       Channel!LeavesTo, Channel!CallGoes, Channel!Needs, Channel!Throws
  <2>3. Counted'
    BY <1>4 DEF ChannelTypes, OneCalls, Counted, Steps, Places, Channel!Send,
       Channel!LeavesTo, Channel!CallGoes, Channel!Needs, Channel!Throws
  <2>4. Steps'
    BY <1>4 DEF ChannelTypes, OneCalls, Counted, Steps, Places, Channel!Send,
       Channel!LeavesTo, Channel!CallGoes, Channel!Needs, Channel!Throws
  <2>5. Places'
    BY <1>4 DEF ChannelTypes, OneCalls, Counted, Steps, Places, Channel!Send,
       Channel!LeavesTo, Channel!CallGoes, Channel!Needs, Channel!Throws
  <2>6. connection' = "up"
    BY <1>4 DEF ChannelTypes, OneCalls, Counted, Steps, Places, Channel!Send,
       Channel!LeavesTo, Channel!CallGoes, Channel!Needs, Channel!Throws
  <2> QED
    BY <2>1, <2>2, <2>3, <2>4, <2>5, <2>6
<1>5. CASE Channel!Close(t)
  <2>1. ChannelTypes'
    BY <1>5 DEF ChannelTypes, OneCalls, Places, Channel!Close, Channel!LeavesTo,
       Channel!CallGoes, Channel!Needs, Channel!Throws, Channel!Rest
  <2>2. OneCalls'
    BY <1>5 DEF ChannelTypes, OneCalls, Counted, Steps, Places, Channel!Close,
       Channel!LeavesTo, Channel!CallGoes, Channel!Needs, Channel!Throws, Channel!Rest
  <2>3. Counted'
    BY <1>5 DEF ChannelTypes, OneCalls, Counted, Steps, Places, Channel!Close,
       Channel!LeavesTo, Channel!CallGoes, Channel!Needs, Channel!Throws, Channel!Rest
  <2>4. Steps'
    BY <1>5 DEF ChannelTypes, OneCalls, Counted, Steps, Places, Channel!Close,
       Channel!LeavesTo, Channel!CallGoes, Channel!Needs, Channel!Throws, Channel!Rest
  <2>5. Places'
    BY <1>5 DEF ChannelTypes, OneCalls, Counted, Steps, Places, Channel!Close,
       Channel!LeavesTo, Channel!CallGoes, Channel!Needs, Channel!Throws, Channel!Rest
  <2>6. connection' = "up"
    BY <1>5 DEF ChannelTypes, OneCalls, Counted, Steps, Places, Channel!Close,
       Channel!LeavesTo, Channel!CallGoes, Channel!Needs, Channel!Throws, Channel!Rest
  <2> QED
    BY <2>1, <2>2, <2>3, <2>4, <2>5, <2>6
<1> QED
  BY <1>1, <1>2, <1>3, <1>4, <1>5

\* The main thread has no call while there is an engine, and leaves nothing of a task.
LEMMA MainKeeps ==
  ASSUME ChannelInv, ~Blamed, ~Blamed',
         \/ Channel!NextTask \/ Channel!SolveTsp \/ Channel!Subscribe \/ Channel!Leave
         \/ Channel!Join \/ Channel!PublishError \/ Channel!Exit \/ Channel!Release
         \/ Channel!Unsubscribe
  PROVE  ChannelInv'
<1> USE BoundsAssumption DEF ChannelInv, Blamed, Channel!BoundsAssumption
<1>1. CASE Channel!NextTask
  <2>1. ChannelTypes'
    <3>1. job \in 0..(MaxJobs - 1) /\ job' = job + 1
      BY <1>1 DEF ChannelTypes, Channel!NextTask
    <3>2. job' \in Jobs
      BY <3>1
    <3> HIDE DEF Jobs
    <3> QED
      BY <1>1, <3>2 DEF ChannelTypes, Channel!NextTask, Channel!MainGoes,
         Channel!Publish, Channel!Begin
  <2>2. OneCalls'
    BY <1>1 DEF ChannelTypes, OneCalls, Counted, Steps, Places, Channel!NextTask,
       Channel!MainGoes, Channel!Publish, Channel!Begin
  <2>3. Counted'
    BY <1>1 DEF ChannelTypes, OneCalls, Counted, Steps, Places, Channel!NextTask,
       Channel!MainGoes, Channel!Publish, Channel!Begin
  <2>4. Steps'
    BY <1>1 DEF ChannelTypes, OneCalls, Counted, Steps, Places, Channel!NextTask,
       Channel!MainGoes, Channel!Publish, Channel!Begin
  <2>5. Places'
    BY <1>1 DEF ChannelTypes, OneCalls, Counted, Steps, Places, Channel!NextTask,
       Channel!MainGoes, Channel!Publish, Channel!Begin
  <2>6. connection' = "up"
    BY <1>1 DEF ChannelTypes, OneCalls, Counted, Steps, Places, Channel!NextTask,
       Channel!MainGoes, Channel!Publish, Channel!Begin
  <2> QED
    BY <2>1, <2>2, <2>3, <2>4, <2>5, <2>6
<1>2. CASE Channel!SolveTsp
  <2>1. ChannelTypes'
    BY <1>2 DEF ChannelTypes, OneCalls, Places, Channel!SolveTsp, Channel!MainGoes
  <2>2. OneCalls'
    BY <1>2 DEF ChannelTypes, OneCalls, Counted, Steps, Places, Channel!SolveTsp,
       Channel!MainGoes
  <2>3. Counted'
    BY <1>2 DEF ChannelTypes, OneCalls, Counted, Steps, Places, Channel!SolveTsp,
       Channel!MainGoes
  <2>4. Steps'
    BY <1>2 DEF ChannelTypes, OneCalls, Counted, Steps, Places, Channel!SolveTsp,
       Channel!MainGoes
  <2>5. Places'
    BY <1>2 DEF ChannelTypes, OneCalls, Counted, Steps, Places, Channel!SolveTsp,
       Channel!MainGoes
  <2>6. connection' = "up"
    BY <1>2 DEF ChannelTypes, OneCalls, Counted, Steps, Places, Channel!SolveTsp,
       Channel!MainGoes
  <2> QED
    BY <2>1, <2>2, <2>3, <2>4, <2>5, <2>6
<1>3. CASE Channel!Subscribe
  <2>1. ChannelTypes'
    BY <1>3 DEF ChannelTypes, OneCalls, Places, Channel!Subscribe, Channel!MainGoes
  <2>2. OneCalls'
    BY <1>3 DEF ChannelTypes, OneCalls, Counted, Steps, Places, Channel!Subscribe,
       Channel!MainGoes
  <2>3. Counted'
    BY <1>3 DEF ChannelTypes, OneCalls, Counted, Steps, Places, Channel!Subscribe,
       Channel!MainGoes
  <2>4. Steps'
    BY <1>3 DEF ChannelTypes, OneCalls, Counted, Steps, Places, Channel!Subscribe,
       Channel!MainGoes
  <2>5. Places'
    BY <1>3 DEF ChannelTypes, OneCalls, Counted, Steps, Places, Channel!Subscribe,
       Channel!MainGoes
  <2>6. connection' = "up"
    BY <1>3 DEF ChannelTypes, OneCalls, Counted, Steps, Places, Channel!Subscribe,
       Channel!MainGoes
  <2> QED
    BY <2>1, <2>2, <2>3, <2>4, <2>5, <2>6
<1>4. CASE Channel!Leave
  <2>1. ChannelTypes'
    BY <1>4 DEF ChannelTypes, OneCalls, Places, Channel!Leave, Channel!MainGoes
  <2>2. OneCalls'
    BY <1>4 DEF ChannelTypes, OneCalls, Counted, Steps, Places, Channel!Leave,
       Channel!MainGoes
  <2>3. Counted'
    BY <1>4 DEF ChannelTypes, OneCalls, Counted, Steps, Places, Channel!Leave,
       Channel!MainGoes
  <2>4. Steps'
    BY <1>4 DEF ChannelTypes, OneCalls, Counted, Steps, Places, Channel!Leave,
       Channel!MainGoes
  <2>5. Places'
    BY <1>4 DEF ChannelTypes, OneCalls, Counted, Steps, Places, Channel!Leave,
       Channel!MainGoes
  <2>6. connection' = "up"
    BY <1>4 DEF ChannelTypes, OneCalls, Counted, Steps, Places, Channel!Leave,
       Channel!MainGoes
  <2> QED
    BY <2>1, <2>2, <2>3, <2>4, <2>5, <2>6
<1>5. CASE Channel!Join
  <2>1. ChannelTypes'
    BY <1>5 DEF ChannelTypes, OneCalls, Places, Channel!Join, Channel!MainGoes
  <2>2. OneCalls'
    BY <1>5 DEF ChannelTypes, OneCalls, Counted, Steps, Places, Channel!Join,
       Channel!MainGoes
  <2>3. Counted'
    BY <1>5 DEF ChannelTypes, OneCalls, Counted, Steps, Places, Channel!Join,
       Channel!MainGoes
  <2>4. Steps'
    BY <1>5 DEF ChannelTypes, OneCalls, Counted, Steps, Places, Channel!Join,
       Channel!MainGoes
  <2>5. Places'
    BY <1>5 DEF ChannelTypes, OneCalls, Counted, Steps, Places, Channel!Join,
       Channel!MainGoes
  <2>6. connection' = "up"
    BY <1>5 DEF ChannelTypes, OneCalls, Counted, Steps, Places, Channel!Join,
       Channel!MainGoes
  <2> QED
    BY <2>1, <2>2, <2>3, <2>4, <2>5, <2>6
<1>6. CASE Channel!PublishError
  <2>1. ChannelTypes'
    BY <1>6 DEF ChannelTypes, OneCalls, Places, Channel!PublishError, Channel!MainGoes,
       Channel!Publish, Channel!Begin
  <2>2. OneCalls'
    BY <1>6 DEF ChannelTypes, OneCalls, Counted, Steps, Places, Channel!PublishError,
       Channel!MainGoes, Channel!Publish, Channel!Begin
  <2>3. Counted'
    BY <1>6 DEF ChannelTypes, OneCalls, Counted, Steps, Places, Channel!PublishError,
       Channel!MainGoes, Channel!Publish, Channel!Begin
  <2>4. Steps'
    BY <1>6 DEF ChannelTypes, OneCalls, Counted, Steps, Places, Channel!PublishError,
       Channel!MainGoes, Channel!Publish, Channel!Begin
  <2>5. Places'
    BY <1>6 DEF ChannelTypes, OneCalls, Counted, Steps, Places, Channel!PublishError,
       Channel!MainGoes, Channel!Publish, Channel!Begin
  <2>6. connection' = "up"
    BY <1>6 DEF ChannelTypes, OneCalls, Counted, Steps, Places, Channel!PublishError,
       Channel!MainGoes, Channel!Publish, Channel!Begin
  <2> QED
    BY <2>1, <2>2, <2>3, <2>4, <2>5, <2>6
<1>7. CASE Channel!Exit
  <2>1. ChannelTypes'
    BY <1>7 DEF ChannelTypes, OneCalls, Places, Channel!Exit, Channel!MainGoes
  <2>2. OneCalls'
    BY <1>7 DEF ChannelTypes, OneCalls, Counted, Steps, Places, Channel!Exit,
       Channel!MainGoes
  <2>3. Counted'
    BY <1>7 DEF ChannelTypes, OneCalls, Counted, Steps, Places, Channel!Exit,
       Channel!MainGoes
  <2>4. Steps'
    BY <1>7 DEF ChannelTypes, OneCalls, Counted, Steps, Places, Channel!Exit,
       Channel!MainGoes
  <2>5. Places'
    BY <1>7 DEF ChannelTypes, OneCalls, Counted, Steps, Places, Channel!Exit,
       Channel!MainGoes
  <2>6. connection' = "up"
    BY <1>7 DEF ChannelTypes, OneCalls, Counted, Steps, Places, Channel!Exit,
       Channel!MainGoes
  <2> QED
    BY <2>1, <2>2, <2>3, <2>4, <2>5, <2>6
<1>8. CASE Channel!Release
  <2>1. ChannelTypes'
    BY <1>8 DEF ChannelTypes, OneCalls, Places, Channel!Release, Channel!MainGoes,
       Channel!Begin
  <2>2. OneCalls'
    BY <1>8 DEF ChannelTypes, OneCalls, Counted, Steps, Places, Channel!Release,
       Channel!MainGoes, Channel!Begin
  <2>3. Counted'
    BY <1>8 DEF ChannelTypes, OneCalls, Counted, Steps, Places, Channel!Release,
       Channel!MainGoes, Channel!Begin
  <2>4. Steps'
    BY <1>8 DEF ChannelTypes, OneCalls, Counted, Steps, Places, Channel!Release,
       Channel!MainGoes, Channel!Begin
  <2>5. Places'
    BY <1>8 DEF ChannelTypes, OneCalls, Counted, Steps, Places, Channel!Release,
       Channel!MainGoes, Channel!Begin
  <2>6. connection' = "up"
    BY <1>8 DEF ChannelTypes, OneCalls, Counted, Steps, Places, Channel!Release,
       Channel!MainGoes, Channel!Begin
  <2> QED
    BY <2>1, <2>2, <2>3, <2>4, <2>5, <2>6
<1>9. CASE Channel!Unsubscribe
  <2>1. ChannelTypes'
    BY <1>9 DEF ChannelTypes, OneCalls, Places, Channel!Unsubscribe, Channel!MainGoes
  <2>2. OneCalls'
    BY <1>9 DEF ChannelTypes, OneCalls, Counted, Steps, Places, Channel!Unsubscribe,
       Channel!MainGoes
  <2>3. Counted'
    BY <1>9 DEF ChannelTypes, OneCalls, Counted, Steps, Places, Channel!Unsubscribe,
       Channel!MainGoes
  <2>4. Steps'
    BY <1>9 DEF ChannelTypes, OneCalls, Counted, Steps, Places, Channel!Unsubscribe,
       Channel!MainGoes
  <2>5. Places'
    BY <1>9 DEF ChannelTypes, OneCalls, Counted, Steps, Places, Channel!Unsubscribe,
       Channel!MainGoes
  <2>6. connection' = "up"
    BY <1>9 DEF ChannelTypes, OneCalls, Counted, Steps, Places, Channel!Unsubscribe,
       Channel!MainGoes
  <2> QED
    BY <2>1, <2>2, <2>3, <2>4, <2>5, <2>6
<1> QED
  BY <1>1, <1>2, <1>3, <1>4, <1>5, <1>6, <1>7, <1>8, <1>9

\* The engine's thread publishes one status after the other.
LEMMA EngineKeeps ==
  ASSUME ChannelInv, ~Blamed, ~Blamed',
         \/ Channel!NextSolution \/ Channel!Finish \/ Channel!OnError
         \/ Channel!EngineEnds
  PROVE  ChannelInv'
<1> USE BoundsAssumption DEF ChannelInv, Blamed, Channel!BoundsAssumption
<1>1. CASE Channel!NextSolution
  <2>1. ChannelTypes'
    BY <1>1 DEF ChannelTypes, OneCalls, Places, Channel!NextSolution,
       Channel!EngineGoes, Channel!Publish, Channel!Begin
  <2>2. OneCalls'
    <3>1. main = "subscribing" \/ main = "waiting" \/ main = "joining" \/ main = "unwinding"
      BY <1>1 DEF Places, Channel!NextSolution, Channel!EngineGoes
    <3>2. publishing["main"] = "none"
      BY <3>1 DEF Places
    <3>3. CASE Channel!Publish("engine", job, FALSE)
      <4>1. publishing["handler"] = "none"
        BY <3>3 DEF Channel!Publish, Channel!Begin
      <4> QED
        BY <1>1, <3>1, <3>2, <3>3, <4>1 DEF ChannelTypes, OneCalls, Places,
           Channel!NextSolution, Channel!Publish, Channel!Begin
    <3>4. CASE UNCHANGED <<Channel!amqp, Channel!calls>>
      BY <1>1, <3>4 DEF OneCalls, Channel!NextSolution
    <3> QED
      BY <1>1, <3>3, <3>4 DEF Channel!NextSolution
  <2>3. Counted'
    BY <1>1 DEF ChannelTypes, OneCalls, Counted, Steps, Places, Channel!NextSolution,
       Channel!EngineGoes, Channel!Publish, Channel!Begin
  <2>4. Steps'
    BY <1>1 DEF ChannelTypes, OneCalls, Counted, Steps, Places, Channel!NextSolution,
       Channel!EngineGoes, Channel!Publish, Channel!Begin
  <2>5. Places'
    BY <1>1 DEF ChannelTypes, OneCalls, Counted, Steps, Places, Channel!NextSolution,
       Channel!EngineGoes, Channel!Publish, Channel!Begin
  <2>6. connection' = "up"
    BY <1>1 DEF ChannelTypes, OneCalls, Counted, Steps, Places, Channel!NextSolution,
       Channel!EngineGoes, Channel!Publish, Channel!Begin
  <2> QED
    BY <2>1, <2>2, <2>3, <2>4, <2>5, <2>6
<1>2. CASE Channel!Finish
  <2>1. ChannelTypes'
    BY <1>2 DEF ChannelTypes, OneCalls, Places, Channel!Finish, Channel!EngineGoes,
       Channel!Publish, Channel!Begin
  <2>2. OneCalls'
    BY <1>2 DEF ChannelTypes, OneCalls, Counted, Steps, Places, Channel!Finish,
       Channel!EngineGoes, Channel!Publish, Channel!Begin
  <2>3. Counted'
    BY <1>2 DEF ChannelTypes, OneCalls, Counted, Steps, Places, Channel!Finish,
       Channel!EngineGoes, Channel!Publish, Channel!Begin
  <2>4. Steps'
    BY <1>2 DEF ChannelTypes, OneCalls, Counted, Steps, Places, Channel!Finish,
       Channel!EngineGoes, Channel!Publish, Channel!Begin
  <2>5. Places'
    BY <1>2 DEF ChannelTypes, OneCalls, Counted, Steps, Places, Channel!Finish,
       Channel!EngineGoes, Channel!Publish, Channel!Begin
  <2>6. connection' = "up"
    BY <1>2 DEF ChannelTypes, OneCalls, Counted, Steps, Places, Channel!Finish,
       Channel!EngineGoes, Channel!Publish, Channel!Begin
  <2> QED
    BY <2>1, <2>2, <2>3, <2>4, <2>5, <2>6
<1>3. CASE Channel!OnError
  <2>1. ChannelTypes'
    BY <1>3 DEF ChannelTypes, OneCalls, Places, Channel!OnError, Channel!EngineGoes,
       Channel!Publish, Channel!Begin
  <2>2. OneCalls'
    BY <1>3 DEF ChannelTypes, OneCalls, Counted, Steps, Places, Channel!OnError,
       Channel!EngineGoes, Channel!Publish, Channel!Begin
  <2>3. Counted'
    BY <1>3 DEF ChannelTypes, OneCalls, Counted, Steps, Places, Channel!OnError,
       Channel!EngineGoes, Channel!Publish, Channel!Begin
  <2>4. Steps'
    BY <1>3 DEF ChannelTypes, OneCalls, Counted, Steps, Places, Channel!OnError,
       Channel!EngineGoes, Channel!Publish, Channel!Begin
  <2>5. Places'
    BY <1>3 DEF ChannelTypes, OneCalls, Counted, Steps, Places, Channel!OnError,
       Channel!EngineGoes, Channel!Publish, Channel!Begin
  <2>6. connection' = "up"
    BY <1>3 DEF ChannelTypes, OneCalls, Counted, Steps, Places, Channel!OnError,
       Channel!EngineGoes, Channel!Publish, Channel!Begin
  <2> QED
    BY <2>1, <2>2, <2>3, <2>4, <2>5, <2>6
<1>4. CASE Channel!EngineEnds
  <2>1. ChannelTypes'
    BY <1>4 DEF ChannelTypes, OneCalls, Places, Channel!EngineEnds, Channel!EngineGoes
  <2>2. OneCalls'
    BY <1>4 DEF ChannelTypes, OneCalls, Counted, Steps, Places, Channel!EngineEnds,
       Channel!EngineGoes
  <2>3. Counted'
    BY <1>4 DEF ChannelTypes, OneCalls, Counted, Steps, Places, Channel!EngineEnds,
       Channel!EngineGoes
  <2>4. Steps'
    BY <1>4 DEF ChannelTypes, OneCalls, Counted, Steps, Places, Channel!EngineEnds,
       Channel!EngineGoes
  <2>5. Places'
    BY <1>4 DEF ChannelTypes, OneCalls, Counted, Steps, Places, Channel!EngineEnds,
       Channel!EngineGoes
  <2>6. connection' = "up"
    BY <1>4 DEF ChannelTypes, OneCalls, Counted, Steps, Places, Channel!EngineEnds,
       Channel!EngineGoes
  <2> QED
    BY <2>1, <2>2, <2>3, <2>4, <2>5, <2>6
<1> QED
  BY <1>1, <1>2, <1>3, <1>4

\* A handler that is neither late nor meets a call finds its task at work.
LEMMA HandlerKeeps ==
  ASSUME ChannelInv, ~Blamed, ~Blamed',
         Channel!Receive \/ Channel!HandleSignal \/ Channel!HandlerEnds
  PROVE  ChannelInv'
<1> USE BoundsAssumption DEF ChannelInv, Blamed, Channel!BoundsAssumption
<1>1. CASE Channel!Receive
  <2>1. ChannelTypes'
    BY <1>1 DEF ChannelTypes, OneCalls, Places, Channel!Receive
  <2>2. OneCalls'
    BY <1>1 DEF ChannelTypes, OneCalls, Counted, Steps, Places, Channel!Receive
  <2>3. Counted'
    BY <1>1 DEF ChannelTypes, OneCalls, Counted, Steps, Places, Channel!Receive
  <2>4. Steps'
    BY <1>1 DEF ChannelTypes, OneCalls, Counted, Steps, Places, Channel!Receive
  <2>5. Places'
    BY <1>1 DEF ChannelTypes, OneCalls, Counted, Steps, Places, Channel!Receive
  <2>6. connection' = "up"
    BY <1>1 DEF ChannelTypes, OneCalls, Counted, Steps, Places, Channel!Receive
  <2> QED
    BY <2>1, <2>2, <2>3, <2>4, <2>5, <2>6
<1>2. CASE Channel!HandleSignal
  <2>1. ChannelTypes'
    BY <1>2 DEF ChannelTypes, OneCalls, Places, Channel!HandleSignal, Channel!Publish,
       Channel!Begin
  <2>2. OneCalls'
    <3>1. PICK k \in {about["handler"], job} : Channel!Publish("handler", k, TRUE)
      BY <1>2 DEF Channel!HandleSignal
    <3>2. \A t \in Threads : publishing[t] = "none"
      BY <3>1 DEF Channel!Publish, Channel!Begin
    <3>3. about["handler"] = job /\ main # "idle"
      BY <1>2 DEF Channel!HandleSignal
    <3> QED
      BY <1>2, <3>1, <3>2, <3>3 DEF ChannelTypes, OneCalls, Places,
         Channel!HandleSignal, Channel!Publish, Channel!Begin
  <2>3. Counted'
    BY <1>2 DEF ChannelTypes, OneCalls, Counted, Steps, Places, Channel!HandleSignal,
       Channel!Publish, Channel!Begin
  <2>4. Steps'
    BY <1>2 DEF ChannelTypes, OneCalls, Counted, Steps, Places, Channel!HandleSignal,
       Channel!Publish, Channel!Begin
  <2>5. Places'
    BY <1>2 DEF ChannelTypes, OneCalls, Counted, Steps, Places, Channel!HandleSignal,
       Channel!Publish, Channel!Begin
  <2>6. connection' = "up"
    BY <1>2 DEF ChannelTypes, OneCalls, Counted, Steps, Places, Channel!HandleSignal,
       Channel!Publish, Channel!Begin
  <2> QED
    BY <2>1, <2>2, <2>3, <2>4, <2>5, <2>6
<1>3. CASE Channel!HandlerEnds
  <2>1. ChannelTypes'
    BY <1>3 DEF ChannelTypes, OneCalls, Places, Channel!HandlerEnds
  <2>2. OneCalls'
    BY <1>3 DEF ChannelTypes, OneCalls, Counted, Steps, Places, Channel!HandlerEnds
  <2>3. Counted'
    BY <1>3 DEF ChannelTypes, OneCalls, Counted, Steps, Places, Channel!HandlerEnds
  <2>4. Steps'
    BY <1>3 DEF ChannelTypes, OneCalls, Counted, Steps, Places, Channel!HandlerEnds
  <2>5. Places'
    BY <1>3 DEF ChannelTypes, OneCalls, Counted, Steps, Places, Channel!HandlerEnds
  <2>6. connection' = "up"
    BY <1>3 DEF ChannelTypes, OneCalls, Counted, Steps, Places, Channel!HandlerEnds
  <2> QED
    BY <2>1, <2>2, <2>3, <2>4, <2>5, <2>6
<1> QED
  BY <1>1, <1>2, <1>3

----------------------------------------------------------------------------
(* The parts of a behaviour.                                               *)

\* A step of the services is a step of one part; the others rest.
LEMMA PartSteps ==
  ASSUME [ServicesNext]_servicesVars
  PROVE  /\ Channel!Next \/ UNCHANGED channelVars
         /\ Updates!Next \/ UNCHANGED streamVars
         /\ Settings!Next \/ UNCHANGED settingsVars
BY DEF ServicesNext, servicesVars

\* Every part begins as its module says, whichever is looked at.
LEMMA PartsBegin ==
  ASSUME ServicesInit
  PROVE  Channel!Init /\ Updates!Init /\ Settings!Init
BY DEF ServicesInit, NoTask

\* Before a worker has a task nothing is published.
LEMMA ChannelBegins ==
  ASSUME Channel!Init
  PROVE  ChannelInv
<1> USE BoundsAssumption DEF Channel!BoundsAssumption
<1>1. ChannelTypes
  BY DEF Channel!Init, ChannelTypes
<1>2. OneCalls /\ Counted /\ Steps /\ Places
  BY DEF Channel!Init, OneCalls, Counted, Steps, Places
<1> QED
  BY <1>1, <1>2 DEF ChannelInv, Channel!Init

\* Who is blamed once remains so.
LEMMA BlameStays ==
  ASSUME Channel!Next, Blamed
  PROVE  Blamed'
<1>1. CASE \E t \in Threads : \/ Channel!Find(t) \/ Channel!Store(t) \/ Channel!Drop(t)
                              \/ Channel!Erase(t) \/ Channel!Enter(t) \/ Channel!Open(t)
                              \/ Channel!Declare(t) \/ Channel!Send(t)
                              \/ Channel!Close(t)
  BY <1>1 DEF Blamed, Channel!Find, Channel!Store, Channel!Drop, Channel!Erase,
     Channel!Enter, Channel!Open, Channel!Declare, Channel!Send, Channel!Close,
     Channel!LeavesTo, Channel!CallGoes
<1>2. CASE \/ Channel!NextTask \/ Channel!SolveTsp \/ Channel!Subscribe \/ Channel!Leave
           \/ Channel!Join \/ Channel!PublishError \/ Channel!Exit \/ Channel!Release
           \/ Channel!Unsubscribe
  BY <1>2 DEF Blamed, Channel!NextTask, Channel!SolveTsp, Channel!Subscribe,
     Channel!Leave, Channel!Join, Channel!PublishError, Channel!Exit, Channel!Release,
     Channel!Unsubscribe, Channel!Publish, Channel!Begin
<1>3. CASE \/ Channel!NextSolution \/ Channel!Finish \/ Channel!OnError
           \/ Channel!EngineEnds
  BY <1>3 DEF Blamed, Channel!NextSolution, Channel!Finish, Channel!OnError,
     Channel!EngineEnds, Channel!Publish, Channel!Begin
<1>4. CASE Channel!Receive \/ Channel!HandleSignal \/ Channel!HandlerEnds
  BY <1>4 DEF Blamed, Channel!Receive, Channel!HandleSignal, Channel!HandlerEnds,
     Channel!Publish, Channel!Begin
<1> QED
  BY <1>1, <1>2, <1>3, <1>4 DEF Channel!Next

\* The invariant of the channel is kept by each thread, and by the other parts.
LEMMA ChannelKept ==
  ASSUME ChannelInv, [ServicesNext]_servicesVars
  PROVE  ChannelInv'
<1>1. CASE Channel!Next
  <2>1. CASE Blamed
    BY <1>1, <2>1, BlameStays DEF ChannelInv
  <2>2. CASE Blamed'
    BY <2>2 DEF ChannelInv
  <2>3. CASE ~Blamed /\ ~Blamed'
    <3>1. CASE \E t \in Threads : \/ Channel!Find(t) \/ Channel!Store(t)
                                  \/ Channel!Drop(t) \/ Channel!Erase(t)
      BY <2>3, <3>1, MapKeeps
    <3>2. CASE \E t \in Threads : \/ Channel!Enter(t) \/ Channel!Open(t)
                                  \/ Channel!Declare(t) \/ Channel!Send(t)
                                  \/ Channel!Close(t)
      BY <2>3, <3>2, LibraryKeeps
    <3>3. CASE \/ Channel!NextTask \/ Channel!SolveTsp \/ Channel!Subscribe
               \/ Channel!Leave \/ Channel!Join \/ Channel!PublishError
               \/ Channel!Exit \/ Channel!Release \/ Channel!Unsubscribe
      BY <2>3, <3>3, MainKeeps
    <3>4. CASE \/ Channel!NextSolution \/ Channel!Finish \/ Channel!OnError
               \/ Channel!EngineEnds
      BY <2>3, <3>4, EngineKeeps
    <3>5. CASE Channel!Receive \/ Channel!HandleSignal \/ Channel!HandlerEnds
      BY <2>3, <3>5, HandlerKeeps
    <3> QED
      BY <1>1, <3>1, <3>2, <3>3, <3>4, <3>5 DEF Channel!Next
  <2> QED
    BY <2>1, <2>2, <2>3
<1>2. CASE UNCHANGED channelVars
  BY <1>2 DEF channelVars, ChannelInv, Blamed, ChannelTypes, OneCalls, Counted, Steps,
     Places
<1> QED
  BY <1>1, <1>2, PartSteps

\* However many tasks a worker has, and whatever throws, its main thread and the
\* engine's are never in the client library at once, and the channel is open when a
\* call needs it and closed when it is opened; what can break this is only a handler
\* whose call meets another thread's, or comes when its task has been released.
THEOREM NeverClashes == ServicesSpec => []SharedWithoutClash
<1>1. ServicesInit => ChannelInv
  BY PartsBegin, ChannelBegins
<1>2. ChannelInv /\ [ServicesNext]_servicesVars => ChannelInv'
  BY ChannelKept
<1>3. ChannelInv => SharedWithoutClash
  BY DEF ChannelInv, Blamed, SharedWithoutClash, Channel!SharedWithoutClash
<1> QED
  BY <1>1, <1>2, <1>3, PTL DEF ServicesSpec

----------------------------------------------------------------------------
(* The status updates of a task (TspStatusStream).                         *)

StreamTypes ==
    /\ stage \in [Streams -> {"idle", "bind", "consume", "select", "ended"}]
    /\ bound \in [Streams -> BOOLEAN]
    /\ exchange \in BOOLEAN
    /\ channel \in {"open", "closed"}

\* While the channel is open every call that has come so far has its queue, and a
\* queue keeps the exchange: whoever closes the channel finds no queue.
StreamInv ==
    /\ StreamTypes
    /\ \A s \in Streams :
          /\ bound[s] => exchange /\ channel = "open" /\ stage[s] \in {"consume", "select"}
          /\ stage[s] = "select" => bound[s]
          /\ stage[s] = "consume" /\ channel = "open" => bound[s]

\* A subscriber that ends takes its queue along, and the exchange only with the last.
LEMMA EndKeeps ==
  ASSUME StreamInv, NEW s \in Streams, Updates!End(s)
  PROVE  StreamInv'
<1>1. stage[s] = "select" /\ bound[s] /\ exchange
  BY DEF Updates!End, Updates!Goto, StreamInv
<1>2. /\ stage' = [stage EXCEPT ![s] = "ended"] /\ bound' = [bound EXCEPT ![s] = FALSE]
      /\ exchange' = (exchange /\ (bound[s] => \E r \in Streams \ {s} : bound[r]))
      /\ UNCHANGED channel
  BY DEF Updates!End, Updates!Goto, Updates!Unbind, Updates!QueueGoes
<1>3. exchange' = \E r \in Streams \ {s} : bound[r]
  BY <1>1, <1>2
<1>4. StreamTypes'
  BY <1>2, <1>3 DEF StreamInv, StreamTypes
<1>5. \A r \in Streams : bound'[r] => exchange'
  BY <1>2, <1>3 DEF StreamInv, StreamTypes
<1> QED
  BY <1>2, <1>4, <1>5 DEF StreamInv, StreamTypes

\* Each operation of the worker, of the server and of a call keeps it.
LEMMA StreamKept ==
  ASSUME StreamInv, [ServicesNext]_servicesVars
  PROVE  StreamInv'
<1>1. CASE UNCHANGED streamVars
  BY <1>1 DEF streamVars, StreamInv, StreamTypes
<1>2. CASE Updates!WorkerStep \/ Updates!PublishForeign
  <2>1. exchange' \in {exchange, TRUE} /\ channel' = channel /\ bound' = bound /\ stage' = stage
    BY <1>2 DEF Updates!WorkerStep, Updates!PublishStarted, Updates!SendStarted,
       Updates!PublishNewSolution, Updates!SendInProgress, Updates!PublishEnding,
       Updates!SendEnding, Updates!PublishForeign, Updates!PublishOn, Updates!calls,
       Updates!broker, StreamInv, StreamTypes
  <2> QED
    BY <2>1 DEF StreamInv, StreamTypes
<1>3. CASE Updates!StopTsp
  <2>1. /\ channel' = IF exchange THEN channel ELSE "closed"
        /\ UNCHANGED <<exchange, bound, stage>>
    BY <1>3 DEF Updates!StopTsp, Updates!calls
  <2> QED
    BY <2>1 DEF StreamInv, StreamTypes
<1>4. ASSUME NEW s \in Streams, Updates!QueueDeclare(s)
      PROVE  StreamInv'
  BY <1>4 DEF Updates!QueueDeclare, Updates!Goto, Updates!broker, StreamInv, StreamTypes
<1>5. ASSUME NEW s \in Streams, Updates!QueueBind(s)
      PROVE  StreamInv'
  <2>1. /\ stage[s] = "bind" /\ stage' = [stage EXCEPT ![s] = "consume"]
        /\ bound' = [bound EXCEPT ![s] = channel = "open" /\ exchange]
        /\ channel' = IF exchange THEN channel ELSE "closed"
        /\ UNCHANGED exchange
    BY <1>5 DEF Updates!QueueBind, Updates!Goto
  <2> QED
    BY <2>1 DEF StreamInv, StreamTypes
<1>6. ASSUME NEW s \in Streams, Updates!Consume(s)
      PROVE  StreamInv'
  BY <1>6 DEF Updates!Consume, Updates!Goto, Updates!broker, StreamInv, StreamTypes
<1>7. ASSUME NEW s \in Streams, Updates!retrieveLatestStatus(s)
      PROVE  StreamInv'
  BY <1>7 DEF Updates!retrieveLatestStatus, Updates!broker, StreamInv, StreamTypes
<1>8. ASSUME NEW s \in Streams,
             Updates!SelectLatest(s) \/ Updates!SelectUpdate(s) \/ Updates!ContextDone(s)
      PROVE  StreamInv'
  <2>1. Updates!End(s) \/ UNCHANGED <<exchange, channel, bound, stage>>
    BY <1>8 DEF Updates!SelectLatest, Updates!SelectUpdate, Updates!ContextDone,
       Updates!broker
  <2> QED
    BY <2>1, EndKeeps DEF StreamInv, StreamTypes
<1> QED
  BY <1>1, <1>2, <1>3, <1>4, <1>5, <1>6, <1>7, <1>8, PartSteps
     DEF Updates!Next, Updates!StreamStep

\* Whoever closes the channel all calls share, by binding or publishing to an
\* exchange that deleted itself, no call waits for updates on it, for any number of
\* subscribers, sessions and updates.
THEOREM ClosedForNobody == ServicesSpec => []NoStreamOnClosedChannel
<1>1. ServicesInit => StreamInv
  BY PartsBegin DEF Updates!Init, StreamInv, StreamTypes
<1>2. StreamInv /\ [ServicesNext]_servicesVars => StreamInv'
  BY StreamKept
<1>3. StreamInv => NoStreamOnClosedChannel
  BY DEF StreamInv, NoStreamOnClosedChannel, Updates!NoStreamOnClosedChannel
<1> QED
  BY <1>1, <1>2, <1>3, PTL DEF ServicesSpec

----------------------------------------------------------------------------
(* What a subscriber is sent.  The steps of the recursion that picks the   *)
(* updates of the task are gone through by the least counterexample.       *)

\* A set of natural numbers has a least one.
LEMMA Least ==
  ASSUME NEW T \in SUBSET Nat, T # {}
  PROVE  \E n \in T : \A m \in T : n <= m
<1> DEFINE R == OpToRel(<, Nat)
<1>1. IsWellFoundedOn(R, Nat)
  BY NatLessThanWellFounded
<1>2. \A m, n \in Nat : m < n => <<m, n>> \in R
  BY DEF OpToRel
<1> HIDE DEF R
<1>3. PICK n \in T : \A m \in T : ~ (<<m, n>> \in R)
  BY <1>1, WFMin
<1>4. \A m \in T : ~ (m < n)
  BY <1>2, <1>3
<1> QED
  BY <1>4

\* The updates among the first n messages of q, from those among the ones before.
OwnAfter(before, q, n) ==
    IF n = 0 THEN <<>> ELSE IF q[n] = None THEN before ELSE Append(before, q[n])

OwnUpTo(f, q, k) == \A n \in 0..k : f[n] = OwnAfter(f[n - 1], q, n)

Own(q) ==
    LET own[n \in 0..Len(q)] ==
            IF n = 0 THEN <<>>
            ELSE IF q[n] = None THEN own[n - 1] ELSE Append(own[n - 1], q[n])
    IN own

\* Some function has the updates among the first k messages.
LEMMA OwnExists ==
  ASSUME NEW q, NEW k \in Nat
  PROVE  \E f : OwnUpTo(f, q, k)
<1> DEFINE T == {n \in Nat : ~ \E f : OwnUpTo(f, q, n)}
<1>1. SUFFICES ASSUME T # {} PROVE FALSE
  OBVIOUS
<1>2. PICK n \in T : \A m \in T : n <= m
  BY <1>1, Least
<1>3. CASE n = 0
  <2>1. OwnUpTo([m \in 0..0 |-> <<>>], q, 0)
    BY DEF OwnUpTo, OwnAfter
  <2> QED
    BY <1>3, <2>1
<1>4. CASE n # 0
  <2>1. n - 1 \in Nat /\ n - 1 \notin T /\ n \in Nat
    BY <1>2, <1>4
  <2>2. PICK f : OwnUpTo(f, q, n - 1)
    BY <2>1
  <2> DEFINE last == OwnAfter(f[n - 1], q, n)
             g == [m \in 0..n |-> IF m < n THEN f[m] ELSE last]
  <2>3. ASSUME NEW m \in 0..n
        PROVE  g[m] = OwnAfter(g[m - 1], q, m)
    <3>1. m # 0 => g[m - 1] = f[m - 1]
      BY <2>1
    <3>2. OwnAfter(g[m - 1], q, m) = OwnAfter(f[m - 1], q, m)
      <4> HIDE DEF g
      <4> QED
        BY <3>1 DEF OwnAfter
    <3>3. CASE m < n
      <4>1. g[m] = f[m] /\ m \in 0..(n - 1)
        BY <2>1, <3>3
      <4> HIDE DEF g
      <4> QED
        BY <2>2, <3>2, <4>1 DEF OwnUpTo
    <3>4. CASE m = n
      <4>1. g[m] = last
        BY <2>1, <3>4
      <4> HIDE DEF g
      <4> QED
        BY <3>2, <3>4, <4>1
    <3> QED
      BY <2>1, <3>3, <3>4
  <2>4. OwnUpTo(g, q, n)
    <3> HIDE DEF g
    <3> QED
      BY <2>3 DEF OwnUpTo
  <2> QED
    BY <1>2, <2>4
<1> QED
  BY <1>3, <1>4

\* The recursive definition holds of the function it defines.
LEMMA OwnOf ==
  ASSUME NEW U, NEW q \in Seq(U)
  PROVE  OwnUpTo(Own(q), q, Len(q)) /\ Updates!OwnUpdates(q) = Own(q)[Len(q)]
<1> DEFINE k == Len(q)
           Body(f, n) == IF n = 0 THEN <<>>
                         ELSE IF q[n] = None THEN f[n - 1] ELSE Append(f[n - 1], q[n])
           g == CHOOSE f : f = [n \in 0..k |-> Body(f, n)]
<1>1. Own(q) = g /\ Updates!OwnUpdates(q) = g[k]
  BY DEF Own, Updates!OwnUpdates
<1>2. \A f : \A n \in 0..k : Body(f, n) = OwnAfter(f[n - 1], q, n)
  BY DEF OwnAfter
<1>3. \E f : f = [n \in 0..k |-> Body(f, n)]
  <2>1. PICK h : OwnUpTo(h, q, k)
    BY OwnExists
  <2> DEFINE f == [n \in 0..k |-> h[n]]
  <2>2. \A n \in 0..k : f[n] = h[n] /\ (n # 0 => f[n - 1] = h[n - 1])
    OBVIOUS
  <2>3. f = [n \in 0..k |-> f[n]]
    OBVIOUS
  <2> HIDE DEF f
  <2>4. \A n \in 0..k : OwnAfter(f[n - 1], q, n) = OwnAfter(h[n - 1], q, n)
    BY <2>2 DEF OwnAfter
  <2> HIDE DEF Body
  <2>5. \A n \in 0..k : f[n] = Body(f, n)
    BY <1>2, <2>1, <2>2, <2>4 DEF OwnUpTo
  <2> QED
    BY <2>3, <2>5
<1>4. g = [n \in 0..k |-> Body(g, n)]
  BY <1>3
<1> HIDE DEF g, Body
<1>5. OwnUpTo(g, q, k)
  BY <1>2, <1>4 DEF OwnUpTo
<1> QED
  BY <1>1, <1>5

\* They are among the messages of the queue.
LEMMA OwnType ==
  ASSUME NEW U, NEW q \in Seq(U), NEW f, OwnUpTo(f, q, Len(q))
  PROVE  \A n \in 0..Len(q) : f[n] \in Seq(U)
<1> DEFINE T == {n \in 0..Len(q) : f[n] \notin Seq(U)}
<1>1. SUFFICES ASSUME T # {} PROVE FALSE
  OBVIOUS
<1>2. PICK n \in T : \A m \in T : n <= m
  <2>1. T \in SUBSET Nat
    OBVIOUS
  <2> HIDE DEF T
  <2> QED
    BY <1>1, <2>1, Least
<1>3. n \in 0..Len(q) /\ f[n] \notin Seq(U) /\ f[n] = OwnAfter(f[n - 1], q, n)
  BY <1>2 DEF OwnUpTo
<1>4. n # 0
  BY <1>3 DEF OwnAfter
<1>5. n - 1 \in 0..Len(q) /\ n - 1 \notin T /\ q[n] \in U
  BY <1>2, <1>3, <1>4
<1> QED
  BY <1>3, <1>4, <1>5 DEF OwnAfter

\* A message that comes is the last, if it is of the task.
LEMMA OwnOfAppend ==
  ASSUME NEW U, NEW q \in Seq(U), NEW u \in U
  PROVE  Updates!OwnUpdates(Append(q, u)) = OwnAfter(Updates!OwnUpdates(q), <<u>>, 1)
<1> DEFINE r == Append(q, u)
           k == Len(q)
           f == Own(q)
           g == Own(r)
           T == {n \in 0..k : f[n] # g[n]}
<1>1. k \in Nat /\ Len(r) = k + 1 /\ r[k + 1] = u /\ \A n \in 1..k : r[n] = q[n]
  OBVIOUS
<1>2. r \in Seq(U)
  OBVIOUS
<1> HIDE DEF r
<1>3. OwnUpTo(Own(q), q, Len(q)) /\ Updates!OwnUpdates(q) = Own(q)[Len(q)]
  BY OwnOf
<1>4. OwnUpTo(Own(r), r, Len(r)) /\ Updates!OwnUpdates(r) = Own(r)[Len(r)]
  BY <1>2, OwnOf
<1>5. OwnUpTo(f, q, k) /\ OwnUpTo(g, r, k + 1)
  BY <1>1, <1>3, <1>4
<1>6. Updates!OwnUpdates(q) = f[k] /\ Updates!OwnUpdates(r) = g[k + 1]
  BY <1>1, <1>3, <1>4
<1> HIDE DEF f, g
<1>7. f[k] = g[k]
  <2>1. SUFFICES ASSUME T # {} PROVE FALSE
    BY <1>1
  <2>2. PICK n \in T : \A m \in T : n <= m
    <3>1. T \in SUBSET Nat
      BY <1>1
    <3> HIDE DEF T
    <3> QED
      BY <2>1, <3>1, Least
  <2>3. n \in 0..k /\ n \in 0..(k + 1) /\ f[n] # g[n]
    BY <1>1, <2>2
  <2>4. f[n] = OwnAfter(f[n - 1], q, n) /\ g[n] = OwnAfter(g[n - 1], r, n)
    BY <1>5, <2>3 DEF OwnUpTo
  <2>5. n # 0
    BY <2>3, <2>4 DEF OwnAfter
  <2>6. n - 1 \in 0..k /\ n - 1 \notin T /\ r[n] = q[n]
    BY <1>1, <2>2, <2>3, <2>5
  <2>7. f[n - 1] = g[n - 1]
    BY <2>6
  <2> HIDE DEF k, T
  <2> QED
    BY <2>3, <2>4, <2>6, <2>7 DEF OwnAfter
<1>8. g[k + 1] = OwnAfter(g[k], r, k + 1)
  BY <1>1, <1>5 DEF OwnUpTo
<1> HIDE DEF k
<1>9. OwnAfter(g[k], r, k + 1) = OwnAfter(f[k], <<u>>, 1)
  BY <1>1, <1>7 DEF OwnAfter
<1> QED
  BY <1>6, <1>8, <1>9 DEF r

\* A message that is taken was the first, if it is of the task.
LEMMA OwnOfTail ==
  ASSUME NEW U, NEW q \in Seq(U), q # <<>>
  PROVE  Updates!OwnUpdates(q) = OwnAfter(<<>>, q, 1) \o Updates!OwnUpdates(Tail(q))
<1> DEFINE r == Tail(q)
           k == Len(q) - 1
           h == OwnAfter(<<>>, q, 1)
           f == Own(q)
           g == Own(r)
           T == {n \in 0..k : f[n + 1] # h \o g[n]}
<1>1. /\ k \in Nat /\ Len(q) = k + 1 /\ Len(r) = k /\ r \in Seq(U)
      /\ \A n \in 1..k : r[n] = q[n + 1]
  OBVIOUS
<1>2. r \in Seq(U)
  OBVIOUS
<1> HIDE DEF r
<1>3. OwnUpTo(Own(q), q, Len(q)) /\ Updates!OwnUpdates(q) = Own(q)[Len(q)]
  BY OwnOf
<1>4. OwnUpTo(Own(r), r, Len(r)) /\ Updates!OwnUpdates(r) = Own(r)[Len(r)]
  BY <1>2, OwnOf
<1>5. OwnUpTo(f, q, k + 1) /\ OwnUpTo(g, r, k)
  BY <1>1, <1>3, <1>4
<1>6. Updates!OwnUpdates(q) = f[k + 1] /\ Updates!OwnUpdates(r) = g[k]
  BY <1>1, <1>3, <1>4
<1>7. h \in Seq(U) /\ q[1] \in U
  BY DEF OwnAfter
<1> HIDE DEF f, g
<1>8. \A n \in 0..k : g[n] \in Seq(U)
  BY <1>1, <1>5, OwnType
<1>9. f[0] = <<>> /\ f[1] = h /\ g[0] = <<>>
  <2>1. f[0] = OwnAfter(f[0 - 1], q, 0) /\ g[0] = OwnAfter(g[0 - 1], r, 0)
    BY <1>1, <1>5 DEF OwnUpTo
  <2>2. f[1] = OwnAfter(f[0], q, 1)
    <3>1. f[1] = OwnAfter(f[1 - 1], q, 1)
      BY <1>1, <1>5 DEF OwnUpTo
    <3>2. 1 - 1 = 0
      OBVIOUS
    <3> QED
      BY <3>1, <3>2
  <2> QED
    BY <2>1, <2>2 DEF OwnAfter
<1> HIDE DEF r, h
<1>10. ASSUME NEW s \in Seq(U), NEW u \in U
      PROVE  Append(h \o s, u) = h \o Append(s, u)
  <2>1. h \in Seq(U)
    BY <1>7
  <2> QED
    BY <2>1
<1>11. T \in SUBSET Nat /\ k \in 0..k
  <2>1. k \in 0..k
    BY <1>1
  <2>2. \A n \in T : n \in Nat
    BY <1>1
  <2> HIDE DEF T, k
  <2> QED
    BY <2>1, <2>2
<1>12. f[k + 1] = h \o g[k]
  <2>1. SUFFICES ASSUME T # {} PROVE FALSE
    <3>1. k \in T \/ f[k + 1] = h \o g[k]
      BY <1>11
    <3> HIDE DEF T
    <3> QED
      BY <3>1
  <2>2. PICK n \in T : \A m \in T : n <= m
    <3> HIDE DEF T
    <3> QED
      BY <1>11, <2>1, Least
  <2>3. n \in 0..k /\ n + 1 \in 0..(k + 1) /\ f[n + 1] # h \o g[n]
    BY <1>1, <2>2
  <2>4. n # 0
    BY <1>7, <1>9, <2>3
  <2>5. /\ n - 1 \in 0..k /\ n - 1 \notin T /\ (n - 1) + 1 = n
        /\ r[n] = q[n + 1] /\ q[n + 1] \in U
    BY <1>1, <2>2, <2>3, <2>4
  <2>6. f[n] = h \o g[n - 1] /\ g[n - 1] \in Seq(U)
    BY <1>8, <2>5
  <2>7. f[n + 1] = OwnAfter(f[n], q, n + 1)
    <3>1. f[n + 1] = OwnAfter(f[(n + 1) - 1], q, n + 1)
      BY <1>5, <2>3 DEF OwnUpTo
    <3>2. (n + 1) - 1 = n
      BY <2>3
    <3> QED
      BY <3>1, <3>2
  <2>8. g[n] = OwnAfter(g[n - 1], r, n)
    BY <1>5, <2>3 DEF OwnUpTo
  <2>9. CASE q[n + 1] = None
    BY <2>3, <2>4, <2>5, <2>6, <2>7, <2>8, <2>9 DEF OwnAfter
  <2>10. CASE q[n + 1] # None
    <3>1. f[n + 1] = Append(h \o g[n - 1], q[n + 1]) /\ g[n] = Append(g[n - 1], q[n + 1])
      BY <2>3, <2>4, <2>5, <2>6, <2>7, <2>8, <2>10 DEF OwnAfter
    <3>2. Append(h \o g[n - 1], q[n + 1]) = h \o Append(g[n - 1], q[n + 1])
      BY <1>10, <2>5, <2>6
    <3> QED
      BY <2>3, <3>1, <3>2
  <2> QED
    BY <2>9, <2>10
<1> QED
  BY <1>6, <1>12 DEF r, h

\* They are messages, too.
LEMMA OwnIsSeq ==
  ASSUME NEW U, NEW q \in Seq(U)
  PROVE  Updates!OwnUpdates(q) \in Seq(U)
<1>1. OwnUpTo(Own(q), q, Len(q)) /\ Updates!OwnUpdates(q) = Own(q)[Len(q)]
  BY OwnOf
<1>2. \A n \in 0..Len(q) : Own(q)[n] \in Seq(U)
  BY <1>1, OwnType
<1>3. Len(q) \in 0..Len(q)
  OBVIOUS
<1> QED
  BY <1>1, <1>2, <1>3

\* Of an empty queue there are none.
LEMMA OwnOfNone == Updates!OwnUpdates(<<>>) = <<>>
<1>1. <<>> \in Seq({})
  OBVIOUS
<1>2. OwnUpTo(Own(<<>>), <<>>, Len(<<>>)) /\ Updates!OwnUpdates(<<>>) = Own(<<>>)[Len(<<>>)]
  BY <1>1, OwnOf
<1>3. Len(<<>>) = 0
  OBVIOUS
<1>4. OwnUpTo(Own(<<>>), <<>>, 0) /\ Updates!OwnUpdates(<<>>) = Own(<<>>)[0]
  BY <1>2, <1>3
<1> QED
  BY <1>4 DEF OwnUpTo, OwnAfter

\* The messages of the exchange.
Messages ==
    {None, "STARTED", "NEW_SOLUTION", "PAUSED", "INTERRUPTED", "ERROR", "FINISHED"}

\* What a client has got of the task, with what waits in its queue.
Got(s) == delivered[s] \o Updates!OwnUpdates(queue[s])

\* A worker publishes on a broken channel only within a session, while the task is not
\* paused: every session begins with a new publisher.
PublisherInv ==
    /\ publisher = "broken" => worker = "running"
    /\ worker = "running" => stored # "PAUSED"
    /\ worker \in {"idle", "storing"} => publisher = "closed"

\* A queue that is not bound, or whose consumer is gone, is empty, and what was sent
\* from it is over.  The worker's channel breaks when there is no queue, and who binds
\* one then gets nothing before there is a new channel.
GapInv ==
    /\ queue \in [Streams -> Seq(Messages)]
    /\ published \in [Streams -> Seq(Messages)]
    /\ delivered \in [Streams -> Seq(Messages)]
    /\ kept \in [Streams -> BOOLEAN]
    /\ \A s \in Streams : ~ bound[s] =>
          queue[s] = <<>> /\ published[s] = <<>> /\ delivered[s] = <<>>
    /\ \A s \in Streams : bound[s] /\ publisher = "broken" => Got(s) = <<>> /\ ~ kept[s]
    /\ NoGapInUpdates

\* Each operation keeps what is said of the publisher.
LEMMA PublisherKept ==
  ASSUME StreamInv, PublisherInv, [ServicesNext]_servicesVars
  PROVE  PublisherInv'
<1>1. CASE UNCHANGED streamVars
  BY <1>1 DEF streamVars, PublisherInv
<1>2. CASE Updates!WorkerStep
  BY <1>2 DEF Updates!WorkerStep, Updates!PublishStarted, Updates!SendStarted,
     Updates!PublishNewSolution, Updates!SendInProgress, Updates!PublishEnding,
     Updates!SendEnding, Updates!PublishOn, Updates!session, PublisherInv
<1>3. CASE Updates!PublishForeign \/ Updates!StopTsp
  BY <1>3 DEF Updates!PublishForeign, Updates!StopTsp, Updates!session, PublisherInv
<1>4. CASE \E s \in Streams : \/ Updates!QueueDeclare(s) \/ Updates!StreamStep(s)
                              \/ Updates!ContextDone(s)
  BY <1>4 DEF Updates!QueueDeclare, Updates!StreamStep, Updates!ContextDone,
     Updates!QueueBind, Updates!Consume, Updates!retrieveLatestStatus,
     Updates!SelectLatest, Updates!SelectUpdate, Updates!session, PublisherInv
<1> QED
  BY <1>1, <1>2, <1>3, <1>4, PartSteps DEF Updates!Next

\* A step that does nothing to the queues.
LEMMA SilenceKeeps ==
  ASSUME GapInv, UNCHANGED <<bound, queue, published, delivered, kept>>,
         publisher' = "broken" => publisher = "broken" \/ \A s \in Streams : ~ bound[s]
  PROVE  GapInv'
BY DEF GapInv, Got, NoGapInUpdates, Updates!NoGapInUpdates

\* The end of what is published grows as it does.
LEMMA EndGrows ==
  ASSUME NEW U, NEW p \in Seq(U), NEW u \in U, NEW n \in 0..Len(p)
  PROVE  /\ Append(p, u) \in Seq(U) /\ Len(Append(p, u)) = Len(p) + 1
         /\ SubSeq(Append(p, u), n + 1, Len(p) + 1) = Append(SubSeq(p, n + 1, Len(p)), u)
         /\ SubSeq(p, Len(p) + 1, Len(p)) = <<>>
<1> DEFINE r == Append(p, u)
           left == SubSeq(r, n + 1, Len(p) + 1)
           right == Append(SubSeq(p, n + 1, Len(p)), u)
<1>1. r \in Seq(U) /\ Len(r) = Len(p) + 1
  OBVIOUS
<1>2. left \in Seq(U) /\ right \in Seq(U)
  OBVIOUS
<1>3. Len(left) = Len(p) + 1 - n /\ Len(right) = Len(p) + 1 - n
  OBVIOUS
<1>4. \A k \in 1..(Len(p) + 1 - n) : left[k] = right[k]
  OBVIOUS
<1>5. left = right
  <2> HIDE DEF left, right, r
  <2> QED
    BY <1>2, <1>3, <1>4
<1>6. SubSeq(p, Len(p) + 1, Len(p)) = <<>>
  OBVIOUS
<1> QED
  BY <1>1, <1>5, <1>6

\* A message comes into a queue behind what the client has got.
LEMMA GotMore ==
  ASSUME GapInv, NEW s \in Streams, NEW u \in Messages,
         queue'[s] = Append(queue[s], u), delivered'[s] = delivered[s]
  PROVE  /\ Got(s)' = IF u = None THEN Got(s) ELSE Append(Got(s), u)
         /\ Got(s) \in Seq(Messages)
<1> DEFINE own == Updates!OwnUpdates(queue[s])
           had == delivered[s]
<1>1. queue[s] \in Seq(Messages) /\ had \in Seq(Messages)
  BY DEF GapInv
<1>2. own \in Seq(Messages)
  BY <1>1, OwnIsSeq
<1>3. Updates!OwnUpdates(queue'[s]) = IF u = None THEN own ELSE Append(own, u)
  <2>1. Updates!OwnUpdates(Append(queue[s], u)) = OwnAfter(own, <<u>>, 1)
    BY <1>1, OwnOfAppend
  <2> HIDE DEF own
  <2>2. OwnAfter(own, <<u>>, 1) = IF u = None THEN own ELSE Append(own, u)
    BY DEF OwnAfter
  <2> QED
    BY <2>1, <2>2
<1>4. Got(s) = had \o own /\ Got(s)' = had \o Updates!OwnUpdates(queue'[s])
  BY DEF Got
<1> HIDE DEF own, had
<1>5. had \o own \in Seq(Messages)
  BY <1>1, <1>2
<1>6. Append(had \o own, u) = had \o Append(own, u)
  <2>1. had \in Seq(Messages) /\ own \in Seq(Messages) /\ u \in Messages
    BY <1>1, <1>2
  <2> QED
    BY <2>1, SMTT(60)
<1>7. Got(s) \in Seq(Messages)
  BY <1>4, <1>5
<1>8. CASE u = None
  <2>1. Got(s)' = had \o own
    BY <1>3, <1>4, <1>8
  <2> QED
    BY <1>4, <1>7, <1>8, <2>1
<1>9. CASE u # None
  <2>1. Got(s)' = had \o Append(own, u)
    BY <1>3, <1>4, <1>9
  <2> QED
    BY <1>4, <1>6, <1>7, <1>9, <2>1
<1> QED
  BY <1>8, <1>9

\* The exchange delivers a message: one of another task, or an update of the task, by
\* a channel that is in order.
LEMMA DeliveryKeeps ==
  ASSUME StreamInv, GapInv, NEW u \in Messages, Updates!Deliver(u),
         UNCHANGED <<bound, delivered, kept>>,
         \/ u = None /\ UNCHANGED <<published, publisher>>
         \/ /\ u # None /\ Updates!Recorded(u)
            /\ publisher # "broken" /\ publisher' # "broken"
  PROVE  GapInv'
<1>1. /\ queue' = [s \in Streams |-> IF bound[s] THEN Append(queue[s], u) ELSE queue[s]]
      /\ published' = [s \in Streams |-> IF bound[s] /\ u # None
                           THEN Append(published[s], u) ELSE published[s]]
  BY DEF Updates!Deliver, Updates!Recorded, GapInv
<1>2. /\ queue' \in [Streams -> Seq(Messages)]
      /\ published' \in [Streams -> Seq(Messages)]
      /\ delivered' \in [Streams -> Seq(Messages)]
      /\ kept' \in [Streams -> BOOLEAN]
  BY <1>1 DEF GapInv
<1>3. \A s \in Streams : ~ bound'[s] =>
         queue'[s] = <<>> /\ published'[s] = <<>> /\ delivered'[s] = <<>>
  BY <1>1 DEF GapInv
<1>4. ASSUME NEW s \in Streams, bound'[s]
      PROVE  /\ publisher' = "broken" => Got(s)' = <<>> /\ ~ kept'[s]
             /\ \E n \in 0..Len(published'[s]) :
                   /\ Got(s)' = SubSeq(published'[s], n + 1, Len(published'[s]))
                   /\ kept'[s] => n = 0
  <2>1. bound[s] /\ queue'[s] = Append(queue[s], u) /\ delivered'[s] = delivered[s]
    BY <1>1, <1>4
  <2>2. /\ Got(s)' = IF u = None THEN Got(s) ELSE Append(Got(s), u)
        /\ Got(s) \in Seq(Messages)
    BY <2>1, GotMore
  <2>3. PICK n \in 0..Len(published[s]) :
           /\ Got(s) = SubSeq(published[s], n + 1, Len(published[s]))
           /\ kept[s] => n = 0
    BY <2>1 DEF GapInv, Got, NoGapInUpdates, Updates!NoGapInUpdates
  <2>4. CASE u = None
    <3>1. Got(s)' = Got(s) /\ published'[s] = published[s] /\ publisher' = publisher
      BY <1>1, <2>2, <2>4
    <3> QED
      BY <2>1, <2>3, <3>1 DEF GapInv
  <2>5. CASE u # None
    <3> DEFINE p == published[s]
    <3>1. p \in Seq(Messages) /\ published'[s] = Append(p, u)
      BY <1>1, <2>1, <2>5 DEF GapInv
    <3>2. Got(s)' = Append(SubSeq(p, n + 1, Len(p)), u)
      BY <2>2, <2>3, <2>5
    <3>3. n \in 0..Len(p)
      BY <2>3
    <3>4. publisher' # "broken" /\ kept'[s] = kept[s]
      BY <2>5
    <3> HIDE DEF p
    <3>5. /\ Len(published'[s]) = Len(p) + 1
          /\ Got(s)' = SubSeq(published'[s], n + 1, Len(p) + 1)
      <4>1. /\ Len(Append(p, u)) = Len(p) + 1
            /\ SubSeq(Append(p, u), n + 1, Len(p) + 1)
                  = Append(SubSeq(p, n + 1, Len(p)), u)
        BY <3>1, <3>3, EndGrows
      <4> QED
        BY <3>1, <3>2, <4>1
    <3>6. n \in 0..Len(published'[s])
      BY <3>1, <3>3, <3>5
    <3> QED
      BY <2>3, <3>4, <3>5, <3>6
  <2> QED
    BY <2>4, <2>5
<1>5. NoGapInUpdates'
  BY <1>4 DEF Got, NoGapInUpdates, Updates!NoGapInUpdates
<1> QED
  BY <1>2, <1>3, <1>4, <1>5 DEF GapInv

\* An update is lost on a broken channel, before all that the clients get.
LEMMA LossKeeps ==
  ASSUME GapInv, PublisherInv, NEW u \in Messages, Updates!Recorded(u),
         publisher = "broken", UNCHANGED <<bound, queue>>
  PROVE  GapInv'
<1>1. /\ published' = [s \in Streams |->
                         IF bound[s] THEN Append(published[s], u) ELSE published[s]]
      /\ UNCHANGED <<delivered, kept>>
  BY DEF Updates!Recorded
<1>2. published' \in [Streams -> Seq(Messages)]
  BY <1>1 DEF GapInv
<1>3. ASSUME NEW s \in Streams, bound'[s]
      PROVE  /\ Got(s)' = <<>> /\ ~ kept'[s]
             /\ Got(s)' = SubSeq(published'[s], Len(published'[s]) + 1, Len(published'[s]))
             /\ Len(published'[s]) \in 0..Len(published'[s])
  <2>1. Got(s)' = <<>> /\ ~ kept'[s]
    BY <1>1, <1>3 DEF GapInv, Got
  <2> DEFINE p == published'[s]
  <2>2. p \in Seq(Messages)
    BY <1>2
  <2> HIDE DEF p
  <2>3. SubSeq(p, Len(p) + 1, Len(p)) = <<>> /\ Len(p) \in 0..Len(p)
    BY <2>2
  <2> QED
    BY <2>1, <2>3 DEF p
<1>4. NoGapInUpdates'
  BY <1>3 DEF Got, NoGapInUpdates, Updates!NoGapInUpdates
<1>5. \A s \in Streams : ~ bound'[s] =>
         queue'[s] = <<>> /\ published'[s] = <<>> /\ delivered'[s] = <<>>
  BY <1>1 DEF GapInv
<1> QED
  BY <1>1, <1>2, <1>3, <1>4, <1>5 DEF GapInv

\* The worker publishes: if its channel breaks, there is no queue.
LEMMA PublicationKeeps ==
  ASSUME StreamInv, GapInv, PublisherInv, NEW u \in Messages \ {None},
         NEW release \in BOOLEAN, Updates!PublishOn(u, release)
  PROVE  GapInv'
<1>1. /\ Updates!Recorded(u) /\ bound' = bound
      /\ UNCHANGED <<delivered, kept>>
  BY DEF Updates!PublishOn, Updates!Recorded
<1>2. CASE publisher = "broken"
  BY <1>1, <1>2, LossKeeps DEF Updates!PublishOn
<1>3. CASE publisher # "broken" /\ (exchange \/ publisher = "closed")
  <2>1. Updates!Deliver(u) /\ publisher' # "broken"
    BY <1>3 DEF Updates!PublishOn
  <2> QED
    BY <1>1, <1>3, <2>1, DeliveryKeeps
<1>4. CASE publisher # "broken" /\ ~ (exchange \/ publisher = "closed")
  <2>1. \A s \in Streams : ~ bound[s]
    BY <1>4 DEF StreamInv
  <2>2. UNCHANGED queue
    BY <1>4 DEF Updates!PublishOn
  <2>3. UNCHANGED published
    BY <1>1, <2>1 DEF Updates!Recorded, GapInv
  <2> QED
    BY <1>1, <2>1, <2>2, <2>3, SilenceKeeps
<1> QED
  BY <1>2, <1>3, <1>4

\* A queue goes with its consumer.
LEMMA UnbindKeeps ==
  ASSUME StreamInv, GapInv, NEW s \in Streams, Updates!End(s), UNCHANGED publisher
  PROVE  GapInv'
<1>1. /\ queue' = [queue EXCEPT ![s] = <<>>] /\ bound' = [bound EXCEPT ![s] = FALSE]
      /\ published' = [published EXCEPT ![s] = <<>>]
      /\ delivered' = [delivered EXCEPT ![s] = <<>>]
      /\ kept' = [kept EXCEPT ![s] = FALSE]
  BY DEF Updates!End, Updates!Unbind, Updates!QueueGoes
<1>2. bound \in [Streams -> BOOLEAN]
  BY DEF StreamInv, StreamTypes
<1>3. /\ queue' \in [Streams -> Seq(Messages)]
      /\ published' \in [Streams -> Seq(Messages)]
      /\ delivered' \in [Streams -> Seq(Messages)]
  BY <1>1 DEF GapInv
<1>4. kept' \in [Streams -> BOOLEAN]
  BY <1>1, Zenon DEF GapInv
<1>5. \A r \in Streams : ~ bound'[r] =>
         queue'[r] = <<>> /\ published'[r] = <<>> /\ delivered'[r] = <<>>
  BY <1>1, <1>2 DEF GapInv
<1>6. ASSUME NEW r \in Streams, bound'[r]
      PROVE  /\ bound[r] /\ Got(r)' = Got(r)
             /\ queue'[r] = queue[r] /\ published'[r] = published[r]
             /\ delivered'[r] = delivered[r] /\ kept'[r] = kept[r]
  <2>1. r # s /\ bound[r]
    BY <1>1, <1>2, <1>6
  <2> QED
    BY <1>1, <2>1 DEF GapInv, Got
<1>7. NoGapInUpdates'
  BY <1>6 DEF GapInv, NoGapInUpdates, Updates!NoGapInUpdates
<1> QED
  BY <1>3, <1>4, <1>5, <1>6, <1>7 DEF GapInv

\* An update that is taken off the queue is sent, unless it is of another task.
LEMMA SelectUpdateKeeps ==
  ASSUME StreamInv, GapInv, NEW s \in Streams, Updates!SelectUpdate(s)
  PROVE  GapInv'
<1> DEFINE q == queue[s]
           u == Head(q)
<1>1. CASE Updates!isTerminalState(u)
  BY <1>1, UnbindKeeps DEF Updates!SelectUpdate
<1>2. CASE ~ Updates!isTerminalState(u)
  <2>1. /\ q # <<>>
        /\ queue' = [queue EXCEPT ![s] = Tail(q)]
        /\ delivered' = [delivered EXCEPT ![s] =
                             IF u = None THEN delivered[s] ELSE Append(delivered[s], u)]
        /\ UNCHANGED <<bound, published, kept, publisher>>
    BY <1>2 DEF Updates!SelectUpdate
  <2>2. stage[s] = "select" /\ bound[s]
    BY DEF Updates!SelectUpdate, StreamInv
  <2>3. q \in Seq(Messages) /\ u \in Messages /\ Tail(q) \in Seq(Messages) /\ u = q[1]
    BY <2>1 DEF GapInv
  <2>4. /\ queue' \in [Streams -> Seq(Messages)]
        /\ published' \in [Streams -> Seq(Messages)]
        /\ delivered' \in [Streams -> Seq(Messages)]
    <3> HIDE DEF q, u
    <3> QED
      BY <2>1, <2>3 DEF GapInv
  <2>5. \A r \in Streams : ~ bound'[r] =>
           queue'[r] = <<>> /\ published'[r] = <<>> /\ delivered'[r] = <<>>
    <3> HIDE DEF q, u
    <3> QED
      BY <2>1, <2>2 DEF GapInv
  <2>6. Got(s)' = Got(s)
    <3> DEFINE first == IF u = None THEN <<>> ELSE <<u>>
               rest == Updates!OwnUpdates(Tail(q))
               had == delivered[s]
    <3>1. Updates!OwnUpdates(q) = OwnAfter(<<>>, q, 1) \o rest
      BY <2>1, <2>3, OwnOfTail
    <3>2. OwnAfter(<<>>, q, 1) = first
      <4> HIDE DEF q, u
      <4>1. Append(<<>>, u) = <<u>>
        OBVIOUS
      <4> QED
        BY <2>3, <4>1 DEF OwnAfter
    <3>3. Got(s) = had \o Updates!OwnUpdates(q)
      BY DEF Got
    <3>4. rest \in Seq(Messages)
      BY <2>3, OwnIsSeq
    <3>5. first \in Seq(Messages)
      <4> HIDE DEF q, u
      <4> QED
        BY <2>3
    <3>6. queue'[s] = Tail(q) /\ had \in Seq(Messages)
      BY <2>1 DEF GapInv
    <3>7. delivered'[s] = had \o first
      <4>1. delivered'[s] = IF u = None THEN had ELSE Append(had, u)
        BY <2>1 DEF GapInv
      <4>2. had \in Seq(Messages) /\ u \in Messages
        BY <2>3, <3>6
      <4> HIDE DEF q, u, had
      <4>3. had \o <<>> = had /\ Append(had, u) = had \o <<u>>
        BY <4>2
      <4> QED
        BY <4>1, <4>3
    <3>8. had \o (first \o rest) = (had \o first) \o rest
      <4>1. had \in Seq(Messages)
        BY <3>6
      <4> HIDE DEF q, u, first, rest, had
      <4> QED
        BY <3>4, <3>5, <4>1
    <3>9. Got(s)' = delivered'[s] \o Updates!OwnUpdates(queue'[s])
      BY DEF Got
    <3> HIDE DEF q, u, first, had
    <3>10. Updates!OwnUpdates(queue'[s]) = rest
      BY <3>6
    <3> HIDE DEF rest
    <3> QED
      BY <3>1, <3>2, <3>3, <3>7, <3>8, <3>9, <3>10
  <2>7. ASSUME NEW r \in Streams, r # s
        PROVE  Got(r)' = Got(r)
    <3> HIDE DEF q, u
    <3>1. queue'[r] = queue[r] /\ delivered'[r] = delivered[r]
      BY <2>1, <2>7 DEF GapInv
    <3> QED
      BY <3>1 DEF Got
  <2> HIDE DEF q, u
  <2>8. \A r \in Streams : Got(r)' = Got(r)
    BY <2>6, <2>7
  <2>9. NoGapInUpdates'
    BY <2>1, <2>8 DEF GapInv, Got, NoGapInUpdates, Updates!NoGapInUpdates
  <2> QED
    BY <2>1, <2>4, <2>5, <2>8, <2>9 DEF GapInv
<1> QED
  BY <1>1, <1>2

\* A queue is bound, and nothing is in it; the worker's channel may be broken.
LEMMA BindKeeps ==
  ASSUME StreamInv, GapInv, NEW s \in Streams, Updates!QueueBind(s)
  PROVE  GapInv'
<1>1. /\ bound' = [bound EXCEPT ![s] = channel = "open" /\ exchange]
      /\ kept' = [kept EXCEPT ![s] = bound'[s] /\ publisher # "broken"]
      /\ UNCHANGED <<queue, published, delivered, publisher>>
  BY DEF Updates!QueueBind
<1>2. ~ bound[s]
  BY DEF Updates!QueueBind, Updates!Goto, StreamInv
<1>3. queue[s] = <<>> /\ published[s] = <<>> /\ delivered[s] = <<>>
  BY <1>2 DEF GapInv
<1>4. kept' \in [Streams -> BOOLEAN] /\ (kept'[s] => publisher # "broken")
  <2>1. bound' \in [Streams -> BOOLEAN]
    BY <1>1 DEF StreamInv, StreamTypes
  <2> QED
    BY <1>1, <2>1 DEF GapInv
<1>5. Got(s)' = <<>>
  <2>1. Got(s)' = <<>> \o <<>>
    BY <1>1, <1>3, OwnOfNone DEF Got
  <2> QED
    BY <2>1
<1>6. \A r \in Streams : r # s => /\ bound'[r] = bound[r] /\ kept'[r] = kept[r]
                                  /\ Got(r)' = Got(r)
  BY <1>1 DEF StreamInv, StreamTypes, GapInv, Got
<1>7. ASSUME NEW r \in Streams, bound'[r]
      PROVE  /\ publisher' = "broken" => Got(r)' = <<>> /\ ~ kept'[r]
             /\ \E n \in 0..Len(published'[r]) :
                   /\ Got(r)' = SubSeq(published'[r], n + 1, Len(published'[r]))
                   /\ kept'[r] => n = 0
  <2>1. CASE r = s
    <3>1. published'[s] = <<>> /\ Len(<<>>) = 0 /\ SubSeq(<<>>, 0 + 1, 0) = <<>>
      BY <1>1, <1>3
    <3> QED
      BY <1>1, <1>4, <1>5, <2>1, <3>1
  <2>2. CASE r # s
    BY <1>1, <1>6, <1>7, <2>2 DEF GapInv, Got, NoGapInUpdates, Updates!NoGapInUpdates
  <2> QED
    BY <2>1, <2>2
<1>8. NoGapInUpdates'
  BY <1>7 DEF Got, NoGapInUpdates, Updates!NoGapInUpdates
<1> QED
  BY <1>1, <1>3, <1>4, <1>6, <1>7, <1>8 DEF GapInv

\* The operations of the worker, of the server and of a call, one by one.
LEMMA GapKept ==
  ASSUME StreamInv, PublisherInv, GapInv, [ServicesNext]_servicesVars
  PROVE  GapInv'
<1> USE NoneAssumption DEF Updates!NoneAssumption, Updates!Terminal
<1>1. CASE UNCHANGED streamVars
  BY <1>1 DEF streamVars, GapInv, Got, NoGapInUpdates, Updates!NoGapInUpdates
<1>2. CASE Updates!WorkerStep
  <2>1. CASE Updates!PublishStarted
    BY <2>1, PublicationKeeps DEF Updates!PublishStarted, Messages
  <2>2. CASE Updates!SendStarted \/ Updates!SendInProgress \/ Updates!SendEnding
    BY <2>2, SilenceKeeps DEF Updates!SendStarted, Updates!SendInProgress,
       Updates!SendEnding, Updates!broker, Updates!history
  <2>3. CASE Updates!PublishNewSolution
    BY <2>3, PublicationKeeps DEF Updates!PublishNewSolution, Messages
  <2>4. ASSUME NEW e \in {"PAUSED", "INTERRUPTED", "ERROR", "FINISHED"},
               Updates!PublishEnding(e)
        PROVE  GapInv'
    BY <2>4, PublicationKeeps DEF Updates!PublishEnding, Messages
  <2> QED
    BY <1>2, <2>1, <2>2, <2>3, <2>4 DEF Updates!WorkerStep
<1>3. CASE Updates!PublishForeign
  BY <1>3, DeliveryKeeps DEF Updates!PublishForeign, Updates!history, Messages
<1>4. CASE Updates!StopTsp
  <2>1. /\ Updates!Recorded("INTERRUPTED")
        /\ UNCHANGED <<publisher, bound, delivered, kept>>
    BY <1>4 DEF Updates!StopTsp, Updates!Recorded
  <2>2. publisher # "broken"
    BY <1>4 DEF Updates!StopTsp, PublisherInv
  <2>3. CASE channel = "open" /\ exchange
    <3>1. Updates!Deliver("INTERRUPTED")
      BY <1>4, <2>3 DEF Updates!StopTsp
    <3> QED
      BY <2>1, <2>2, <3>1, DeliveryKeeps DEF Messages
  <2>4. CASE ~ (channel = "open" /\ exchange)
    <3>1. UNCHANGED queue
      BY <1>4, <2>4 DEF Updates!StopTsp
    <3>2. \A s \in Streams : ~ bound[s]
      BY <2>4 DEF StreamInv
    <3>3. UNCHANGED published
      BY <2>1, <3>2 DEF Updates!Recorded, GapInv
    <3> QED
      BY <2>1, <3>1, <3>3, SilenceKeeps
  <2> QED
    BY <2>3, <2>4
<1>5. ASSUME NEW s \in Streams,
             \/ Updates!QueueDeclare(s)
             \/ Updates!Consume(s)
             \/ Updates!retrieveLatestStatus(s)
      PROVE  GapInv'
  BY <1>5, SilenceKeeps DEF Updates!QueueDeclare, Updates!Consume,
     Updates!retrieveLatestStatus, Updates!broker, Updates!history
<1>6. ASSUME NEW s \in Streams, Updates!SelectLatest(s)
      PROVE  GapInv'
  BY <1>6, UnbindKeeps, SilenceKeeps DEF Updates!SelectLatest, Updates!broker,
     Updates!history
<1>7. ASSUME NEW s \in Streams, Updates!ContextDone(s)
      PROVE  GapInv'
  BY <1>7, UnbindKeeps DEF Updates!ContextDone
<1> QED
  BY <1>1, <1>2, <1>3, <1>4, <1>5, <1>6, <1>7, SelectUpdateKeeps, BindKeeps, PartSteps
     DEF Updates!Next, Updates!StreamStep

\* Of what is published of its task while a client's queue is bound, whoever else
\* subscribes, hangs up or stops the task, the client gets the end, once and in order,
\* and all of it if the worker's channel was in order at the bind: the channels that
\* carry updates break only when nobody has a queue.
THEOREM NoneIsMissed == ServicesSpec => []NoGapInUpdates
<1>1. ServicesInit => StreamInv /\ PublisherInv /\ GapInv
  <2>1. SUFFICES ASSUME ServicesInit PROVE StreamInv /\ PublisherInv /\ GapInv
    OBVIOUS
  <2>2. Updates!Init
    BY <2>1, PartsBegin
  <2>3. StreamInv
    BY <2>2 DEF Updates!Init, StreamInv, StreamTypes
  <2>4. PublisherInv
    BY <2>2 DEF Updates!Init, PublisherInv
  <2>5. GapInv
    BY <2>2 DEF Updates!Init, GapInv, NoGapInUpdates, Updates!NoGapInUpdates
  <2> QED
    BY <2>3, <2>4, <2>5
<1>2. /\ StreamInv /\ PublisherInv /\ GapInv /\ [ServicesNext]_servicesVars
      => (StreamInv /\ PublisherInv /\ GapInv)'
  BY StreamKept, PublisherKept, GapKept
<1>3. GapInv => NoGapInUpdates
  BY DEF GapInv
<1> QED
  BY <1>1, <1>2, <1>3, PTL DEF ServicesSpec

----------------------------------------------------------------------------
(* The settings of a task (TaskSettings).                                  *)

\* The largest of a few numbers is one of them.
LEMMA MaxIsOne ==
  ASSUME NEW I \in SUBSET (1..5), I # {}
  PROVE  Settings!Max(I) \in I
<1>1. \E x \in I : \A y \in I : x >= y
  <2>1. 5 \in I \/ 4 \in I \/ 3 \in I \/ 2 \in I \/ 1 \in I
    <3>1. \A x \in 1..5 : x = 1 \/ x = 2 \/ x = 3 \/ x = 4 \/ x = 5
      OBVIOUS
    <3> QED
      BY <3>1
  <2> QED
    BY <2>1
<1> QED
  BY <1>1 DEF Settings!Max

\* What ToProto writes is a number of the name, if it has one, and else not a number.
LEMMA WrittenNumber ==
  ASSUME NEW n \in 1..5, NEW names, Len(names) = n, DOMAIN names = 1..n, NEW name
  PROVE  /\ name \in Settings!ToSet(names) =>
               /\ Settings!ToProto(names, name) \in 0..(n - 1)
               /\ names[Settings!ToProto(names, name) + 1] = name
         /\ name \notin Settings!ToSet(names) => Settings!ToProto(names, name) = -1
<1> DEFINE I == {i_1 \in 1..Len(names) : names[i_1] = name}
<1>1. Settings!ToProto(names, name) = (IF I # {} THEN Settings!Max(I) ELSE 0) - 1
  BY DEF Settings!ToProto, Settings!SelectLastInSeq
<1>2. name \in Settings!ToSet(names) <=> I # {}
  BY DEF Settings!ToSet
<1>3. I # {} => Settings!Max(I) \in I
  <2>1. I \in SUBSET (1..5)
    OBVIOUS
  <2> HIDE DEF I
  <2> QED
    BY <2>1, MaxIsOne
<1> HIDE DEF I
<1>4. ASSUME I # {}
      PROVE  Settings!ToProto(names, name) \in 0..(n - 1)
             /\ names[Settings!ToProto(names, name) + 1] = name
  <2>1. PICK k \in I : Settings!ToProto(names, name) = k - 1
    BY <1>1, <1>3, <1>4
  <2>2. k \in 1..n /\ names[k] = name
    BY <2>1 DEF I
  <2>3. k - 1 \in 0..(n - 1) /\ (k - 1) + 1 = k
    BY <2>2
  <2> QED
    BY <2>1, <2>2, <2>3
<1> QED
  BY <1>1, <1>2, <1>4

\* The enumerations of the messages.
NameLists ==
    {Settings!Engines, Settings!Geometries, Settings!Algorithms, Settings!CostFunctions,
     Settings!Validators}

\* No enumeration of the messages has more than five numbers.
LEMMA NamesAreFew ==
  ASSUME NEW names \in NameLists
  PROVE  Len(names) \in 1..5 /\ DOMAIN names = 1..Len(names)
BY DEF NameLists, Settings!Engines, Settings!Geometries, Settings!Algorithms,
   Settings!CostFunctions, Settings!Validators

\* A name that has a number comes back from it; a name without throws.
LEMMA NameComesBack ==
  ASSUME NEW names \in NameLists, NEW name
  PROVE  /\ name \in Settings!ToSet(names) =>
               /\ Settings!ToProto(names, name) \in Nat
               /\ Settings!FromProto(names, Settings!ToProto(names, name)) = name
         /\ Settings!ToProto(names, name) # -1 => name \in Settings!ToSet(names)
<1> DEFINE n == Len(names)
           number == Settings!ToProto(names, name)
<1>1. n \in 1..5 /\ DOMAIN names = 1..n
  BY NamesAreFew
<1> HIDE DEF n, number
<1>2. /\ name \in Settings!ToSet(names) => number \in 0..(n - 1) /\ names[number + 1] = name
      /\ name \notin Settings!ToSet(names) => number = -1
  BY <1>1, WrittenNumber DEF n, number
<1>3. number \in 0..(n - 1) => number \in Nat /\ number + 1 \in DOMAIN names
  BY <1>1
<1> QED
  BY <1>2, <1>3 DEF Settings!FromProto, number

\* Engines and geometries have one number each: a number comes back from its name.
LEMMA NumberComesBack ==
  ASSUME NEW names \in {Settings!Engines, Settings!Geometries}, NEW k \in Nat,
         Settings!FromProto(names, k) # Settings!invalid_argument
  PROVE  Settings!ToProto(names, Settings!FromProto(names, k)) = k
<1> DEFINE n == Len(names)
           number == Settings!ToProto(names, names[k + 1])
<1>1. n \in 1..5 /\ DOMAIN names = 1..n
  BY NamesAreFew DEF NameLists
<1>2. \A x, y \in 1..n : names[x] = names[y] => x = y
  BY DEF Settings!Engines, Settings!Geometries
<1> HIDE DEF n, number
<1>3. k + 1 \in 1..n /\ Settings!FromProto(names, k) = names[k + 1]
  BY <1>1 DEF Settings!FromProto
<1>4. names[k + 1] \in Settings!ToSet(names)
  BY <1>1, <1>3 DEF Settings!ToSet
<1>5. number \in 0..(n - 1) /\ names[number + 1] = names[k + 1]
  BY <1>1, <1>4, WrittenNumber DEF n, number
<1>6. number + 1 = k + 1
  BY <1>1, <1>2, <1>3, <1>5
<1> QED
  BY <1>1, <1>3, <1>5, <1>6 DEF number

\* What is read of a message that was written of settings is the settings.
LEMMA RoutingComesBack ==
  ASSUME NEW r \in Settings!RoutingSettings, Settings!CanWrite(r), NEW b \in BOOLEAN
  PROVE  /\ Settings!RoutingFromProto(
               [Settings!RoutingToProto(r) EXCEPT !.retrieve_waypoints = b])
               = [r EXCEPT !.retrieve_waypoints = b]
         /\ Settings!ToProto(Settings!Engines, r.engine) \in Nat
         /\ Settings!ToProto(Settings!Geometries, r.geometry) \in Nat
<1> DEFINE e == Settings!ToProto(Settings!Engines, r.engine)
           g == Settings!ToProto(Settings!Geometries, r.geometry)
<1>1. e # -1 /\ g # -1
  BY DEF Settings!CanWrite
<1>2. /\ e \in Nat /\ Settings!FromProto(Settings!Engines, e) = r.engine
      /\ g \in Nat /\ Settings!FromProto(Settings!Geometries, g) = r.geometry
  BY <1>1, NameComesBack DEF NameLists
<1>3. Settings!RoutingToProto(r) =
        [engine |-> e, osrm |-> <<g>>, force_update |-> r.force_update,
         retrieve_waypoints |-> r.retrieve_waypoints]
  BY DEF Settings!RoutingToProto
<1> HIDE DEF e, g
<1>4. Settings!RoutingFromProto(
        [Settings!RoutingToProto(r) EXCEPT !.retrieve_waypoints = b])
        = [engine |-> r.engine, geometry |-> r.geometry, force_update |-> r.force_update,
           retrieve_waypoints |-> b]
  BY <1>2, <1>3 DEF Settings!RoutingFromProto
<1> QED
  BY <1>2, <1>4 DEF Settings!RoutingSettings, e, g

\* The same of the solver's settings, where two numbers have one name.
LEMMA SolverComesBack ==
  ASSUME NEW s \in Settings!SolverSettings
  PROVE  Settings!SolverFromProto(Settings!SolverToProto(s)) = s
<1>1. /\ Settings!FromProto(Settings!Algorithms,
            Settings!ToProto(Settings!Algorithms, s.algorithm)) = s.algorithm
      /\ Settings!FromProto(Settings!CostFunctions,
            Settings!ToProto(Settings!CostFunctions, s.cost_function)) = s.cost_function
      /\ Settings!FromProto(Settings!Validators,
            Settings!ToProto(Settings!Validators, s.validator)) = s.validator
  BY NameComesBack DEF NameLists, Settings!SolverSettings
<1> QED
  BY <1>1 DEF Settings!SolverFromProto, Settings!SolverToProto, Settings!SolverSettings

\* Where a call is, so far is what became of it.
Stages ==
    /\ pc = "client" => meant = <<>> /\ task = <<>> /\ plan = <<>>
    /\ pc \in {"client", "sent", "planned"} => question = <<>>
    /\ pc \in {"client", "sent", "planned", "asked"} => provider = <<>>
    /\ pc = "sent" => task # <<>> /\ plan = <<>>
    /\ pc = "planned" => plan # <<>>
    /\ pc = "asked" => question # <<>>

\* The request for a route, of settings with or without the waypoints.
Request(r, b) == [Settings!RoutingToProto(r) EXCEPT !.retrieve_waypoints = b]

\* Of what a client meant all that follows is a translation ...
OfMeant ==
    meant # <<>> =>
        \E r \in Settings!RoutingSettings, s \in Settings!Solvers(Settings!SolverSettings) :
            /\ meant = <<[routing |-> r, solver |-> s]>>
            /\ task # <<>> => task = <<Settings!Written(meant[1])>> /\ Settings!CanWrite(r)
            /\ plan # <<>> => plan = meant
            /\ \/ question = <<>> /\ provider = <<>>
               \/ /\ Settings!CanWrite(r)
                  /\ \E b \in BOOLEAN :
                        /\ question = <<Request(r, b)>>
                        /\ provider \in {<<>>, <<Settings!createEngine(
                               [r EXCEPT !.retrieve_waypoints = b])>>}

\* Settings as numbers, of any client.
AnyRouting ==
    [engine : Nat, osrm : {<<>>} \cup {<<k>> : k \in Nat},
     force_update : BOOLEAN, retrieve_waypoints : BOOLEAN]

\* ... and of a task, whoever sent it.
OfTask ==
    task # <<>> =>
        /\ task[1].routing \in AnyRouting
        /\ plan # <<>> =>
              /\ plan[1].routing = Settings!RoutingFromProto(task[1].routing)
              /\ plan[1].routing.engine # Settings!invalid_argument
              /\ plan[1].routing.geometry # Settings!invalid_argument
        /\ question # <<>> =>
              /\ plan # <<>>
              /\ \E b \in BOOLEAN :
                    /\ b => plan[1].routing.retrieve_waypoints
                    /\ question = <<Request(plan[1].routing, b)>>

SettingsInv == Stages /\ OfMeant /\ OfTask

\* A C++ client says what it means, and writes it if it can.
LEMMA MeanKeeps ==
  ASSUME SettingsInv, pc = "client",
         NEW r \in Settings!RoutingSettings,
         NEW s \in Settings!Solvers(Settings!SolverSettings), Settings!Mean(r, s)
  PROVE  SettingsInv'
<1>1. /\ meant' = <<[routing |-> r, solver |-> s]>>
      /\ application' = application /\ question' = <<>> /\ provider' = <<>>
  BY DEF Settings!Mean, SettingsInv, Stages
<1>2. s \in Settings!Solvers(Settings!SolverSettings)'
  BY <1>1 DEF Settings!Solvers, Settings!SolverSettings
<1>3. CASE pc' = "planned" /\ plan' = meant' /\ task' = <<>>
  BY <1>1, <1>2, <1>3 DEF SettingsInv, Stages, OfMeant, OfTask
<1>4. CASE /\ Settings!CanWrite(r) /\ pc' = "sent"
           /\ task' = <<Settings!Written(meant'[1])>> /\ plan' = <<>>
  <2>1. task'[1].routing = Settings!RoutingToProto(r)
    BY <1>1, <1>4 DEF Settings!Written
  <2>2. task'[1].routing \in AnyRouting
    BY <1>4, <2>1, RoutingComesBack
       DEF Settings!RoutingToProto, AnyRouting, Settings!RoutingSettings
  <2> QED
    BY <1>1, <1>2, <1>4, <2>2 DEF SettingsInv, Stages, OfMeant, OfTask
<1>5. CASE pc' = "refused" /\ task' = <<>> /\ plan' = <<>>
  BY <1>1, <1>2, <1>5 DEF SettingsInv, Stages, OfMeant, OfTask
<1> QED
  BY <1>3, <1>4, <1>5 DEF Settings!Mean, SettingsInv, Stages

\* Another client sends the numbers it likes, and nothing is meant.
LEMMA SendKeeps ==
  ASSUME SettingsInv, pc = "client",
         NEW r \in Settings!RoutingMessages, NEW s,
         Settings!SendTask(r, s) \/ Settings!SendRequest(r)
  PROVE  SettingsInv'
<1>1. r \in AnyRouting
  BY NumbersAssumption
     DEF Settings!NumbersAssumption, Settings!RoutingMessages, AnyRouting
<1> QED
  BY <1>1 DEF Settings!SendTask, Settings!SendRequest, SettingsInv, Stages, OfMeant,
     OfTask

\* The worker or the scheduler reads the task.
LEMMA RetrieveKeeps ==
  ASSUME SettingsInv, Settings!RetrieveTask
  PROVE  SettingsInv'
<1>1. /\ pc = "sent" /\ task # <<>> /\ plan = <<>> /\ question = <<>> /\ provider = <<>>
      /\ UNCHANGED <<application, meant, task, question, provider>>
  BY DEF SettingsInv, Stages, Settings!RetrieveTask
<1>2. CASE pc' = "error" /\ plan' = plan
  BY <1>1, <1>2 DEF SettingsInv, Stages, OfMeant, OfTask, Settings!Solvers
<1>3. CASE Settings!CanRead(task[1]) /\ pc' = "planned" /\ plan' = <<Settings!Read(task[1])>>
  <2>1. OfTask'
    BY <1>1, <1>3 DEF SettingsInv, OfTask, Settings!CanRead, Settings!Read
  <2>2. ASSUME meant # <<>>
        PROVE  plan' = meant
    <3>1. PICK r \in Settings!RoutingSettings,
               s \in Settings!Solvers(Settings!SolverSettings) :
            /\ meant = <<[routing |-> r, solver |-> s]>>
            /\ task = <<Settings!Written(meant[1])>> /\ Settings!CanWrite(r)
      BY <1>1, <2>2 DEF SettingsInv, OfMeant
    <3>2. Settings!RoutingFromProto(Settings!RoutingToProto(r)) = r
      <4>1. r.retrieve_waypoints \in BOOLEAN
            /\ [Settings!RoutingToProto(r) EXCEPT !.retrieve_waypoints = r.retrieve_waypoints]
                  = Settings!RoutingToProto(r)
            /\ [r EXCEPT !.retrieve_waypoints = r.retrieve_waypoints] = r
        BY DEF Settings!RoutingSettings, Settings!RoutingToProto
      <4> QED
        BY <3>1, <4>1, RoutingComesBack
    <3>3. [k \in DOMAIN s |-> Settings!SolverFromProto(
              [k_1 \in DOMAIN s |-> Settings!SolverToProto(s[k_1])][k])] = s
      <4>1. s = <<>> \/ \E x \in Settings!SolverSettings : s = <<x>>
        BY DEF Settings!Solvers
      <4>2. s \in Seq(Settings!SolverSettings)
        <5>1. CASE s = <<>>
          BY <5>1
        <5>2. ASSUME NEW x \in Settings!SolverSettings, s = <<x>>
              PROVE  s \in Seq(Settings!SolverSettings)
          BY <5>2
        <5> QED
          BY <4>1, <5>1, <5>2
      <4>3. \A k \in DOMAIN s :
              Settings!SolverFromProto(Settings!SolverToProto(s[k])) = s[k]
        BY <4>2, SolverComesBack
      <4> QED
        BY <4>2, <4>3
    <3>4. task[1] = [routing |-> Settings!RoutingToProto(r),
                     solver |-> [k \in DOMAIN s |-> Settings!SolverToProto(s[k])]]
      BY <3>1 DEF Settings!Written
    <3> QED
      BY <1>3, <3>1, <3>2, <3>3, <3>4 DEF Settings!Read
  <2>3. OfMeant'
    BY <1>1, <2>2 DEF SettingsInv, OfMeant, Settings!Solvers
  <2> QED
    BY <1>1, <1>3, <2>1, <2>3 DEF SettingsInv, Stages
<1> QED
  BY <1>1, <1>2, <1>3 DEF Settings!RetrieveTask

\* The router is asked, with the waypoints or without.
LEMMA AskKeeps ==
  ASSUME SettingsInv, NEW summary \in BOOLEAN, Settings!AskForRoute(summary)
  PROVE  SettingsInv'
<1> DEFINE r == plan[1].routing
           b == r.retrieve_waypoints /\ ~summary
<1>1. /\ pc = "planned" /\ plan # <<>> /\ question = <<>> /\ provider = <<>>
      /\ UNCHANGED <<application, meant, task, plan, provider>>
  BY DEF SettingsInv, Stages, Settings!AskForRoute
<1>2. CASE pc' = "refused" /\ question' = question
  BY <1>1, <1>2 DEF SettingsInv, Stages, OfMeant, OfTask, Settings!Solvers
<1>3. CASE /\ Settings!CanWrite(r) /\ pc' = "asked"
           /\ question' = <<[Settings!RoutingToProto(r) EXCEPT
                               !.retrieve_waypoints = @ /\ ~summary]>>
  <2>1. question' = <<Request(r, b)>>
    BY <1>3 DEF Request, Settings!RoutingToProto
  <2>2. OfTask'
    BY <1>1, <2>1 DEF SettingsInv, OfTask
  <2>3. OfMeant'
    <3>1. SUFFICES ASSUME meant # <<>> PROVE OfMeant'
      BY <1>1 DEF OfMeant
    <3>2. PICK q \in Settings!RoutingSettings,
               s \in Settings!Solvers(Settings!SolverSettings) :
            /\ meant = <<[routing |-> q, solver |-> s]>>
            /\ task # <<>> => task = <<Settings!Written(meant[1])>> /\ Settings!CanWrite(q)
            /\ plan = meant
      BY <1>1, <3>1 DEF SettingsInv, OfMeant
    <3>3. s \in Settings!Solvers(Settings!SolverSettings)'
      BY <1>1, <3>2 DEF Settings!Solvers, Settings!SolverSettings
    <3>4. r = q /\ b \in BOOLEAN
      BY <3>2 DEF Settings!RoutingSettings
    <3> HIDE DEF r, b
    <3> QED
      BY <1>1, <1>3, <2>1, <3>2, <3>3, <3>4 DEF OfMeant
  <2> QED
    BY <1>1, <1>3, <2>1, <2>2, <2>3 DEF SettingsInv, Stages
<1> QED
  BY <1>1, <1>2, <1>3 DEF Settings!AskForRoute

\* The router makes its route provider.
LEMMA RouteKeeps ==
  ASSUME SettingsInv, Settings!GetSingleRoute
  PROVE  SettingsInv'
<1>1. /\ pc = "asked" /\ question # <<>> /\ provider = <<>>
      /\ UNCHANGED <<application, meant, task, plan, question>>
      /\ \/ pc' = "error" /\ provider' = provider
         \/ /\ pc' = "routed"
            /\ provider' = <<Settings!createEngine(Settings!RoutingFromProto(question[1]))>>
  BY DEF SettingsInv, Stages, Settings!GetSingleRoute
<1>2. OfTask' /\ Stages'
  BY <1>1 DEF SettingsInv, Stages, OfTask
<1>3. OfMeant'
  <2>1. SUFFICES ASSUME meant # <<>> PROVE OfMeant'
    BY <1>1 DEF OfMeant
  <2>2. PICK r \in Settings!RoutingSettings,
             s \in Settings!Solvers(Settings!SolverSettings), b \in BOOLEAN :
          /\ meant = <<[routing |-> r, solver |-> s]>>
          /\ task # <<>> => task = <<Settings!Written(meant[1])>> /\ Settings!CanWrite(r)
          /\ plan # <<>> => plan = meant
          /\ Settings!CanWrite(r)
          /\ question = <<Request(r, b)>>
    BY <1>1, <2>1 DEF SettingsInv, OfMeant
  <2>3. Settings!RoutingFromProto(question[1]) = [r EXCEPT !.retrieve_waypoints = b]
    BY <2>2, RoutingComesBack DEF Request
  <2>4. s \in Settings!Solvers(Settings!SolverSettings)'
    BY <1>1, <2>2 DEF Settings!Solvers, Settings!SolverSettings
  <2> QED
    BY <1>1, <2>2, <2>3, <2>4 DEF OfMeant
<1> QED
  BY <1>2, <1>3 DEF SettingsInv

\* Each call of the way keeps it, and so do the other parts.
LEMMA SettingsKept ==
  ASSUME SettingsInv, [ServicesNext]_servicesVars
  PROVE  SettingsInv'
<1>1. CASE UNCHANGED settingsVars
  BY <1>1 DEF settingsVars, SettingsInv, Stages, OfMeant, OfTask, Settings!Solvers
<1>2. CASE Settings!Next
  <2>1. CASE /\ pc = "client"
             /\ \E r \in Settings!RoutingSettings,
                   s \in Settings!Solvers(Settings!SolverSettings) : Settings!Mean(r, s)
    BY <2>1, MeanKeeps
  <2>2. CASE /\ pc = "client"
             /\ \E r \in Settings!RoutingMessages,
                   s \in Settings!Solvers(Settings!SolverMessages) : Settings!SendTask(r, s)
    BY <2>2, SendKeeps
  <2>3. CASE pc = "client" /\ \E r \in Settings!RoutingMessages : Settings!SendRequest(r)
    BY <2>3, SendKeeps
  <2>4. CASE Settings!RetrieveTask
    BY <2>4, RetrieveKeeps
  <2>5. CASE \E summary \in BOOLEAN : Settings!AskForRoute(summary)
    BY <2>5, AskKeeps
  <2>6. CASE Settings!GetSingleRoute
    BY <2>6, RouteKeeps
  <2> QED
    BY <1>2, <2>1, <2>2, <2>3, <2>4, <2>5, <2>6 DEF Settings!Next
<1> QED
  BY <1>1, <1>2, PartSteps

\* What became of a task is a translation of it, all the way.
LEMMA SettingsInvariant == ServicesSpec => []SettingsInv
<1>1. ServicesInit => SettingsInv
  BY PartsBegin DEF Settings!Init, SettingsInv, Stages, OfMeant, OfTask
<1>2. SettingsInv /\ [ServicesNext]_servicesVars => SettingsInv'
  BY SettingsKept
<1> QED
  BY <1>1, <1>2, PTL DEF ServicesSpec

\* The route provider, and the solver, are the ones the client meant, whatever numbers
\* other clients may send meanwhile and however often settings are translated.
THEOREM MeantIsDone == ServicesSpec => []SettingsArrive
<1>1. ASSUME SettingsInv
      PROVE  SettingsArrive
  <2>1. SUFFICES ASSUME meant # <<>> PROVE SettingsArrive
    BY DEF SettingsArrive, Settings!SettingsArrive
  <2>2. PICK r \in Settings!RoutingSettings,
             s \in Settings!Solvers(Settings!SolverSettings) :
          /\ meant = <<[routing |-> r, solver |-> s]>>
          /\ plan # <<>> => plan = meant
          /\ \/ provider = <<>>
             \/ \E b \in BOOLEAN :
                   /\ question = <<Request(r, b)>>
                   /\ provider \in {<<>>, <<Settings!createEngine(
                          [r EXCEPT !.retrieve_waypoints = b])>>}
    BY <1>1, <2>1 DEF SettingsInv, OfMeant
  <2>3. ASSUME provider # <<>>
        PROVE  /\ provider[1].engine = r.engine
               /\ provider[1].force_update = r.force_update
               /\ provider[1].engine = "OSRM" =>
                     provider[1].geometry = IF question[1].retrieve_waypoints
                                            THEN r.geometry ELSE "STRAIGHT_LINE"
    <3>1. PICK b \in BOOLEAN :
            /\ question = <<Request(r, b)>>
            /\ provider = <<Settings!createEngine([r EXCEPT !.retrieve_waypoints = b])>>
      BY <2>2, <2>3
    <3>2. question[1].retrieve_waypoints = b
      BY <3>1 DEF Request, Settings!RoutingToProto
    <3> QED
      BY <3>1, <3>2 DEF Settings!createEngine, Settings!RoutingSettings
  <2> QED
    BY <2>2, <2>3 DEF SettingsArrive, Settings!SettingsArrive
<1> QED
  BY <1>1, SettingsInvariant, PTL

\* The numbers a worker or the scheduler sends to the router are those of the task.
THEOREM AskedIsSent == ServicesSpec => []RequestOfTheTask
<1>1. ASSUME SettingsInv
      PROVE  RequestOfTheTask
  <2>1. SUFFICES ASSUME question # <<>>, task # <<>> PROVE RequestOfTheTask
    BY DEF RequestOfTheTask, Settings!RequestOfTheTask
  <2> DEFINE t == task[1].routing
             p == plan[1].routing
  <2>2. PICK b \in BOOLEAN :
          /\ t \in AnyRouting /\ p = Settings!RoutingFromProto(t)
          /\ p.engine # Settings!invalid_argument /\ p.geometry # Settings!invalid_argument
          /\ b => p.retrieve_waypoints
          /\ question = <<Request(p, b)>>
    BY <1>1, <2>1 DEF SettingsInv, OfTask
  <2> HIDE DEF t, p
  <2>3. Settings!ToProto(Settings!Engines, p.engine) = t.engine
    <3>1. p.engine = Settings!FromProto(Settings!Engines, t.engine) /\ t.engine \in Nat
      BY <2>2 DEF Settings!RoutingFromProto, AnyRouting
    <3> QED
      BY <2>2, <3>1, NumberComesBack
  <2>4. Settings!ToProto(Settings!Geometries, p.geometry) =
          IF t.osrm = <<>> THEN 2 ELSE t.osrm[1]
    <3>1. CASE t.osrm = <<>>
      <4>1. p.geometry = Settings!FromProto(Settings!Geometries, 2)
        BY <2>2, <3>1
           DEF Settings!RoutingFromProto, Settings!FromProto, Settings!Geometries
      <4> QED
        BY <2>2, <3>1, <4>1, NumberComesBack
    <3>2. CASE t.osrm # <<>>
      <4>1. /\ p.geometry = Settings!FromProto(Settings!Geometries, t.osrm[1])
            /\ t.osrm[1] \in Nat
        BY <2>2, <3>2 DEF Settings!RoutingFromProto, AnyRouting
      <4> QED
        BY <2>2, <3>2, <4>1, NumberComesBack
    <3> QED
      BY <3>1, <3>2
  <2>5. question[1] =
          [engine |-> t.engine, osrm |-> <<IF t.osrm = <<>> THEN 2 ELSE t.osrm[1]>>,
           force_update |-> p.force_update, retrieve_waypoints |-> b]
    BY <2>2, <2>3, <2>4 DEF Request, Settings!RoutingToProto
  <2>6. /\ p.force_update = t.force_update
        /\ p.retrieve_waypoints = t.retrieve_waypoints
    BY <2>2 DEF Settings!RoutingFromProto
  <2>7. t.osrm # <<>> => t.osrm = <<t.osrm[1]>>
    BY <2>2 DEF AnyRouting
  <2> QED
    BY <2>2, <2>5, <2>6, <2>7 DEF RequestOfTheTask, Settings!RequestOfTheTask, t
<1> QED
  BY <1>1, SettingsInvariant, PTL

----------------------------------------------------------------------------
(* A waybill scheduled by the server (ScheduleWaybill).                    *)

\* The algorithms at work on the server, as WaybillScheduling_proofs has them: with
\* waybills the wire can hold and routes of any duration.
Wide == {w \in Seq(Allocation) : \A j \in 1..Len(w) : \A k \in 1..Len(w[j].windows) :
            w[j].windows[k].start <= InfiniteInterval}

Drive == INSTANCE WaybillScheduling_proofs
    WITH Waybills <- Wide, Durations <- Nat, algorithm <- algorithm_made,
         waybill <- waybill_read, shift_start <- shift_read, i <- place,
         current_time <- time, shift_budget <- budget

\* What those proofs assume of the constants holds.
LEMMA DriveAssumes ==
  /\ Nat \subseteq Nat /\ Starts \subseteq Nat
  /\ InfiniteInterval \in Nat /\ Forever \in Nat
  /\ Wide \subseteq Seq(Drive!Allocation)
  /\ \A w \in Wide : \A j \in 1..Len(w) : \A k \in 1..Len(w[j].windows) :
        w[j].windows[k].start <= InfiniteInterval
<1>1. Drive!Window = Window /\ Drive!Allocation = Allocation
  BY DEF Drive!Window, Drive!Allocation, Window, Allocation
<1> QED
  BY <1>1, TimesAssumption DEF Wide

\* They begin as those proofs say.
LEMMA DriveBegins == Drive!Init => Drive!IInv
BY DriveAssumes, Drive!Initially

\* Each of their steps keeps what those proofs keep.
LEMMA DriveGoes ==
  ASSUME Drive!IInv, [Drive!Next]_Drive!vars
  PROVE  Drive!IInv'
BY DriveAssumes, Drive!Steps

\* A waybill as it comes from the wire, or with a route that does.
IntAllocation ==
    [windows : Seq(Window), planned : Int, start : Int, end : Int, next : Int]

\* The wire has numbers of 32 bits.
LEMMA WireNumber ==
  ASSUME NEW t \in Int
  PROVE  Schedule!toInt32(t) \in Int /\ Schedule!toInt32(t) < Half
<1> DEFINE m == 2 * Half
<1>1. Half \in Nat /\ m \in Nat \ {0} /\ m = Half + Half
  BY WireAssumption DEF Schedule!WireAssumption
<1>2. Schedule!toInt32(t) = ((t + Half) % m) - Half
  BY DEF Schedule!toInt32
<1> HIDE DEF m
<1>3. (t + Half) % m \in 0..(m - 1)
  BY <1>1
<1> QED
  BY <1>1, <1>2, <1>3

\* A window stays one.
LEMMA WireWindow ==
  ASSUME NEW w \in Window
  PROVE  Schedule!windowToProto(w) \in Window /\ Schedule!windowToProto(w).start < Half
<1>1. w.start \in Int /\ w.end \in Int
  BY DEF Window
<1>2. /\ Schedule!toInt32(w.start) \in Int /\ Schedule!toInt32(w.start) < Half
      /\ Schedule!toInt32(w.end) \in Int
  BY <1>1, WireNumber
<1> QED
  BY <1>2 DEF Schedule!windowToProto, Window

\* An allocation stays one, with windows that begin before Half.
LEMMA WireAllocation ==
  ASSUME NEW a \in IntAllocation
  PROVE  /\ Schedule!allocationToProto(a) \in IntAllocation
         /\ \A k \in 1..Len(Schedule!allocationToProto(a).windows) :
               Schedule!allocationToProto(a).windows[k].start < Half
<1> DEFINE ws == [k \in 1..Len(a.windows) |-> Schedule!windowToProto(a.windows[k])]
           st == Schedule!toInt32(a.start)
           en == Schedule!toInt32(a.end)
           nx == Schedule!toInt32(a.next)
           pl == Schedule!toInt32(a.planned)
           b == [a EXCEPT !.start = st, !.end = en, !.next = nx, !.planned = pl,
                          !.windows = ws]
<1>1. /\ a.windows \in Seq(Window) /\ a.planned \in Int
      /\ a.start \in Int /\ a.end \in Int /\ a.next \in Int
  BY DEF IntAllocation
<1>2. st \in Int /\ en \in Int /\ nx \in Int /\ pl \in Int
  BY <1>1, WireNumber
<1>3. ws \in Seq(Window) /\ Len(ws) = Len(a.windows) /\ \A k \in 1..Len(ws) : ws[k].start < Half
  <2>1. Len(a.windows) \in Nat /\ \A k \in 1..Len(a.windows) : a.windows[k] \in Window
    BY <1>1
  <2>2. \A k \in 1..Len(a.windows) : ws[k] \in Window /\ ws[k].start < Half
    BY <2>1, WireWindow
  <2>3. ws \in [1..Len(a.windows) -> Window]
    BY <2>2
  <2>4. ws \in Seq(Window) /\ Len(ws) = Len(a.windows)
    BY <2>1, <2>3
  <2> QED
    BY <2>2, <2>4
<1>4. Schedule!allocationToProto(a) = b
  BY DEF Schedule!allocationToProto
<1> HIDE DEF ws, st, en, nx, pl
<1>5. b \in IntAllocation /\ b.windows = ws
  BY <1>2, <1>3 DEF IntAllocation
<1> HIDE DEF b
<1> QED
  BY <1>3, <1>4, <1>5

\* So does a waybill, of as many allocations.
LEMMA WireWaybill ==
  ASSUME NEW w \in Seq(IntAllocation)
  PROVE  /\ Schedule!waybillToProto(w) \in Seq(IntAllocation)
         /\ Len(Schedule!waybillToProto(w)) = Len(w)
         /\ \A j \in 1..Len(w) : \A k \in 1..Len(Schedule!waybillToProto(w)[j].windows) :
               Schedule!waybillToProto(w)[j].windows[k].start < Half
<1> DEFINE v == [j \in 1..Len(w) |-> Schedule!allocationToProto(w[j])]
<1>1. Schedule!waybillToProto(w) = v
  BY DEF Schedule!waybillToProto
<1>2. Len(w) \in Nat /\ \A j \in 1..Len(w) : w[j] \in IntAllocation
  OBVIOUS
<1>3. \A j \in 1..Len(w) :
         /\ v[j] \in IntAllocation
         /\ \A k \in 1..Len(v[j].windows) : v[j].windows[k].start < Half
  <2> TAKE j \in 1..Len(w)
  <2>1. v[j] = Schedule!allocationToProto(w[j])
    OBVIOUS
  <2> HIDE DEF v
  <2> QED
    BY <1>2, <2>1, WireAllocation
<1>4. v \in [1..Len(w) -> IntAllocation]
  BY <1>3
<1>5. v \in Seq(IntAllocation) /\ Len(v) = Len(w)
  BY <1>2, <1>4
<1> HIDE DEF v
<1> QED
  BY <1>1, <1>3, <1>5

\* A waybill that the wire can hold has windows that begin before infinity.
LEMMA FitsWide ==
  ASSUME NEW w \in Seq(Allocation), Schedule!Fits(w)
  PROVE  w \in Wide
<1>1. Allocation \subseteq IntAllocation
  BY DEF Allocation, IntAllocation
<1>2. w \in Seq(IntAllocation)
  BY <1>1
<1>3. \A j \in 1..Len(w) : \A k \in 1..Len(w[j].windows) : w[j].windows[k].start < Half
  <2> DEFINE v == Schedule!waybillToProto(w)
  <2>1. v = w
    BY DEF Schedule!Fits
  <2>2. \A j \in 1..Len(w) : \A k \in 1..Len(v[j].windows) : v[j].windows[k].start < Half
    BY <1>2, WireWaybill
  <2> HIDE DEF v
  <2> QED
    BY <2>1, <2>2
<1>4. \A j \in 1..Len(w) : \A k \in 1..Len(w[j].windows) : w[j].windows[k].start \in Int
  <2> TAKE j \in 1..Len(w)
  <2> TAKE k \in 1..Len(w[j].windows)
  <2>1. w[j] \in Allocation
    OBVIOUS
  <2>3. w[j].windows \in Seq(Window)
    BY <2>1 DEF Allocation
  <2>2. w[j].windows[k] \in Window
    BY <2>3
  <2> QED
    BY <2>2 DEF Window
<1>5. Half \in Int /\ InfiniteInterval \in Int /\ Half <= InfiniteInterval
  BY TimesAssumption, WireAssumption DEF Schedule!WireAssumption
<1>6. \A j \in 1..Len(w) : \A k \in 1..Len(w[j].windows) :
         w[j].windows[k].start <= InfiniteInterval
  BY <1>3, <1>4, <1>5
<1> QED
  BY <1>6 DEF Wide

\* A route is a number, even if a negative one.
LEMMA RouteNumber == Schedule!RoutesReceived \subseteq Int
<1>1. InfiniteInterval \in Int /\ Durations \ {InfiniteInterval} \subseteq Int
  BY TimesAssumption
<1> QED
  BY <1>1, WireNumber DEF Schedule!RoutesReceived

\* What the loop keeps whatever the router answers.
CallTypes ==
    /\ waybill_read \in Seq(IntAllocation)
    /\ place \in 1..(Len(waybill_read) + 1)
    /\ time \in Int /\ budget \in Int

\* No route so far takes negative time.
Forward == \A j \in 1..(place - 1) : waybill_read[j].next >= 0

\* What the algorithms do to an allocation, with any numbers.
LEMMA NearestInt ==
  ASSUME NEW a \in IntAllocation
  PROVE  Schedule!Engine!getNearestNextTimeWindow(a) \in Window
<1>1. a.windows \in Seq(Window)
  BY DEF IntAllocation
<1>2. a.windows # <<>> => a.windows[1] \in Window
  BY <1>1
<1>3. [start |-> 0, end |-> Forever] \in Window
  BY TimesAssumption DEF Window
<1> QED
  BY <1>2, <1>3 DEF Schedule!Engine!getNearestNextTimeWindow

\* Start, end and route of an allocation are numbers.
LEMMA AllocatedInt ==
  ASSUME NEW a \in IntAllocation, NEW now \in Int, NEW next \in Int
  PROVE  /\ Schedule!Engine!Allocated(a, now, next) \in IntAllocation
         /\ Schedule!Engine!Allocated(a, now, next).windows = a.windows
         /\ Schedule!Engine!Allocated(a, now, next).planned = a.planned
         /\ Schedule!Engine!Allocated(a, now, next).next = next
<1> DEFINE st == Schedule!Engine!max(now, Schedule!Engine!getNearestNextTimeWindow(a).start)
<1>1. st \in Int
  BY NearestInt DEF Schedule!Engine!max, Window
<1>2. st + a.planned \in Int
  BY <1>1 DEF IntAllocation
<1>3. Schedule!Engine!Allocated(a, now, next)
         = [a EXCEPT !.start = st, !.end = st + a.planned, !.next = next]
  BY DEF Schedule!Engine!Allocated
<1> HIDE DEF st
<1> QED
  BY <1>1, <1>2, <1>3 DEF IntAllocation

\* A shift changes nothing but start and end.
LEMMA ShiftedInt ==
  ASSUME NEW a \in IntAllocation, NEW shift \in Int
  PROVE  /\ Schedule!Engine!shiftStartTime(a, shift) \in IntAllocation
         /\ Schedule!Engine!shiftStartTime(a, shift).windows = a.windows
         /\ Schedule!Engine!shiftStartTime(a, shift).planned = a.planned
         /\ Schedule!Engine!shiftStartTime(a, shift).next = a.next
<1> DEFINE st == a.start + shift
           en == a.end + shift
<1>1. st \in Int /\ en \in Int
  BY DEF IntAllocation
<1>2. Schedule!Engine!shiftStartTime(a, shift) = [a EXCEPT !.start = st, !.end = en]
  BY DEF Schedule!Engine!shiftStartTime
<1> HIDE DEF st, en
<1> QED
  BY <1>1, <1>2 DEF IntAllocation

\* What is left of the waybill as it came, while an allocation is scheduled.
SameOrder ==
    /\ place \in 1..Len(waybill_read) /\ place' = place + 1
    /\ Len(waybill_read') = Len(waybill_read)
    /\ \A j \in 1..Len(waybill_read) :
          /\ waybill_read'[j].windows = waybill_read[j].windows
          /\ waybill_read'[j].planned = waybill_read[j].planned
          /\ j < place => waybill_read'[j].next = waybill_read[j].next
    /\ UNCHANGED <<algorithm_made, shift_read>>

\* A route that the server's router may answer with.
LEMMA RouteInt ==
  ASSUME NEW next \in Schedule!Engine!NextRoute(waybill_read)
  PROVE  next \in Int
<1>1. Schedule!Engine!NextRoute(waybill_read) \subseteq Int
  BY RouteNumber DEF Schedule!Engine!NextRoute
<1> QED
  BY <1>1

\* LinearWaybillSchedulingAlgorithm schedules one allocation.
LEMMA LinearSchedules ==
  ASSUME CallTypes, Schedule!Engine!Linear
  PROVE  /\ CallTypes' /\ SameOrder
         /\ waybill_read'[place].next >= 0 => Drive!Linear
<1>1. PICK next \in Schedule!Engine!NextRoute(waybill_read) :
        /\ waybill_read' = [waybill_read EXCEPT ![place] =
                                Schedule!Engine!Allocated(waybill_read[place], time, next)]
        /\ time' = Schedule!Engine!Allocated(waybill_read[place], time, next).end + next
  BY DEF Schedule!Engine!Linear
<1> DEFINE a == Schedule!Engine!Allocated(waybill_read[place], time, next)
<1>2. next \in Int
  BY RouteInt
<1>3. place \in 1..Len(waybill_read) /\ place' = place + 1 /\ Len(waybill_read) \in Nat
  BY DEF Schedule!Engine!Linear, Schedule!Engine!InLoop, CallTypes
<1>4. waybill_read[place] \in IntAllocation /\ time \in Int
  BY <1>3 DEF CallTypes
<1>5. /\ a \in IntAllocation
      /\ a.windows = waybill_read[place].windows
      /\ a.planned = waybill_read[place].planned
      /\ a.next = next
  BY <1>2, <1>4, AllocatedInt
<1> HIDE DEF a
<1>6. waybill_read' = [waybill_read EXCEPT ![place] = a] /\ time' = a.end + next
  BY <1>1 DEF a
<1>7. /\ waybill_read' \in Seq(IntAllocation) /\ Len(waybill_read') = Len(waybill_read)
      /\ waybill_read'[place] = a
      /\ \A j \in 1..Len(waybill_read) : j # place => waybill_read'[j] = waybill_read[j]
  BY <1>3, <1>5, <1>6 DEF CallTypes
<1>8. time' \in Int
  BY <1>2, <1>5, <1>6 DEF IntAllocation
<1>9. CallTypes'
  BY <1>3, <1>7, <1>8 DEF CallTypes, Schedule!Engine!Linear
<1>10. SameOrder
  BY <1>3, <1>5, <1>7 DEF SameOrder, Schedule!Engine!Linear
<1>11. ASSUME waybill_read'[place].next >= 0
       PROVE  Drive!Linear
  <2>1. next \in Drive!NextRoute(waybill_read)
    BY <1>2, <1>5, <1>7, <1>11 DEF Schedule!Engine!NextRoute, Drive!NextRoute
  <2>2. a = Drive!Allocated(waybill_read[place], time, next)
    BY DEF a, Schedule!Engine!Allocated, Drive!Allocated, Schedule!Engine!max, Drive!max,
       Schedule!Engine!getNearestNextTimeWindow, Drive!getNearestNextTimeWindow
  <2> QED
    BY <1>6, <2>1, <2>2 DEF Schedule!Engine!Linear, Drive!Linear,
       Schedule!Engine!InLoop, Drive!InLoop
<1> QED
  BY <1>9, <1>10, <1>11

\* BilinearWaybillSchedulingAlgorithm schedules one, and shifts those before.
LEMMA BilinearSchedules ==
  ASSUME CallTypes, Schedule!Engine!Bilinear
  PROVE  /\ CallTypes' /\ SameOrder
         /\ waybill_read'[place].next >= 0 => Drive!Bilinear
<1> DEFINE tw == Schedule!Engine!getNearestNextTimeWindow(waybill_read[place])
           shift == Schedule!Engine!Shift(tw.start - time, budget)
<1>1. PICK next \in Schedule!Engine!NextRoute(waybill_read) :
        LET a == Schedule!Engine!Allocated(waybill_read[place], time + shift, next) IN
        /\ waybill_read' = [j \in 1..Len(waybill_read) |->
                              CASE j = place -> a
                                [] j < place ->
                                     Schedule!Engine!shiftStartTime(waybill_read[j], shift)
                                [] OTHER -> waybill_read[j]]
        /\ time' = a.end + next
        /\ budget' = Schedule!Engine!min(budget - shift, tw.end - a.end)
  BY DEF Schedule!Engine!Bilinear
<1> DEFINE a == Schedule!Engine!Allocated(waybill_read[place], time + shift, next)
<1>2. next \in Int
  BY RouteInt
<1>3. place \in 1..Len(waybill_read) /\ place' = place + 1 /\ Len(waybill_read) \in Nat
  BY DEF Schedule!Engine!Bilinear, Schedule!Engine!InLoop, CallTypes
<1>4. waybill_read[place] \in IntAllocation /\ time \in Int /\ budget \in Int
  BY <1>3 DEF CallTypes
<1>5. tw.start \in Int /\ tw.end \in Int
  BY <1>4, NearestInt DEF Window
<1> HIDE DEF tw
<1>6. shift \in Int
  BY <1>4, <1>5 DEF Schedule!Engine!Shift, Schedule!Engine!max, Schedule!Engine!min
<1> HIDE DEF shift
<1>7. /\ a \in IntAllocation
      /\ a.windows = waybill_read[place].windows
      /\ a.planned = waybill_read[place].planned
      /\ a.next = next
  <2>1. time + shift \in Int
    BY <1>4, <1>6
  <2> QED
    BY <1>2, <1>4, <2>1, AllocatedInt
<1> HIDE DEF a
<1>8. /\ waybill_read' = [j \in 1..Len(waybill_read) |->
                            CASE j = place -> a
                              [] j < place ->
                                   Schedule!Engine!shiftStartTime(waybill_read[j], shift)
                              [] OTHER -> waybill_read[j]]
      /\ time' = a.end + next
      /\ budget' = Schedule!Engine!min(budget - shift, tw.end - a.end)
  BY <1>1 DEF a
<1>9. \A j \in 1..Len(waybill_read) : waybill_read[j] \in IntAllocation
  BY DEF CallTypes
<1>10. waybill_read'[place] = a
  BY <1>3, <1>8
<1>11. ASSUME NEW j \in 1..Len(waybill_read), j < place
       PROVE  waybill_read'[j] = Schedule!Engine!shiftStartTime(waybill_read[j], shift)
  <2>1. j # place
    BY <1>3, <1>11
  <2> QED
    BY <1>8, <1>11, <2>1
<1>12. ASSUME NEW j \in 1..Len(waybill_read), j > place
       PROVE  waybill_read'[j] = waybill_read[j]
  <2>1. j # place /\ ~ (j < place)
    BY <1>3, <1>12
  <2> QED
    BY <1>8, <2>1
<1>13. ASSUME NEW j \in 1..Len(waybill_read)
       PROVE  /\ waybill_read'[j] \in IntAllocation
              /\ waybill_read'[j].windows = waybill_read[j].windows
              /\ waybill_read'[j].planned = waybill_read[j].planned
              /\ j < place => waybill_read'[j].next = waybill_read[j].next
  <2>1. CASE j = place
    BY <1>3, <1>7, <1>10, <2>1
  <2>2. CASE j < place
    <3>1. waybill_read'[j] = Schedule!Engine!shiftStartTime(waybill_read[j], shift)
      BY <1>11, <2>2
    <3> QED
      BY <1>6, <1>9, <3>1, ShiftedInt
  <2>3. CASE j > place
    BY <1>3, <1>9, <1>12, <2>3
  <2> QED
    BY <1>3, <2>1, <2>2, <2>3
<1>14. waybill_read' \in Seq(IntAllocation) /\ Len(waybill_read') = Len(waybill_read)
  <2>1. waybill_read' \in [1..Len(waybill_read) -> IntAllocation]
    BY <1>8, <1>13
  <2> QED
    BY <1>3, <2>1
<1>15. time' \in Int /\ budget' \in Int
  <2>1. a.end \in Int
    BY <1>7 DEF IntAllocation
  <2>2. budget - shift \in Int /\ tw.end - a.end \in Int /\ a.end + next \in Int
    BY <1>2, <1>4, <1>5, <1>6, <2>1
  <2> QED
    BY <1>8, <2>2 DEF Schedule!Engine!min
<1>16. CallTypes'
  BY <1>3, <1>14, <1>15 DEF CallTypes
<1>17. SameOrder
  BY <1>3, <1>13, <1>14 DEF SameOrder, Schedule!Engine!Bilinear
<1>18. ASSUME waybill_read'[place].next >= 0
       PROVE  Drive!Bilinear
  <2>1. next \in Drive!NextRoute(waybill_read)
    BY <1>2, <1>7, <1>10, <1>18 DEF Schedule!Engine!NextRoute, Drive!NextRoute
  <2>2. tw = Drive!getNearestNextTimeWindow(waybill_read[place])
    BY DEF tw, Schedule!Engine!getNearestNextTimeWindow, Drive!getNearestNextTimeWindow
  <2>3. shift = Drive!Shift(tw.start - time, budget)
    BY DEF shift, Schedule!Engine!Shift, Drive!Shift, Schedule!Engine!max, Drive!max,
       Schedule!Engine!min, Drive!min
  <2>4. a = Drive!Allocated(waybill_read[place], time + shift, next)
    BY DEF a, Schedule!Engine!Allocated, Drive!Allocated, Schedule!Engine!max, Drive!max,
       Schedule!Engine!getNearestNextTimeWindow, Drive!getNearestNextTimeWindow
  <2>5. \A b, s : Schedule!Engine!shiftStartTime(b, s) = Drive!shiftStartTime(b, s)
    BY DEF Schedule!Engine!shiftStartTime, Drive!shiftStartTime
  <2>6. waybill_read' = [j \in 1..Len(waybill_read) |->
                           CASE j = place -> a
                             [] j < place -> Drive!shiftStartTime(waybill_read[j], shift)
                             [] OTHER -> waybill_read[j]]
    BY <1>8, <2>5
  <2>7. budget' = Drive!min(budget - shift, tw.end - a.end)
    BY <1>8 DEF Schedule!Engine!min, Drive!min
  <2>8. \E n \in Drive!NextRoute(waybill_read) :
          LET w == Drive!getNearestNextTimeWindow(waybill_read[place])
              s == Drive!Shift(w.start - time, budget)
              b == Drive!Allocated(waybill_read[place], time + s, n)
          IN /\ waybill_read' = [j \in 1..Len(waybill_read) |->
                                   CASE j = place -> b
                                     [] j < place -> Drive!shiftStartTime(waybill_read[j], s)
                                     [] OTHER -> waybill_read[j]]
             /\ time' = b.end + n
             /\ budget' = Drive!min(budget - s, w.end - b.end)
    <3>1. time' = a.end + next
      BY <1>8
    <3> QED
      BY <2>1, <2>2, <2>3, <2>4, <2>6, <2>7, <3>1
  <2>9. /\ algorithm_made = "BILINEAR" /\ Drive!InLoop(waybill_read)
        /\ place' = place + 1 /\ UNCHANGED <<algorithm_made, shift_read>>
    BY DEF Schedule!Engine!Bilinear, Schedule!Engine!InLoop, Drive!InLoop
  <2> QED
    BY <2>8, <2>9 DEF Drive!Bilinear
<1> QED
  BY <1>16, <1>17, <1>18

\* Between the call and the answer: what the client sent is what was scheduled, by
\* the algorithm it asked for, and as the proofs about the algorithms say as long as
\* the wire holds the waybill and no route takes negative time.
Driven ==
    /\ Drive!IInv
    /\ Len(waybill_read) = Len(sent)
    /\ \A j \in 1..Len(sent) :
          /\ waybill_read[j].windows = sent[j].windows
          /\ waybill_read[j].planned = sent[j].planned

CallInv ==
    /\ shift_read \in Starts
    /\ call = "calling" => mine \in Seq(Allocation) /\ handler = "idle"
    /\ call # "calling" =>
          sent \in Seq(Allocation) /\ request = Schedule!waybillToProto(sent)
    /\ handler \in {"scheduling", "ok"} =>
          /\ asked \in {"AUTO", "LINEAR", "BILINEAR"}
          /\ algorithm_made = IF asked = "AUTO" THEN "BILINEAR" ELSE asked
          /\ CallTypes
          /\ Schedule!Fits(sent) /\ Forward => Driven
    /\ handler = "ok" => ~ Schedule!Engine!InLoop(waybill_read)
    /\ call = "returned" =>
          handler = "ok" /\ mine = Schedule!waybillToProto(waybill_read)

\* The waybills of the instance are waybills, with nothing scheduled yet.
LEMMA SentWaybills == MCSentWaybills \subseteq Seq(Allocation)
<1> DEFINE a == {A(<<>>, 1), A(<<W(0, 6)>>, 2), A(<<W(5, 9)>>, 0), A(<<W(0, Forever)>>, 1)}
<1>1. W(0, 6) \in Window /\ W(5, 9) \in Window /\ W(0, Forever) \in Window
  BY TimesAssumption DEF W, Window
<1>2. /\ <<W(0, 6)>> \in Seq(Window) /\ <<W(5, 9)>> \in Seq(Window)
      /\ <<W(0, Forever)>> \in Seq(Window) /\ <<>> \in Seq(Window)
  BY <1>1
<1>3. \A ws \in Seq(Window), p \in Nat : A(ws, p) \in Allocation
  BY DEF A, Allocation
<1>4. a \subseteq Allocation
  BY <1>2, <1>3
<1>5. MCSentWaybills = [1..3 -> a] \union {<<>>}
  BY DEF MCSentWaybills
<1> HIDE DEF a
<1>6. ASSUME NEW n \in Nat, NEW w \in [1..n -> a]
      PROVE  w \in Seq(Allocation)
  <2>1. w \in [1..n -> Allocation]
    BY <1>4
  <2> QED
    BY <2>1
<1>7. <<>> \in Seq(Allocation)
  OBVIOUS
<1>8. 3 \in Nat
  OBVIOUS
<1> QED
  BY <1>5, <1>6, <1>7, <1>8

\* Before the call nothing is scheduled.
LEMMA CallBegins ==
  ASSUME Schedule!Init
  PROVE  CallInv
BY SentWaybills, TimesAssumption DEF Schedule!Init, CallInv

\* The server begins with the waybill that was sent, which begins as the proofs about
\* the algorithms say when the wire can hold it.
LEMMA CreateKeeps ==
  ASSUME CallInv, Schedule!createWaybillScheduler
  PROVE  CallInv'
<1>1. /\ call # "calling" /\ handler = "idle"
      /\ asked \in {"AUTO", "LINEAR", "BILINEAR"}
      /\ handler' = "scheduling"
      /\ algorithm_made' = IF asked = "AUTO" THEN "BILINEAR" ELSE asked
      /\ waybill_read' = request /\ place' = 1 /\ time' = shift_read
      /\ budget' = InfiniteInterval
      /\ UNCHANGED <<call, mine, sent, asked, request, shift_read>>
  BY DEF Schedule!createWaybillScheduler, Schedule!AlgorithmTypes
<1>2. /\ sent \in Seq(Allocation) /\ request = Schedule!waybillToProto(sent)
      /\ shift_read \in Starts
  BY <1>1 DEF CallInv
<1>3. request \in Seq(IntAllocation) /\ Len(request) \in Nat
  <2>1. sent \in Seq(IntAllocation)
    <3>1. Allocation \subseteq IntAllocation
      BY DEF Allocation, IntAllocation
    <3> QED
      BY <1>2, <3>1
  <2> QED
    BY <1>2, <2>1, WireWaybill
<1>4. CallTypes'
  BY <1>1, <1>2, <1>3, TimesAssumption DEF CallTypes
<1>5. ASSUME Schedule!Fits(sent)
      PROVE  Driven'
  <2>1. request = sent /\ sent \in Wide
    BY <1>2, <1>5, FitsWide DEF Schedule!Fits
  <2>2. Drive!IInv'
    <3>1. Drive!Init'
      BY <1>1, <1>2, <2>1 DEF Drive!Init
    <3> QED
      BY <3>1, DriveBegins, PTL
  <2> QED
    BY <1>1, <2>1, <2>2 DEF Driven
<1> QED
  BY <1>1, <1>2, <1>4, <1>5 DEF CallInv, Schedule!Fits, Schedule!waybillToProto

\* An allocation is scheduled.
LEMMA ScheduleKeeps ==
  ASSUME CallInv, Schedule!Schedule
  PROVE  CallInv'
<1>1. /\ handler = "scheduling" /\ Schedule!Engine!Next
      /\ UNCHANGED <<call, mine, sent, asked, request, handler>>
  BY DEF Schedule!Schedule
<1>2. CallTypes /\ (Schedule!Fits(sent) /\ Forward => Driven)
  BY <1>1 DEF CallInv
<1>3. /\ CallTypes' /\ SameOrder
      /\ waybill_read'[place].next >= 0 => Drive!Next
  BY <1>1, <1>2, LinearSchedules, BilinearSchedules DEF Schedule!Engine!Next, Drive!Next
<1>4. ASSUME Schedule!Fits(sent), Forward'
      PROVE  Driven'
  <2>1. /\ place \in 1..Len(waybill_read) /\ Len(waybill_read) \in Nat
        /\ place' - 1 = place
    BY <1>3 DEF SameOrder, CallTypes
  <2>2. \A j \in 1..place : waybill_read'[j].next >= 0
    BY <1>4, <2>1 DEF Forward
  <2>3. Forward
    <3> SUFFICES ASSUME NEW j \in 1..(place - 1) PROVE waybill_read[j].next >= 0
      BY DEF Forward
    <3>1. j \in 1..place /\ j \in 1..Len(waybill_read) /\ j < place
      BY <2>1
    <3>2. waybill_read'[j].next = waybill_read[j].next
      BY <1>3, <3>1 DEF SameOrder
    <3> QED
      BY <2>2, <3>1, <3>2
  <2>4. Drive!Next
    <3>1. place \in 1..place
      BY <2>1
    <3> QED
      BY <1>3, <2>2, <3>1
  <2>5. Driven
    BY <1>2, <1>4, <2>3
  <2>6. Drive!IInv'
    BY <2>4, <2>5, DriveGoes DEF Driven
  <2> QED
    BY <1>1, <1>3, <2>5, <2>6 DEF Driven, SameOrder
<1>5. /\ algorithm_made' = algorithm_made /\ shift_read' = shift_read
      /\ handler' = "scheduling"
  BY <1>1, <1>3 DEF SameOrder
<1>6. Schedule!Fits(sent') = Schedule!Fits(sent)
  BY <1>1
<1>7. /\ call # "calling" /\ call # "returned"
      /\ sent \in Seq(Allocation) /\ request = Schedule!waybillToProto(sent)
      /\ asked \in {"AUTO", "LINEAR", "BILINEAR"} /\ shift_read \in Starts
      /\ algorithm_made = IF asked = "AUTO" THEN "BILINEAR" ELSE asked
  BY <1>1 DEF CallInv
<1> QED
  BY <1>1, <1>3, <1>4, <1>5, <1>6, <1>7 DEF CallInv

\* The other steps leave what is scheduled alone.
LEMMA CallKept ==
  ASSUME CallInv, [ServicesNext]_servicesVars
  PROVE  CallInv'
<1>1. Schedule!Next \/ UNCHANGED scheduleVars
  BY DEF ServicesNext, servicesVars
<1>2. ASSUME UNCHANGED <<algorithm_made, waybill_read, shift_read, place, time, budget>>,
             UNCHANGED <<sent, asked, request>>
      PROVE  /\ CallTypes => CallTypes'
             /\ (Schedule!Fits(sent) /\ Forward => Driven)
                    => (Schedule!Fits(sent) /\ Forward => Driven)'
             /\ Schedule!waybillToProto(sent)' = Schedule!waybillToProto(sent)
             /\ Schedule!waybillToProto(waybill_read)' = Schedule!waybillToProto(waybill_read)
  <2>1. CallTypes => CallTypes'
    BY <1>2 DEF CallTypes
  <2>2. Forward' => Forward
    BY <1>2 DEF Forward
  <2>3. Schedule!Fits(sent)' => Schedule!Fits(sent)
    BY <1>2
  <2>4. Drive!IInv => Drive!IInv'
    BY <1>2, DriveGoes DEF Drive!vars
  <2>5. Driven => Driven'
    BY <1>2, <2>4 DEF Driven
  <2> QED
    BY <1>2, <2>1, <2>2, <2>3, <2>5
<1>3. CASE UNCHANGED scheduleVars
  <2>1. Schedule!Engine!InLoop(waybill_read)' = Schedule!Engine!InLoop(waybill_read)
    BY <1>3 DEF scheduleVars, Schedule!Engine!InLoop
  <2> QED
    BY <1>2, <1>3, <2>1 DEF scheduleVars, CallInv
<1>4. CASE Schedule!scheduleWaybill
  BY <1>4 DEF Schedule!scheduleWaybill, Schedule!server, CallInv
<1>5. CASE Schedule!HandlerThrows
  BY <1>2, <1>5 DEF Schedule!HandlerThrows, Schedule!server, CallInv
<1>6. CASE Schedule!HandlerReturns
  <2>1. ~ Schedule!Engine!InLoop(waybill_read)'
    BY <1>6 DEF Schedule!HandlerReturns, Schedule!server, Schedule!Engine!InLoop
  <2> QED
    BY <1>2, <1>6, <2>1 DEF Schedule!HandlerReturns, Schedule!server, CallInv
<1>7. CASE Schedule!Return
  <2>1. Schedule!Engine!InLoop(waybill_read)' = Schedule!Engine!InLoop(waybill_read)
    BY <1>7 DEF Schedule!Return, Schedule!server, Schedule!Engine!InLoop
  <2> QED
    BY <1>2, <1>7, <2>1 DEF Schedule!Return, Schedule!server, CallInv
<1>8. CASE Schedule!Throw
  <2>1. Schedule!Engine!InLoop(waybill_read)' = Schedule!Engine!InLoop(waybill_read)
    BY <1>8 DEF Schedule!Throw, Schedule!server, Schedule!Engine!InLoop
  <2> QED
    BY <1>2, <1>8, <2>1 DEF Schedule!Throw, Schedule!server, CallInv
<1> QED
  BY <1>1, <1>3, <1>4, <1>5, <1>6, <1>7, <1>8, CreateKeeps, ScheduleKeeps
     DEF Schedule!Next

\* What a client gets back is what it sent, scheduled: whatever the algorithm, the
\* windows and the routes are, as long as the wire holds the waybill before and after
\* and no route takes negative time.
THEOREM ScheduledAsSent == ServicesSpec => []ComesBackScheduled
<1>1. ServicesInit => CallInv
  <2>1. ServicesInit => Schedule!Init
    BY DEF ServicesInit, NoCall
  <2> QED
    BY <2>1, CallBegins
<1>2. CallInv /\ [ServicesNext]_servicesVars => CallInv'
  BY CallKept
<1>3. CallInv => ComesBackScheduled
  <2> SUFFICES ASSUME CallInv, call = "returned", Schedule!Fits(sent),
                      Schedule!Fits(waybill_read),
                      \A j \in 1..Len(waybill_read) : waybill_read[j].next >= 0
               PROVE  /\ Len(mine) = Len(sent)
                      /\ \A j \in 1..Len(mine) :
                           LET tw == Schedule!Engine!getNearestNextTimeWindow(mine[j]) IN
                           /\ mine[j].windows = sent[j].windows
                           /\ mine[j].planned = sent[j].planned
                           /\ mine[j].end = mine[j].start + mine[j].planned
                           /\ mine[j].start >= Schedule!Engine!max(shift_read, tw.start)
                           /\ j > 1 => mine[j].start >= mine[j - 1].end + mine[j - 1].next
                           /\ asked # "LINEAR" /\ j > 1
                                /\ mine[j].start > mine[j - 1].end + mine[j - 1].next =>
                                   \E k \in 1..(j - 1) :
                                       mine[k].end >=
                                         Schedule!Engine!getNearestNextTimeWindow(mine[k]).end
    BY DEF ComesBackScheduled, Schedule!ComesBackScheduled
  <2>1. /\ handler = "ok" /\ mine = Schedule!waybillToProto(waybill_read)
        /\ CallTypes /\ ~ Schedule!Engine!InLoop(waybill_read)
        /\ Schedule!Fits(sent) /\ Forward => Driven
        /\ asked # "LINEAR" => algorithm_made = "BILINEAR"
    BY DEF CallInv
  <2>2. mine = waybill_read
    BY <2>1 DEF Schedule!Fits
  <2>3. place = Len(waybill_read) + 1 /\ Len(waybill_read) \in Nat
    BY <2>1 DEF CallTypes, Schedule!Engine!InLoop
  <2>4. Drive!Scheduled = 1..Len(mine)
    BY <2>2, <2>3 DEF Drive!Scheduled
  <2>5. Driven
    <3>1. Forward
      BY <2>3 DEF Forward
    <3> QED
      BY <2>1, <3>1
  <2>6. \A a : Schedule!Engine!getNearestNextTimeWindow(a)
                   = Drive!getNearestNextTimeWindow(a)
    BY DEF Schedule!Engine!getNearestNextTimeWindow, Drive!getNearestNextTimeWindow
  <2>7. Drive!Feasible /\ Drive!WaitsOnlyWithoutSlack
    BY <2>5 DEF Driven, Drive!IInv
  <2> SUFFICES ASSUME NEW j \in 1..Len(mine)
               PROVE  LET tw == Schedule!Engine!getNearestNextTimeWindow(mine[j]) IN
                      /\ mine[j].windows = sent[j].windows
                      /\ mine[j].planned = sent[j].planned
                      /\ mine[j].end = mine[j].start + mine[j].planned
                      /\ mine[j].start >= Schedule!Engine!max(shift_read, tw.start)
                      /\ j > 1 => mine[j].start >= mine[j - 1].end + mine[j - 1].next
                      /\ asked # "LINEAR" /\ j > 1
                           /\ mine[j].start > mine[j - 1].end + mine[j - 1].next =>
                              \E k \in 1..(j - 1) :
                                  mine[k].end >=
                                    Schedule!Engine!getNearestNextTimeWindow(mine[k]).end
    BY <2>2, <2>5 DEF Driven
  <2>8. mine[j].windows = sent[j].windows /\ mine[j].planned = sent[j].planned
    BY <2>2, <2>5 DEF Driven
  <2>9. /\ mine[j].end = mine[j].start + mine[j].planned
        /\ mine[j].start >= Drive!getNearestNextTimeWindow(mine[j]).start
        /\ mine[j].start >= shift_read
        /\ j > 1 => mine[j].start >= mine[j - 1].end + mine[j - 1].next
    BY <2>2, <2>4, <2>7 DEF Drive!Feasible
  <2>10. ASSUME asked # "LINEAR", j > 1, mine[j].start > mine[j - 1].end + mine[j - 1].next
         PROVE  \E k \in 1..(j - 1) :
                    mine[k].end >= Drive!getNearestNextTimeWindow(mine[k]).end
    <3>1. j \in Drive!Scheduled \ {1} /\ algorithm_made = "BILINEAR"
      BY <2>1, <2>4, <2>10
    <3> QED
      BY <2>2, <2>7, <2>10, <3>1 DEF Drive!WaitsOnlyWithoutSlack
  <2> QED
    BY <2>6, <2>8, <2>9, <2>10 DEF Schedule!Engine!max
<1> QED
  BY <1>1, <1>2, <1>3, PTL DEF ServicesSpec

=============================================================================
