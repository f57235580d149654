--------------------------- MODULE MCRouter_proofs ---------------------------
(***************************************************************************)
(* Safety of the ways of a route that MCRouter puts together, for every    *)
(* value of the constants: the cache in Redis, with any number of engines, *)
(* and the call of the router, for lists of any length.                    *)
(* The steps of a recursion are gone through by the least counterexample.  *)
(*                                                                         *)
(* The parts share no state, so each has an invariant of its own, kept by  *)
(* its own steps, and by the others', which leave its variables alone.     *)
(***************************************************************************)
EXTENDS MCRouter, TLAPS, WellFoundedInduction

\* A step of the router is a step of one part; the others rest.
LEMMA PartSteps ==
  ASSUME [RouterNext]_routerVars
  PROVE  /\ Cache!Next \/ UNCHANGED cacheVars
         /\ Batch!Next \/ UNCHANGED batchVars
BY DEF RouterNext, routerVars

----------------------------------------------------------------------------
(* The cache in Redis (RouteCache).  The variables of MCRouter stand for   *)
(* those of the cache: entries, place, wanted and given for cache, pc,     *)
(* request and reply.                                                      *)

\* What may be in Redis: an answer of the backend, as it is printed, by its key.
Entries == {<<Cache!Key(a), Cache!serialized(a)>> : a \in answered}

\* The types, where pending is of puts of entries, and the stages of a call.
CacheTypes ==
    /\ place \in [Engines -> {"idle", "get", "backend", "put"}]
    /\ DOMAIN engine = Engines /\ DOMAIN given = Engines /\ DOMAIN wanted = Engines
    /\ pending \in [Engines -> Seq(Entries)]
    /\ DOMAIN missed = Engines

\* Redis holds entries only; what will be put is an answer to the request.
EntriesOnly ==
    /\ \A k \in DOMAIN entries : <<k, entries[k]>> \in Entries
    /\ \A e \in Engines : place[e] = "put" =>
          given[e] \in answered /\ Cache!Key(given[e]) = Cache!Key(wanted[e])

Queued(e, k) == \E n \in 1..Len(pending[e]) : pending[e][n][1] = k

\* A key the backend was asked for is in Redis, or on its way there on the connection
\* that the next get uses; an engine that is gone asks for nothing.
MissedArrive ==
    /\ \A e \in Engines : engine[e] = None => place[e] = "idle"
    /\ \A e \in Engines : engine[e] # None =>
          \A k \in missed[e] :
             \/ k \in DOMAIN entries
             \/ Queued(e, k)
             \/ place[e] = "put" /\ k = Cache!Key(wanted[e])

CacheInv ==
    CacheTypes /\ EntriesOnly /\ MissedArrive /\ RoutesOfTheBackend /\ OnlyMissingAsked

\* An entry is kept when the backend answers more.
LEMMA EntriesGrow ==
  ASSUME answered \subseteq answered'
  PROVE  Entries \subseteq Entries' /\ Seq(Entries) \subseteq Seq(Entries')
<1>1. Entries \subseteq Entries'
  BY DEF Entries
<1> QED
  BY <1>1

\* The answer of the backend is for what was asked.
LEMMA BackendAnswers ==
  ASSUME NEW q
  PROVE  Cache!Key(Cache!Backend(q)) = Cache!Key(q)
BY DEF Cache!Key, Cache!Backend, Cache!Zero

\* An engine comes and goes with nothing of another's.
LEMMA EngineKeeps ==
  ASSUME CacheInv, NEW e \in Engines, Cache!CreateEngine(e) \/ Cache!DestroyEngine(e)
  PROVE  CacheInv'
<1> USE DEF CacheInv
<1>1. UNCHANGED <<answered, entries>> /\ Entries' = Entries
  BY DEF Cache!CreateEngine, Cache!DestroyEngine, Entries, Cache!history
<1>2. CASE Cache!CreateEngine(e)
  <2>1. PICK s, force :
          engine' = [engine EXCEPT ![e] = [settings |-> s, force_update |-> force]]
    BY <1>2 DEF Cache!CreateEngine
  <2>2. /\ missed' = [missed EXCEPT ![e] = {}] /\ place[e] = "idle"
        /\ UNCHANGED <<pending, place, wanted, given>>
    BY <1>2 DEF Cache!CreateEngine, MissedArrive
  <2>3. CacheTypes' /\ EntriesOnly'
    BY <1>1, <2>1, <2>2 DEF CacheTypes, EntriesOnly
  <2>4. MissedArrive'
    BY <1>1, <2>1, <2>2 DEF CacheTypes, MissedArrive, Queued
  <2>5. RoutesOfTheBackend'
    BY <1>1, <2>2 DEF RoutesOfTheBackend, Cache!RoutesOfTheBackend
  <2>6. OnlyMissingAsked'
    BY <2>1, <2>2 DEF CacheTypes, OnlyMissingAsked, Cache!OnlyMissingAsked
  <2> QED
    BY <2>3, <2>4, <2>5, <2>6
<1>3. CASE Cache!DestroyEngine(e)
  <2>1. /\ place[e] = "idle"
        /\ engine' = [engine EXCEPT ![e] = None] /\ pending' = [pending EXCEPT ![e] = <<>>]
        /\ wanted' = [wanted EXCEPT ![e] = None] /\ given' = [given EXCEPT ![e] = None]
        /\ UNCHANGED <<place, missed>>
    BY <1>3 DEF Cache!DestroyEngine, Cache!history
  <2>2. CacheTypes' /\ EntriesOnly'
    BY <1>1, <2>1 DEF CacheTypes, EntriesOnly
  <2>3. MissedArrive'
    BY <1>1, <2>1 DEF CacheTypes, MissedArrive, Queued
  <2>4. RoutesOfTheBackend'
    BY <1>1, <2>1 DEF CacheTypes, RoutesOfTheBackend, Cache!RoutesOfTheBackend
  <2>5. OnlyMissingAsked'
    BY <2>1 DEF CacheTypes, OnlyMissingAsked, Cache!OnlyMissingAsked
  <2> QED
    BY <2>2, <2>3, <2>4, <2>5
<1> QED
  BY <1>2, <1>3

\* A call begins, finds an entry, misses, or fails before the backend has answered.
LEMMA CallKeeps ==
  ASSUME CacheInv, NEW e \in Engines,
         \/ Cache!getSingleRouteDetails(e) \/ Cache!Hit(e) \/ Cache!Miss(e)
         \/ Cache!GetFails(e) \/ Cache!BackendThrows(e)
  PROVE  CacheInv'
<1> USE DEF CacheInv
<1>1. UNCHANGED <<answered, entries, engine>> /\ Entries' = Entries
  BY DEF Cache!getSingleRouteDetails, Cache!Hit, Cache!Miss, Cache!GetFails,
     Cache!BackendThrows, Entries, Cache!history
<1>2. CASE Cache!getSingleRouteDetails(e)
  <2>1. PICK q :
          /\ wanted' = [wanted EXCEPT ![e] = q] /\ place[e] = "idle"
          /\ engine[e] # None /\ UNCHANGED <<pending, missed>>
          /\ \/ /\ q.from = q.to /\ place' = [place EXCEPT ![e] = "idle"]
                /\ given' = [given EXCEPT ![e] = Cache!Zero(q)]
             \/ /\ place' = [place EXCEPT ![e] = "get"]
                /\ given' = [given EXCEPT ![e] = None]
    BY <1>2 DEF Cache!getSingleRouteDetails, Cache!Finish, Cache!Goto, Cache!history
  <2>2. CacheTypes' /\ EntriesOnly'
    BY <1>1, <2>1 DEF CacheTypes, EntriesOnly
  <2>3. MissedArrive'
    BY <1>1, <2>1 DEF CacheTypes, MissedArrive, Queued
  <2>4. RoutesOfTheBackend'
    BY <1>1, <2>1 DEF CacheTypes, RoutesOfTheBackend, Cache!RoutesOfTheBackend
  <2>5. OnlyMissingAsked'
    BY <1>1, <2>1 DEF CacheTypes, OnlyMissingAsked, Cache!OnlyMissingAsked
  <2> QED
    BY <2>2, <2>3, <2>4, <2>5
<1>3. CASE Cache!Hit(e)
  <2> DEFINE k == Cache!Key(wanted[e])
  <2>1. /\ place[e] = "get" /\ k \in DOMAIN entries
        /\ place' = [place EXCEPT ![e] = "idle"] /\ given' = [given EXCEPT ![e] = entries[k]]
        /\ UNCHANGED <<pending, wanted, missed>>
    BY <1>3 DEF Cache!Hit, Cache!Finish, Cache!Goto, Cache!history
  <2>2. PICK a \in answered : Cache!Key(a) = k /\ Cache!serialized(a) = entries[k]
    BY <2>1 DEF EntriesOnly, Entries
  <2>3. a.from = wanted[e].from /\ a.to = wanted[e].to /\ a.settings = wanted[e].settings
    BY <2>2 DEF Cache!Key
  <2> HIDE DEF k
  <2>4. CacheTypes' /\ EntriesOnly'
    BY <1>1, <2>1 DEF CacheTypes, EntriesOnly
  <2>5. MissedArrive'
    BY <1>1, <2>1 DEF CacheTypes, MissedArrive, Queued
  <2>6. RoutesOfTheBackend'
    BY <1>1, <2>1, <2>2, <2>3 DEF CacheTypes, RoutesOfTheBackend, Cache!RoutesOfTheBackend
  <2>7. OnlyMissingAsked'
    BY <1>1, <2>1 DEF CacheTypes, OnlyMissingAsked, Cache!OnlyMissingAsked
  <2> QED
    BY <2>4, <2>5, <2>6, <2>7
<1>4. CASE Cache!Miss(e)
  <2>1. /\ place[e] = "get" /\ pending[e] = <<>>
        /\ ~engine[e].force_update => Cache!Key(wanted[e]) \notin DOMAIN entries
        /\ place' = [place EXCEPT ![e] = "backend"]
        /\ UNCHANGED <<pending, wanted, given, missed>>
    BY <1>4 DEF Cache!Miss, Cache!Goto, Cache!history
  <2>2. ~engine[e].force_update => Cache!Key(wanted[e]) \notin missed[e]
    BY <2>1 DEF MissedArrive, Queued
  <2>3. CacheTypes' /\ EntriesOnly'
    BY <1>1, <2>1 DEF CacheTypes, EntriesOnly
  <2>4. MissedArrive'
    BY <1>1, <2>1 DEF CacheTypes, MissedArrive, Queued
  <2>5. RoutesOfTheBackend'
    BY <1>1, <2>1 DEF CacheTypes, RoutesOfTheBackend, Cache!RoutesOfTheBackend
  <2>6. OnlyMissingAsked'
    BY <1>1, <2>1, <2>2 DEF CacheTypes, OnlyMissingAsked, Cache!OnlyMissingAsked
  <2> QED
    BY <2>3, <2>4, <2>5, <2>6
<1>5. CASE Cache!GetFails(e)
  <2>1. /\ place[e] = "get" /\ place' = [place EXCEPT ![e] = "backend"]
        /\ pending' = [pending EXCEPT ![e] = <<>>] /\ missed' = [missed EXCEPT ![e] = {}]
        /\ UNCHANGED <<wanted, given>>
    BY <1>5 DEF Cache!GetFails, Cache!Goto
  <2>2. CacheTypes' /\ EntriesOnly'
    BY <1>1, <2>1 DEF CacheTypes, EntriesOnly
  <2>3. MissedArrive'
    BY <1>1, <2>1 DEF CacheTypes, MissedArrive, Queued
  <2>4. RoutesOfTheBackend'
    BY <1>1, <2>1 DEF CacheTypes, RoutesOfTheBackend, Cache!RoutesOfTheBackend
  <2>5. OnlyMissingAsked'
    BY <1>1, <2>1 DEF CacheTypes, OnlyMissingAsked, Cache!OnlyMissingAsked
  <2> QED
    BY <2>2, <2>3, <2>4, <2>5
<1>6. CASE Cache!BackendThrows(e)
  <2>1. /\ place[e] = "backend" /\ place' = [place EXCEPT ![e] = "idle"]
        /\ given' = [given EXCEPT ![e] = None]
        /\ UNCHANGED <<pending, wanted, missed>>
    BY <1>6 DEF Cache!BackendThrows, Cache!Finish, Cache!Goto, Cache!history
  <2>2. CacheTypes' /\ EntriesOnly'
    BY <1>1, <2>1 DEF CacheTypes, EntriesOnly
  <2>3. MissedArrive'
    BY <1>1, <2>1 DEF CacheTypes, MissedArrive, Queued
  <2>4. RoutesOfTheBackend'
    BY <1>1, <2>1 DEF CacheTypes, RoutesOfTheBackend, Cache!RoutesOfTheBackend
  <2>5. OnlyMissingAsked'
    BY <1>1, <2>1 DEF CacheTypes, OnlyMissingAsked, Cache!OnlyMissingAsked
  <2> QED
    BY <2>2, <2>3, <2>4, <2>5
<1> QED
  BY <1>2, <1>3, <1>4, <1>5, <1>6

\* The backend answers, the answer is sent to Redis, and Redis executes the put.
LEMMA AnswerKeeps ==
  ASSUME CacheInv, NEW e \in Engines,
         Cache!AskBackend(e) \/ Cache!Put(e) \/ Cache!Execute(e)
  PROVE  CacheInv'
<1> USE DEF CacheInv
<1> DEFINE k == Cache!Key(wanted[e])
<1>1. CASE Cache!AskBackend(e)
  <2> DEFINE a == Cache!Backend(wanted[e])
  <2>1. /\ place[e] = "backend" /\ place' = [place EXCEPT ![e] = "put"]
        /\ given' = [given EXCEPT ![e] = a] /\ answered' = answered \union {a}
        /\ missed' = [missed EXCEPT ![e] = @ \union {k}]
        /\ UNCHANGED <<entries, engine, pending, wanted>>
    BY <1>1 DEF Cache!AskBackend, Cache!Goto
  <2>2. Cache!Key(a) = k
    BY BackendAnswers
  <2>3. Entries \subseteq Entries' /\ Seq(Entries) \subseteq Seq(Entries')
    BY <2>1, EntriesGrow
  <2> HIDE DEF a, k
  <2>4. CacheTypes'
    BY <2>1, <2>3 DEF CacheTypes
  <2>5. EntriesOnly'
    BY <2>1, <2>2, <2>3 DEF CacheTypes, EntriesOnly, k
  <2>6. MissedArrive'
    BY <2>1 DEF CacheTypes, MissedArrive, Queued, k
  <2>7. RoutesOfTheBackend'
    BY <2>1 DEF CacheTypes, RoutesOfTheBackend, Cache!RoutesOfTheBackend
  <2>8. OnlyMissingAsked'
    BY <2>1 DEF CacheTypes, OnlyMissingAsked, Cache!OnlyMissingAsked
  <2> QED
    BY <2>4, <2>5, <2>6, <2>7, <2>8
<1>2. CASE Cache!Put(e)
  <2> DEFINE put == <<k, Cache!serialized(given[e])>>
  <2>1. /\ place[e] = "put" /\ place' = [place EXCEPT ![e] = "idle"]
        /\ pending' = [pending EXCEPT ![e] = Append(@, put)]
        /\ UNCHANGED <<entries, engine, wanted, given, answered, missed>>
    BY <1>2 DEF Cache!Put, Cache!Goto
  <2>2. given[e] \in answered /\ Cache!Key(given[e]) = k
    BY <2>1 DEF EntriesOnly
  <2>3. put \in Entries /\ put[1] = k /\ Entries' = Entries
    BY <2>1, <2>2 DEF Entries
  <2>4. /\ given[e].from = wanted[e].from /\ given[e].to = wanted[e].to
        /\ given[e].settings = wanted[e].settings
    BY <2>2 DEF Cache!Key
  <2> HIDE DEF put, k
  <2>5. CacheTypes' /\ EntriesOnly'
    BY <2>1, <2>3 DEF CacheTypes, EntriesOnly
  <2>6. \A d \in Engines : \A l : Queued(d, l) => Queued(d, l)'
    BY <2>1, <2>3 DEF CacheTypes, Queued
  <2>7. \A l : l = k => Queued(e, l)'
    <3>1. pending'[e] = Append(pending[e], put) /\ pending[e] \in Seq(Entries)
      BY <2>1 DEF CacheTypes
    <3>2. /\ Len(pending[e]) + 1 \in 1..Len(pending'[e])
          /\ pending'[e][Len(pending[e]) + 1] = put
      BY <2>3, <3>1
    <3> QED
      BY <2>3, <3>2 DEF Queued
  <2>8. MissedArrive'
    BY <2>1, <2>6, <2>7 DEF CacheTypes, MissedArrive, k
  <2>9. RoutesOfTheBackend'
    BY <2>1, <2>2, <2>4 DEF CacheTypes, RoutesOfTheBackend, Cache!RoutesOfTheBackend
  <2>10. OnlyMissingAsked'
    BY <2>1 DEF CacheTypes, OnlyMissingAsked, Cache!OnlyMissingAsked
  <2> QED
    BY <2>5, <2>8, <2>9, <2>10
<1>3. CASE Cache!Execute(e)
  <2> DEFINE put == Head(pending[e])
  <2>1. /\ pending[e] # <<>> /\ pending' = [pending EXCEPT ![e] = Tail(@)]
        /\ entries' = Cache!With(entries, put[1], put[2])
        /\ UNCHANGED <<engine, place, wanted, given, answered, missed>>
    BY <1>3 DEF Cache!Execute, Cache!history
  <2>2. /\ pending[e] \in Seq(Entries) /\ put \in Entries /\ put = pending[e][1]
        /\ Tail(pending[e]) \in Seq(Entries)
        /\ Len(Tail(pending[e])) = Len(pending[e]) - 1 /\ Len(pending[e]) \in Nat \ {0}
        /\ \A n \in 1..(Len(pending[e]) - 1) : Tail(pending[e])[n] = pending[e][n + 1]
    BY <2>1 DEF CacheTypes
  <2>3. Entries' = Entries /\ put = <<put[1], put[2]>>
    BY <2>1, <2>2 DEF Entries
  <2> HIDE DEF put
  <2>4. /\ DOMAIN entries' = DOMAIN entries \union {put[1]}
        /\ \A l \in DOMAIN entries' : entries'[l] = IF l = put[1] THEN put[2] ELSE entries[l]
    BY <2>1 DEF Cache!With
  <2>5. CacheTypes'
    BY <2>1, <2>2, <2>3 DEF CacheTypes
  <2>6. EntriesOnly'
    BY <2>1, <2>2, <2>3, <2>4 DEF EntriesOnly
  <2>7. \A l : Queued(e, l) => l \in DOMAIN entries' \/ Queued(e, l)'
    <3> SUFFICES ASSUME NEW l, NEW n \in 1..Len(pending[e]), pending[e][n][1] = l
                 PROVE  l \in DOMAIN entries' \/ Queued(e, l)'
      BY DEF Queued
    <3>1. CASE n = 1
      BY <2>2, <2>4, <3>1
    <3>2. CASE n # 1
      <4>1. pending'[e] = Tail(pending[e]) /\ n - 1 \in 1..(Len(pending[e]) - 1)
        BY <2>1, <2>2, <3>2 DEF CacheTypes
      <4>2. Tail(pending[e])[n - 1] = pending[e][n]
        BY <2>2, <4>1
      <4> QED
        BY <2>2, <4>1, <4>2 DEF Queued
    <3> QED
      BY <3>1, <3>2
  <2>8. \A d \in Engines \ {e} : \A l : Queued(d, l)' <=> Queued(d, l)
    BY <2>1 DEF CacheTypes, Queued
  <2>9. MissedArrive'
    BY <2>1, <2>4, <2>7, <2>8 DEF MissedArrive
  <2>10. RoutesOfTheBackend' /\ OnlyMissingAsked'
    BY <2>1 DEF RoutesOfTheBackend, Cache!RoutesOfTheBackend, OnlyMissingAsked,
       Cache!OnlyMissingAsked
  <2> QED
    BY <2>5, <2>6, <2>9, <2>10
<1> QED
  BY <1>1, <1>2, <1>3

\* Redis rejects a put: its key may be asked for again.
LEMMA RejectKeeps ==
  ASSUME CacheInv, NEW e \in Engines, Cache!Reject(e)
  PROVE  CacheInv'
<1> USE DEF CacheInv
<1> DEFINE put == Head(pending[e])
<1>1. /\ pending[e] # <<>> /\ pending' = [pending EXCEPT ![e] = Tail(@)]
      /\ missed' = [missed EXCEPT ![e] = @ \ {put[1]}]
      /\ UNCHANGED <<entries, engine, place, wanted, given, answered>>
  BY DEF Cache!Reject
<1>2. /\ pending[e] \in Seq(Entries) /\ put = pending[e][1]
      /\ Tail(pending[e]) \in Seq(Entries)
      /\ Len(Tail(pending[e])) = Len(pending[e]) - 1 /\ Len(pending[e]) \in Nat \ {0}
      /\ \A n \in 1..(Len(pending[e]) - 1) : Tail(pending[e])[n] = pending[e][n + 1]
  BY <1>1 DEF CacheTypes
<1>3. Entries' = Entries
  BY <1>1 DEF Entries
<1> HIDE DEF put
<1>4. CacheTypes' /\ EntriesOnly'
  BY <1>1, <1>2, <1>3 DEF CacheTypes, EntriesOnly
<1>5. \A l : Queued(e, l) => l = put[1] \/ Queued(e, l)'
  <2> SUFFICES ASSUME NEW l, NEW n \in 1..Len(pending[e]), pending[e][n][1] = l
               PROVE  l = put[1] \/ Queued(e, l)'
    BY DEF Queued
  <2>1. CASE n = 1
    BY <1>2, <2>1
  <2>2. CASE n # 1
    <3>1. pending'[e] = Tail(pending[e]) /\ n - 1 \in 1..(Len(pending[e]) - 1)
      BY <1>1, <1>2, <2>2 DEF CacheTypes
    <3>2. Tail(pending[e])[n - 1] = pending[e][n]
      BY <1>2, <3>1
    <3> QED
      BY <1>2, <3>1, <3>2 DEF Queued
  <2> QED
    BY <2>1, <2>2
<1>6. \A d \in Engines \ {e} : \A l : Queued(d, l)' <=> Queued(d, l)
  BY <1>1 DEF CacheTypes, Queued
<1>7. /\ missed'[e] = missed[e] \ {put[1]}
      /\ \A d \in Engines \ {e} : missed'[d] = missed[d]
  BY <1>1 DEF CacheTypes
<1>8. MissedArrive'
  BY <1>1, <1>5, <1>6, <1>7 DEF MissedArrive
<1>9. RoutesOfTheBackend'
  BY <1>1 DEF RoutesOfTheBackend, Cache!RoutesOfTheBackend
<1>10. OnlyMissingAsked'
  BY <1>1, <1>7 DEF OnlyMissingAsked, Cache!OnlyMissingAsked
<1> QED
  BY <1>4, <1>8, <1>9, <1>10

\* The invariant of the cache holds in every state.
LEMMA CacheInvariant == RouterSpec => []CacheInv
<1>1. RouterInit => CacheInv
  BY DEF RouterInit, Cache!Init, CacheInv, CacheTypes, EntriesOnly, MissedArrive, Queued,
     RoutesOfTheBackend, Cache!RoutesOfTheBackend, OnlyMissingAsked, Cache!OnlyMissingAsked
<1>2. ASSUME CacheInv, [RouterNext]_routerVars
      PROVE  CacheInv'
  <2>1. CASE UNCHANGED cacheVars
    BY <1>2, <2>1
       DEF cacheVars, CacheInv, CacheTypes, EntriesOnly, Entries, MissedArrive, Queued,
       RoutesOfTheBackend, Cache!RoutesOfTheBackend, OnlyMissingAsked, Cache!OnlyMissingAsked
  <2>2. CASE Cache!RoutesChange
    <3>1. UNCHANGED <<entries, engine, pending, place, wanted, given, answered, missed>>
      BY <2>2 DEF Cache!RoutesChange, Cache!engines, Cache!history
    <3> QED
      BY <1>2, <3>1
         DEF CacheInv, CacheTypes, EntriesOnly, Entries, MissedArrive, Queued,
         RoutesOfTheBackend, Cache!RoutesOfTheBackend, OnlyMissingAsked,
         Cache!OnlyMissingAsked
  <2>3. ASSUME NEW e \in Engines,
               \/ Cache!CreateEngine(e) \/ Cache!DestroyEngine(e)
               \/ Cache!getSingleRouteDetails(e) \/ Cache!Hit(e) \/ Cache!Miss(e)
               \/ Cache!GetFails(e) \/ Cache!AskBackend(e) \/ Cache!BackendThrows(e)
               \/ Cache!Put(e) \/ Cache!Execute(e) \/ Cache!Reject(e)
        PROVE  CacheInv'
    BY <1>2, <2>3, EngineKeeps, CallKeeps, AnswerKeeps, RejectKeeps
  <2> QED
    BY <1>2, <2>1, <2>2, <2>3, PartSteps DEF Cache!Next
<1> QED
  BY <1>1, <1>2, PTL DEF RouterSpec

\* Whatever fails, and however many engines share the cache, a route is an answer the
\* backend gave for these locations and settings, as it was or as it was printed.
THEOREM BackendsOnly == RouterSpec => []RoutesOfTheBackend
BY CacheInvariant, PTL DEF CacheInv

\* An engine that does not force an update asks the backend for a route once, as long as
\* its gets do not fail and its puts are not rejected, though nobody waits for a put.
THEOREM AskedOnce == RouterSpec => []OnlyMissingAsked
BY CacheInvariant, PTL DEF CacheInv

----------------------------------------------------------------------------
(* Recursion over the natural numbers.                                     *)

\* A set of natural numbers has a least one: induction, by the least counterexample.
LEMMA Least ==
  ASSUME NEW T \in SUBSET Nat, T # {}
  PROVE  \E n \in T : \A m \in T : n <= m
<1> DEFINE R == OpToRel(<, Nat)
<1>1. IsWellFoundedOn(R, Nat)
  BY NatLessThanWellFounded
<1>2. \A m, n \in Nat : m < n => <<m, n>> \in R
  BY DEF OpToRel
<1> HIDE DEF R
<1>3. PICK n \in T : \A m \in T : ~ (<<m, n>> \in R)
  BY <1>1, WFMin
<1>4. \A m \in T : ~ (m < n)
  BY <1>2, <1>3
<1> QED
  BY <1>4

\* The digits of a number follow from those of a tenth of it.
DigitsUpTo(f, k) ==
    \A n \in 0..k : f[n] = IF n < 10 THEN <<n>> ELSE Append(f[n \div 10], n % 10)

\* Some function has the digits of the numbers up to k.
LEMMA DigitsExist ==
  ASSUME NEW k \in Nat
  PROVE  \E f : DigitsUpTo(f, k)
<1> DEFINE T == {n \in Nat : ~ \E f : DigitsUpTo(f, n)}
<1>1. SUFFICES ASSUME T # {} PROVE FALSE
  OBVIOUS
<1>2. PICK n \in T : \A m \in T : n <= m
  BY <1>1, Least
<1>3. CASE n = 0
  <2>1. DigitsUpTo([m \in 0..0 |-> <<m>>], 0)
    BY DEF DigitsUpTo
  <2> QED
    BY <1>3, <2>1
<1>4. CASE n # 0
  <2>1. n - 1 \in Nat /\ n - 1 \notin T /\ n \in Nat
    BY <1>2, <1>4
  <2>2. PICK f : DigitsUpTo(f, n - 1)
    BY <2>1
  <2> DEFINE last == IF n < 10 THEN <<n>> ELSE Append(f[n \div 10], n % 10)
             g == [m \in 0..n |-> IF m < n THEN f[m] ELSE last]
  <2>3. \A m \in 0..n : m \div 10 \in 0..m /\ (m >= 10 => m \div 10 < m)
    BY <2>1
  <2>4. \A m \in 0..(n - 1) :
          f[m] = IF m < 10 THEN <<m>> ELSE Append(f[m \div 10], m % 10)
    BY <2>2 DEF DigitsUpTo
  <2>5. \A m \in 0..n :
          g[m] = IF m < 10 THEN <<m>> ELSE Append(g[m \div 10], m % 10)
    <3> SUFFICES ASSUME NEW m \in 0..n
                 PROVE  g[m] = IF m < 10 THEN <<m>> ELSE Append(g[m \div 10], m % 10)
      OBVIOUS
    <3>1. m >= 10 => g[m \div 10] = f[m \div 10]
      BY <2>1, <2>3
    <3>2. CASE m < n
      BY <2>1, <2>4, <3>1, <3>2
    <3>3. CASE m = n
      BY <2>1, <3>1, <3>3
    <3> QED
      BY <2>1, <3>2, <3>3
  <2>6. DigitsUpTo(g, n)
    BY <2>5 DEF DigitsUpTo
  <2> QED
    BY <1>2, <2>6
<1> QED
  BY <1>3, <1>4

\* Two such functions agree where both have digits.
LEMMA DigitsAgree ==
  ASSUME NEW k \in Nat, NEW l \in Nat, NEW f, NEW g, DigitsUpTo(f, k), DigitsUpTo(g, l)
  PROVE  \A n \in 0..k : n <= l => f[n] = g[n]
<1> DEFINE T == {n \in 0..k : n <= l /\ f[n] # g[n]}
<1>1. SUFFICES ASSUME T # {} PROVE FALSE
  OBVIOUS
<1>2. PICK n \in T : \A m \in T : n <= m
  <2>1. T \in SUBSET Nat
    OBVIOUS
  <2> HIDE DEF T
  <2> QED
    BY <1>1, <2>1, Least
<1>3. n \in Nat /\ n <= k /\ n <= l /\ f[n] # g[n] /\ (n >= 10 => n \div 10 \in 0..(n - 1))
  BY <1>2
<1>4. /\ f[n] = IF n < 10 THEN <<n>> ELSE Append(f[n \div 10], n % 10)
      /\ g[n] = IF n < 10 THEN <<n>> ELSE Append(g[n \div 10], n % 10)
  BY <1>3 DEF DigitsUpTo
<1>5. n >= 10 => n \div 10 \notin T
  BY <1>2, <1>3
<1>6. n >= 10 => f[n \div 10] = g[n \div 10]
  BY <1>3, <1>5
<1> QED
  BY <1>3, <1>4, <1>6

\* The recursive definition of Digits holds of Digits.
LEMMA DigitsOf ==
  \A n \in Nat : Digits[n] = IF n < 10 THEN <<n>> ELSE Append(Digits[n \div 10], n % 10)
<1> DEFINE up(n) == CHOOSE f : DigitsUpTo(f, n)
           F == [n \in Nat |-> up(n)[n]]
<1>1. \A n \in Nat : DigitsUpTo(up(n), n)
  BY DigitsExist
<1>2. ASSUME NEW n \in Nat
      PROVE  F[n] = IF n < 10 THEN <<n>> ELSE Append(F[n \div 10], n % 10)
  <2>1. n \div 10 \in 0..n
    OBVIOUS
  <2>2. DigitsUpTo(up(n), n) /\ DigitsUpTo(up(n \div 10), n \div 10)
    BY <1>1, <2>1
  <2> HIDE DEF up
  <2>3. up(n)[n] = IF n < 10 THEN <<n>> ELSE Append(up(n)[n \div 10], n % 10)
    BY <2>2 DEF DigitsUpTo
  <2>4. up(n \div 10)[n \div 10] = up(n)[n \div 10]
    BY <2>1, <2>2, DigitsAgree
  <2> QED
    BY <2>1, <2>3, <2>4
<1> DEFINE G == [n \in Nat |-> IF n < 10 THEN <<n>> ELSE Append(F[n \div 10], n % 10)]
<1>3. F = G
  <2>1. \A n \in Nat : F[n] = G[n]
    BY <1>2
  <2>2. F = [n \in Nat |-> F[n]] /\ G = [n \in Nat |-> G[n]]
    OBVIOUS
  <2> HIDE DEF F, G
  <2> QED
    BY <2>1, <2>2
<1> HIDE DEF F
<1>4. Digits = [n \in Nat |-> IF n < 10 THEN <<n>> ELSE Append(Digits[n \div 10], n % 10)]
  BY <1>3 DEF Digits
<1> QED
  BY <1>4

\* A number below ten is its digit.
LEMMA OneDigit ==
  ASSUME NEW n \in Nat, n < 10
  PROVE  Digits[n] = <<n>>
<1>1. Digits[n] = IF n < 10 THEN <<n>> ELSE Append(Digits[n \div 10], n % 10)
  BY DigitsOf, Zenon
<1> QED
  BY <1>1

\* Another one has the digits of its tenth, and one more.
LEMMA MoreDigits ==
  ASSUME NEW n \in Nat, n >= 10
  PROVE  /\ Digits[n] = Append(Digits[n \div 10], n % 10)
         /\ n \div 10 \in Nat /\ n \div 10 < n /\ n % 10 \in 0..9
         /\ n = 10 * (n \div 10) + (n % 10)
<1>1. Digits[n] = IF n < 10 THEN <<n>> ELSE Append(Digits[n \div 10], n % 10)
  BY DigitsOf, Zenon
<1>2. n \div 10 \in Nat /\ n \div 10 < n
  OBVIOUS
<1>3. n % 10 \in 0..9
  OBVIOUS
<1>4. n = 10 * (n \div 10) + (n % 10)
  OBVIOUS
<1>5. ~ (n < 10)
  OBVIOUS
<1>6. Digits[n] = Append(Digits[n \div 10], n % 10)
  BY <1>1, <1>5, Zenon
<1> QED
  BY <1>2, <1>3, <1>4, <1>6

\* Of equal sequences, the last elements are equal, and what is before them.
LEMMA AppendOfSame ==
  ASSUME NEW S, NEW s \in Seq(S), NEW t \in Seq(S), NEW x, NEW y,
         Append(s, x) = Append(t, y)
  PROVE  s = t /\ x = y
<1>1. Len(s) = Len(t)
  OBVIOUS
<1>2. \A k \in 1..Len(s) : s[k] = t[k]
  <2> TAKE k \in 1..Len(s)
  <2>1. Append(s, x)[k] = s[k] /\ Append(t, y)[k] = t[k]
    BY <1>1
  <2> QED
    BY <2>1
<1>3. Append(s, x)[Len(s) + 1] = x /\ Append(t, y)[Len(t) + 1] = y
  OBVIOUS
<1> QED
  BY <1>1, <1>2, <1>3

\* What follows the same first element is equal.
LEMMA PrefixedSame ==
  ASSUME NEW S, NEW s \in Seq(S), NEW t \in Seq(S), NEW x,
         <<x>> \o s = <<x>> \o t
  PROVE  s = t
<1>1. Len(s) = Len(t)
  OBVIOUS
<1>2. \A k \in 1..Len(s) : s[k] = t[k]
  <2> TAKE k \in 1..Len(s)
  <2>1. (<<x>> \o s)[k + 1] = s[k] /\ (<<x>> \o t)[k + 1] = t[k]
    BY <1>1
  <2> QED
    BY <2>1
<1> QED
  BY <1>1, <1>2

\* A number has digits, more than one if it is more than nine.
LEMMA DigitsType ==
  \A n \in Nat : /\ Digits[n] \in Seq(0..9)
                 /\ Len(Digits[n]) >= 1
                 /\ Len(Digits[n]) = 1 <=> n < 10
<1> DEFINE Good(n) == /\ Digits[n] \in Seq(0..9)
                      /\ Len(Digits[n]) >= 1
                      /\ Len(Digits[n]) = 1 <=> n < 10
           T == {n \in Nat : ~ Good(n)}
<1>1. SUFFICES ASSUME T # {} PROVE FALSE
  OBVIOUS
<1>2. T \in SUBSET Nat
  OBVIOUS
<1>3. PICK n \in T : \A m \in T : n <= m
  <2> HIDE DEF T
  <2> QED
    BY <1>1, <1>2, Least
<1>4. n \in Nat /\ ~ Good(n)
  OBVIOUS
<1>5. CASE n < 10
  <2>1. Digits[n] = <<n>> /\ n \in 0..9
    BY <1>4, <1>5, OneDigit
  <2> QED
    BY <1>4, <1>5, <2>1
<1>6. CASE n >= 10
  <2> DEFINE q == n \div 10
             r == n % 10
  <2>1. q \in Nat /\ q < n /\ r \in 0..9
    BY <1>4, <1>6
  <2>2. Digits[n] = Append(Digits[q], r)
    BY <1>4, <1>6, MoreDigits
  <2>3. Good(q)
    BY <1>3, <2>1
  <2> HIDE DEF q, r
  <2> QED
    BY <1>4, <1>6, <2>1, <2>2, <2>3
<1> QED
  BY <1>4, <1>5, <1>6

\* Different numbers have different digits.
LEMMA DigitsDiffer ==
  \A m, n \in Nat : Digits[m] = Digits[n] => m = n
<1> DEFINE T == {m \in Nat : \E n \in Nat : n # m /\ Digits[m] = Digits[n]}
<1>1. SUFFICES ASSUME T # {} PROVE FALSE
  OBVIOUS
<1>2. T \in SUBSET Nat
  OBVIOUS
<1>3. PICK m \in T : \A l \in T : m <= l
  <2> HIDE DEF T
  <2> QED
    BY <1>1, <1>2, Least
<1>4. PICK n \in Nat : m \in Nat /\ n # m /\ Digits[m] = Digits[n]
  OBVIOUS
<1>5. m < 10 <=> n < 10
  BY <1>4, DigitsType
<1>6. CASE m < 10
  <2>1. Digits[m] = <<m>> /\ Digits[n] = <<n>>
    BY <1>4, <1>5, <1>6, OneDigit
  <2>2. <<m>> = <<n>>
    BY <1>4, <2>1, Zenon
  <2> QED
    BY <1>4, <2>2
<1>7. CASE m >= 10
  <2>1. m \in Nat /\ n \in Nat /\ m >= 10 /\ n >= 10
    BY <1>4, <1>5, <1>7
  <2>2. /\ Digits[m] = Append(Digits[m \div 10], m % 10)
        /\ Digits[n] = Append(Digits[n \div 10], n % 10)
    <3> HIDE DEF T
    <3> QED
      BY <2>1, MoreDigits
  <2>3. /\ m \div 10 \in Nat /\ m \div 10 < m /\ n \div 10 \in Nat
        /\ m = 10 * (m \div 10) + (m % 10) /\ n = 10 * (n \div 10) + (n % 10)
    <3> HIDE DEF T
    <3> QED
      BY <2>1, MoreDigits
  <2>4. Digits[m \div 10] \in Seq(0..9) /\ Digits[n \div 10] \in Seq(0..9)
    BY <2>3, DigitsType
  <2>5. Digits[m \div 10] = Digits[n \div 10] /\ m % 10 = n % 10
    <3> DEFINE s == Digits[m \div 10]
               t == Digits[n \div 10]
               x == m % 10
               y == n % 10
    <3>1. s \in Seq(0..9) /\ t \in Seq(0..9) /\ Append(s, x) = Append(t, y)
      BY <1>4, <2>2, <2>4
    <3> HIDE DEF s, t, x, y
    <3>2. s = t /\ x = y
      BY <3>1, AppendOfSame
    <3> QED
      BY <3>2 DEF s, t, x, y
  <2>6. m \div 10 \notin T
    BY <1>3, <2>3
  <2>7. m \div 10 = n \div 10
    BY <2>3, <2>5, <2>6
  <2> QED
    BY <1>4, <2>3, <2>5, <2>7
<1> QED
  BY <1>4, <1>6, <1>7

Characters == {Minus} \union 0..9

\* The text of a number has the characters of numbers.
LEMMA StringType == \A n \in Int : to_string(n) \in Seq(Characters)
<1> TAKE n \in Int
<1> DEFINE d == Digits[IF n < 0 THEN -n ELSE n]
<1>1. d \in Seq(0..9)
  BY DigitsType
<1>2. to_string(n) = IF n < 0 THEN <<Minus>> \o d ELSE d
  BY DEF to_string
<1> HIDE DEF d
<1>3. d \in Seq(Characters) /\ <<Minus>> \in Seq(Characters)
  BY <1>1 DEF Characters
<1> QED
  BY <1>2, <1>3

\* Different numbers have different texts.
LEMMA StringsDiffer == \A m, n \in Int : to_string(m) = to_string(n) => m = n
<1> TAKE m, n \in Int
<1> HAVE to_string(m) = to_string(n)
<1>1. \A k \in Nat : Digits[k] \in Seq(0..9) /\ Digits[k][1] \in 0..9 /\ Len(Digits[k]) >= 1
  BY DigitsType
<1>2. CASE m < 0 /\ n < 0
  <2>1. <<Minus>> \o Digits[-m] = <<Minus>> \o Digits[-n]
    BY <1>2 DEF to_string
  <2>2. -m \in Nat /\ -n \in Nat
    BY <1>2
  <2>3. Digits[-m] = Digits[-n]
    <3> DEFINE s == Digits[-m]
               t == Digits[-n]
    <3>1. s \in Seq(0..9) /\ t \in Seq(0..9) /\ <<Minus>> \o s = <<Minus>> \o t
      BY <1>1, <2>1, <2>2
    <3> HIDE DEF s, t
    <3>2. s = t
      BY <3>1, PrefixedSame
    <3> QED
      BY <3>2 DEF s, t
  <2> QED
    BY <2>2, <2>3, DigitsDiffer
<1>3. CASE m >= 0 /\ n >= 0
  BY <1>3, DigitsDiffer DEF to_string
<1>4. ASSUME NEW x \in Int, NEW y \in Int, x < 0, y >= 0, to_string(x) = to_string(y)
      PROVE  FALSE
  <2>1. <<Minus>> \o Digits[-x] = Digits[y]
    BY <1>4 DEF to_string
  <2>2. (<<Minus>> \o Digits[-x])[1] = Minus
    BY <1>1, <1>4
  <2>3. Digits[y][1] \in 0..9
    BY <1>1, <1>4
  <2> QED
    BY <2>1, <2>2, <2>3, SMTT(30) DEF Minus
<1> QED
  BY <1>2, <1>3, <1>4

\* A space that neither text has parts them.
LEMMA SpaceParts ==
  ASSUME NEW s \in Seq(Characters), NEW t \in Seq(Characters),
         NEW u \in Seq(Characters), NEW v \in Seq(Characters),
         s \o <<Space>> \o t = u \o <<Space>> \o v
  PROVE  s = u /\ t = v
<1> DEFINE x == s \o <<Space>> \o t
           y == u \o <<Space>> \o v
<1>0. Space \notin Characters
  BY DEF Characters, Space, Minus
<1>1. /\ \A i \in 1..Len(s) : x[i] = s[i]
      /\ x[Len(s) + 1] = Space
      /\ \A i \in 1..Len(t) : x[Len(s) + 1 + i] = t[i]
      /\ Len(x) = Len(s) + 1 + Len(t)
  OBVIOUS
<1>2. /\ \A i \in 1..Len(u) : y[i] = u[i]
      /\ y[Len(u) + 1] = Space
      /\ \A i \in 1..Len(v) : y[Len(u) + 1 + i] = v[i]
      /\ Len(y) = Len(u) + 1 + Len(v)
  OBVIOUS
<1>3. x = y
  OBVIOUS
<1> HIDE DEF x, y
<1>4. ~ (Len(s) < Len(u))
  <2> SUFFICES ASSUME Len(s) < Len(u) PROVE FALSE
    OBVIOUS
  <2>1. Len(s) + 1 \in 1..Len(u)
    OBVIOUS
  <2>2. u[Len(s) + 1] = Space /\ u[Len(s) + 1] \in Characters
    BY <1>1, <1>2, <1>3, <2>1
  <2> QED
    BY <1>0, <2>2
<1>5. ~ (Len(u) < Len(s))
  <2> SUFFICES ASSUME Len(u) < Len(s) PROVE FALSE
    OBVIOUS
  <2>1. Len(u) + 1 \in 1..Len(s)
    OBVIOUS
  <2>2. s[Len(u) + 1] = Space /\ s[Len(u) + 1] \in Characters
    BY <1>1, <1>2, <1>3, <2>1
  <2> QED
    BY <1>0, <2>2
<1>6. Len(s) = Len(u) /\ Len(t) = Len(v)
  <2>1. /\ Len(s) \in Nat /\ Len(t) \in Nat /\ Len(u) \in Nat /\ Len(v) \in Nat
        /\ Len(s) + 1 + Len(t) = Len(u) + 1 + Len(v)
    BY <1>1, <1>2, <1>3
  <2> QED
    BY <1>4, <1>5, <2>1
<1>7. s = u
  BY <1>1, <1>2, <1>3, <1>6
<1>8. t = v
  BY <1>1, <1>2, <1>3, <1>6
<1> QED
  BY <1>7, <1>8

\* buildLocationKey puts a space between latitude and longitude: different locations
\* have different keys, whatever the number of their digits and their signs.
THEOREM LocationKeysDiffer ==
  ASSUME NEW a \in Location, NEW b \in Location,
         Batch!buildLocationKey(a) = Batch!buildLocationKey(b)
  PROVE  a = b
<1> DEFINE S(n) == to_string(n)
<1>1. a.lat \in Int /\ a.lon \in Int /\ b.lat \in Int /\ b.lon \in Int
  BY DEF Location
<1>2. S(a.lat) \o <<Space>> \o S(a.lon) = S(b.lat) \o <<Space>> \o S(b.lon)
  BY DEF Batch!buildLocationKey, Batch!to_string, to_string, Batch!Space, Space,
     Batch!Minus, Minus, Batch!Digits, Digits
<1>3. S(a.lat) = S(b.lat) /\ S(a.lon) = S(b.lon)
  <2> HIDE DEF S
  <2>1. \A n \in Int : S(n) \in Seq(Characters)
    BY StringType DEF S
  <2> DEFINE s == S(a.lat)
             t == S(a.lon)
             u == S(b.lat)
             v == S(b.lon)
  <2>2. /\ s \in Seq(Characters) /\ t \in Seq(Characters)
        /\ u \in Seq(Characters) /\ v \in Seq(Characters)
        /\ s \o <<Space>> \o t = u \o <<Space>> \o v
    BY <1>1, <1>2, <2>1
  <2> HIDE DEF s, t, u, v
  <2>3. s = u /\ t = v
    BY <2>2, SpaceParts, ZenonT(60)
  <2> QED
    BY <2>3 DEF s, t, u, v
<1>4. a.lat = b.lat /\ a.lon = b.lon
  BY <1>1, <1>3, StringsDiffer
<1> QED
  BY <1>4 DEF Location


----------------------------------------------------------------------------
(* The call of the router (RoutesBatch): the lists of the message.         *)

\* Appending what a sequence lacks keeps its elements apart.
LEMMA AppendNew ==
  ASSUME NEW S, NEW s \in Seq(S), NEW x \in S,
         Batch!IsInjective(s), x \notin Batch!ToSet(s)
  PROVE  /\ Append(s, x) \in Seq(S)
         /\ Batch!IsInjective(Append(s, x))
         /\ Batch!ToSet(Append(s, x)) = Batch!ToSet(s) \union {x}
<1>1. /\ Append(s, x) \in Seq(S) /\ Len(Append(s, x)) = Len(s) + 1
      /\ DOMAIN s = 1..Len(s) /\ DOMAIN Append(s, x) = 1..(Len(s) + 1)
      /\ Append(s, x)[Len(s) + 1] = x
  OBVIOUS
<1>2. \A i \in 1..Len(s) : Append(s, x)[i] = s[i] /\ s[i] # x
  BY DEF Batch!ToSet
<1>3. Batch!IsInjective(Append(s, x))
  BY <1>1, <1>2 DEF Batch!IsInjective
<1>4. Batch!ToSet(Append(s, x)) = Batch!ToSet(s) \union {x}
  BY <1>1, <1>2 DEF Batch!ToSet
<1> QED
  BY <1>1, <1>3, <1>4

\* FirstOfEach goes over the list: what it makes of the positions s, the last of
\* which is the one it comes to last.
First(locs, i) == \A j \in 1..i - 1 : Batch!keyed(locs)[j] # Batch!keyed(locs)[i]

Added(f, s, locs, i) ==
    IF First(locs, i) THEN Append(f[s \ {i}], locs[i]) ELSE f[s \ {i}]

FoldedUpTo(f, locs, k) ==
    \A s \in SUBSET (1..k) : f[s] = IF s = {} THEN <<>> ELSE Added(f, s, locs, Batch!Max(s))

\* The position it comes to last is the highest.
LEMMA LastIsMax ==
  ASSUME NEW k \in Nat, NEW s \in SUBSET (1..k), k \in s
  PROVE  Batch!Max(s) = k
<1>1. \A i \in s : i \in Int /\ i <= k
  OBVIOUS
<1>2. \A i \in s : (\A j \in s : i >= j) <=> i = k
  BY <1>1
<1> QED
  BY <1>2 DEF Batch!Max

\* Some function is what FirstOfEach makes of the positions up to k.
LEMMA FoldExists ==
  ASSUME NEW locs, NEW k \in Nat
  PROVE  \E f : FoldedUpTo(f, locs, k)
<1> DEFINE T == {n \in Nat : ~ \E f : FoldedUpTo(f, locs, n)}
<1>1. SUFFICES ASSUME T # {} PROVE FALSE
  OBVIOUS
<1>2. PICK n \in T : \A m \in T : n <= m
  BY <1>1, Least
<1>3. CASE n = 0
  <2>1. FoldedUpTo([s \in SUBSET (1..0) |-> <<>>], locs, 0)
    BY DEF FoldedUpTo
  <2> QED
    BY <1>3, <2>1
<1>4. CASE n # 0
  <2>1. n - 1 \in Nat /\ n - 1 \notin T /\ n \in Nat
    BY <1>2, <1>4
  <2>2. PICK f : FoldedUpTo(f, locs, n - 1)
    BY <2>1
  <2> DEFINE g == [s \in SUBSET (1..n) |-> IF n \in s THEN Added(f, s, locs, n) ELSE f[s]]
  <2>3. ASSUME NEW s \in SUBSET (1..n)
        PROVE  g[s] = IF s = {} THEN <<>> ELSE Added(g, s, locs, Batch!Max(s))
    <3>1. CASE n \in s
      <4>1. Batch!Max(s) = n
        BY <2>1, <3>1, LastIsMax
      <4>2. s \ {n} \in SUBSET (1..n) /\ n \notin s \ {n}
        OBVIOUS
      <4>3. g[s \ {n}] = f[s \ {n}]
        BY <4>2
      <4>4. g[s] = Added(f, s, locs, n)
        BY <3>1
      <4> HIDE DEF g
      <4> QED
        BY <3>1, <4>1, <4>3, <4>4 DEF Added
    <3>2. CASE n \notin s
      <4> DEFINE m == Batch!Max(s)
      <4>1. s \in SUBSET (1..(n - 1))
        BY <2>1, <3>2
      <4>2. g[s] = f[s] /\ g[s \ {m}] = f[s \ {m}]
        BY <3>2
      <4>3. f[s] = IF s = {} THEN <<>> ELSE Added(f, s, locs, m)
        BY <2>2, <4>1 DEF FoldedUpTo
      <4> HIDE DEF g, m
      <4>4. g[s] = IF s = {} THEN <<>> ELSE Added(g, s, locs, m)
        BY <4>2, <4>3 DEF Added
      <4> QED
        BY <4>4 DEF m
    <3> QED
      BY <3>1, <3>2
  <2>4. FoldedUpTo(g, locs, n)
    BY <2>3 DEF FoldedUpTo
  <2> QED
    BY <1>2, <2>4
<1> QED
  BY <1>3, <1>4

\* FirstOfEach is what such a function makes of all positions.
LEMMA FirstOfEachFolds ==
  ASSUME NEW S, NEW locs \in Seq(S)
  PROVE  \E f : FoldedUpTo(f, locs, Len(locs)) /\ Batch!FirstOfEach(locs) = f[1..Len(locs)]
<1> DEFINE at == [i \in DOMAIN locs |-> i]
           D == DOMAIN at
           Body(f, s) == IF s = {} THEN <<>>
                         ELSE IF First(locs, at[Batch!Max(s)])
                                THEN Append(f[s \ {Batch!Max(s)}], locs[at[Batch!Max(s)]])
                                ELSE f[s \ {Batch!Max(s)}]
           g == CHOOSE f : f = [s \in SUBSET D |-> Body(f, s)]
<1>1. Batch!FirstOfEach(locs) = g[D]
  BY DEF Batch!FirstOfEach, Batch!FoldLeftDomain, Batch!FoldLeft, Batch!MapThenFoldSet, First
<1>2. D = 1..Len(locs) /\ Len(locs) \in Nat
  OBVIOUS
<1>3. \A s \in SUBSET D : s # {} => Batch!Max(s) \in D
  <2> SUFFICES ASSUME NEW s \in SUBSET D, s # {}
               PROVE  Batch!Max(s) \in s
    OBVIOUS
  <2> DEFINE U == {m \in Nat : \A i \in s : i <= m}
  <2>1. Len(locs) \in U
    BY <1>2
  <2>2. PICK m \in U : \A l \in U : m <= l
    <3>1. U \in SUBSET Nat /\ U # {}
      BY <2>1
    <3> HIDE DEF U
    <3> QED
      BY <3>1, Least
  <2>3. m \in s
    <3> SUFFICES ASSUME m \notin s PROVE FALSE
      OBVIOUS
    <3>1. \A i \in s : i \in 1..Len(locs) /\ i <= m /\ i # m
      BY <1>2, <2>2
    <3>2. m - 1 \in Nat /\ \A i \in s : i <= m - 1
      BY <2>2, <3>1
    <3>3. m - 1 \in U
      BY <3>2
    <3> QED
      BY <2>2, <3>3
  <2> QED
    BY <2>2, <2>3 DEF Batch!Max
<1>4. ASSUME NEW f, NEW s \in SUBSET D
      PROVE  Body(f, s) = IF s = {} THEN <<>> ELSE Added(f, s, locs, Batch!Max(s))
  BY <1>3 DEF Added
<1>5. \E f : f = [s \in SUBSET D |-> Body(f, s)]
  <2>1. PICK h : FoldedUpTo(h, locs, Len(locs))
    BY <1>2, FoldExists
  <2> DEFINE f == [s \in SUBSET D |-> h[s]]
  <2>2. \A s \in SUBSET D : s \ {Batch!Max(s)} \in SUBSET D
    OBVIOUS
  <2>3. \A s \in SUBSET D : Added(f, s, locs, Batch!Max(s)) = Added(h, s, locs, Batch!Max(s))
    BY <2>2 DEF Added
  <2>4. \A s \in SUBSET D : f[s] = Body(f, s)
    BY <1>2, <1>4, <2>1, <2>3 DEF FoldedUpTo
  <2>5. f = [s \in SUBSET D |-> f[s]]
    OBVIOUS
  <2> HIDE DEF f, D, Body
  <2> QED
    BY <2>4, <2>5
<1>6. g = [s \in SUBSET D |-> Body(g, s)]
  BY <1>5
<1>7. FoldedUpTo(g, locs, Len(locs))
  <2> HIDE DEF g, D, Body
  <2> QED
    BY <1>2, <1>4, <1>6 DEF FoldedUpTo
<1> HIDE DEF g, D
<1> QED
  BY <1>1, <1>2, <1>7

\* The message has every location of the list, each once.
LEMMA FirstOfEachOnce ==
  ASSUME NEW locs \in Seq(Location)
  PROVE  /\ Batch!FirstOfEach(locs) \in Seq(Location)
         /\ Batch!IsInjective(Batch!FirstOfEach(locs))
         /\ Batch!ToSet(Batch!FirstOfEach(locs)) = Batch!ToSet(locs)
<1>1. PICK f : FoldedUpTo(f, locs, Len(locs)) /\ Batch!FirstOfEach(locs) = f[1..Len(locs)]
  BY FirstOfEachFolds
<1> DEFINE Good(k) == /\ f[1..k] \in Seq(Location)
                      /\ Batch!IsInjective(f[1..k])
                      /\ Batch!ToSet(f[1..k]) = {locs[i] : i \in 1..k}
           T == {k \in 0..Len(locs) : ~ Good(k)}
<1>2. T = {}
  <2> SUFFICES ASSUME T # {} PROVE FALSE
    OBVIOUS
  <2>1. PICK k \in T : \A l \in T : k <= l
    <3>1. T \in SUBSET Nat
      OBVIOUS
    <3> HIDE DEF T
    <3> QED
      BY <3>1, Least
  <2>2. k \in Nat /\ k <= Len(locs) /\ ~ Good(k)
    OBVIOUS
  <2>3. CASE k = 0
    <3>1. f[1..0] = <<>>
      BY <1>1 DEF FoldedUpTo
    <3> QED
      BY <2>2, <2>3, <3>1 DEF Batch!IsInjective, Batch!ToSet
  <2>4. CASE k # 0
    <3>1. k - 1 \in 0..Len(locs) /\ k \in 1..Len(locs) /\ locs[k] \in Location
      BY <2>2, <2>4
    <3>2. Good(k - 1)
      BY <2>1, <3>1
    <3>3. /\ 1..k \in SUBSET (1..Len(locs)) /\ 1..k \in SUBSET (1..k) /\ 1..k # {}
          /\ k \in 1..k /\ (1..k) \ {k} = 1..(k - 1)
      BY <3>1
    <3>4. Batch!Max(1..k) = k
      BY <2>2, <3>3, LastIsMax
    <3>5. f[1..k] = IF First(locs, k) THEN Append(f[1..(k - 1)], locs[k]) ELSE f[1..(k - 1)]
      BY <1>1, <3>3, <3>4 DEF FoldedUpTo, Added
    <3>6. First(locs, k) <=> \A i \in 1..(k - 1) : locs[i] # locs[k]
      <4>1. \A i \in 1..k : locs[i] \in Location
                               /\ Batch!keyed(locs)[i] = Batch!buildLocationKey(locs[i])
        BY <3>1 DEF Batch!keyed
      <4>2. \A i \in 1..(k - 1) : Batch!keyed(locs)[i] = Batch!keyed(locs)[k] <=> locs[i] = locs[k]
        BY <3>1, <4>1, LocationKeysDiffer
      <4> QED
        BY <3>1, <4>2 DEF First
    <3>7. {locs[i] : i \in 1..k} = {locs[i] : i \in 1..(k - 1)} \union {locs[k]}
      BY <3>1
    <3> DEFINE r == f[1..(k - 1)]
    <3>8. CASE First(locs, k)
      <4>1. locs[k] \notin Batch!ToSet(r)
        BY <3>2, <3>6, <3>8
      <4>2. r \in Seq(Location) /\ Batch!IsInjective(r)
        BY <3>2
      <4> HIDE DEF r
      <4>3. /\ Append(r, locs[k]) \in Seq(Location)
            /\ Batch!IsInjective(Append(r, locs[k]))
            /\ Batch!ToSet(Append(r, locs[k])) = Batch!ToSet(r) \union {locs[k]}
        BY <3>1, <4>1, <4>2, AppendNew
      <4>4. f[1..k] = Append(r, locs[k])
        BY <3>5, <3>8 DEF r
      <4> QED
        BY <2>2, <3>2, <3>7, <4>3, <4>4 DEF r
    <3>9. CASE ~ First(locs, k)
      BY <2>2, <3>2, <3>5, <3>6, <3>7, <3>9
    <3> QED
      BY <3>8, <3>9
  <2> QED
    BY <2>3, <2>4
<1>3. Good(Len(locs))
  <2>1. Len(locs) \in 0..Len(locs)
    OBVIOUS
  <2>2. Len(locs) \notin T
    BY <1>2
  <2> HIDE DEF Good
  <2> QED
    BY <2>1, <2>2
<1>4. Batch!ToSet(locs) = {locs[i] : i \in 1..Len(locs)}
  BY DEF Batch!ToSet
<1> QED
  BY <1>1, <1>3, <1>4

\* One after the other, two sequences without common elements keep theirs apart.
LEMMA ConcatNew ==
  ASSUME NEW S, NEW s \in Seq(S), NEW t \in Seq(S),
         Batch!IsInjective(s), Batch!IsInjective(t),
         Batch!ToSet(s) \intersect Batch!ToSet(t) = {}
  PROVE  /\ s \o t \in Seq(S)
         /\ Batch!IsInjective(s \o t)
         /\ Batch!ToSet(s \o t) = Batch!ToSet(s) \union Batch!ToSet(t)
<1> DEFINE m == Len(s)
           n == Len(t)
           u == s \o t
<1>1. /\ m \in Nat /\ n \in Nat
      /\ u \in Seq(S) /\ DOMAIN s = 1..m /\ DOMAIN t = 1..n /\ DOMAIN u = 1..(m + n)
  OBVIOUS
<1>2. \A i \in 1..m : u[i] = s[i]
  OBVIOUS
<1>3. \A i \in 1..n : u[m + i] = t[i]
  OBVIOUS
<1>4. \A i \in 1..m : \A j \in 1..n : s[i] # t[j]
  BY <1>1 DEF Batch!ToSet
<1>5. /\ \A i, j \in 1..m : s[i] = s[j] => i = j
      /\ \A i, j \in 1..n : t[i] = t[j] => i = j
  BY <1>1 DEF Batch!IsInjective
<1> HIDE DEF m, n, u
<1>6. \A i \in (m + 1)..(m + n) : i - m \in 1..n /\ u[i] = t[i - m]
  <2> TAKE i \in (m + 1)..(m + n)
  <2>1. i - m \in 1..n /\ m + (i - m) = i
    BY <1>1
  <2> QED
    BY <1>3, <2>1
<1>7. Batch!IsInjective(u)
  <2> SUFFICES ASSUME NEW i \in 1..(m + n), NEW j \in 1..(m + n), u[i] = u[j]
               PROVE  i = j
    BY <1>1 DEF Batch!IsInjective
  <2>1. CASE i <= m /\ j <= m
    BY <1>1, <1>2, <1>5, <2>1
  <2>2. CASE i > m /\ j > m
    <3>1. i - m \in 1..n /\ j - m \in 1..n /\ t[i - m] = t[j - m]
      BY <1>1, <1>6, <2>2
    <3>2. i - m = j - m
      BY <1>5, <3>1
    <3> QED
      BY <1>1, <3>2
  <2>3. CASE i <= m /\ j > m
    BY <1>1, <1>2, <1>4, <1>6, <2>3
  <2>4. CASE i > m /\ j <= m
    BY <1>1, <1>2, <1>4, <1>6, <2>4
  <2> QED
    BY <1>1, <2>1, <2>2, <2>3, <2>4
<1>8. Batch!ToSet(u) = Batch!ToSet(s) \union Batch!ToSet(t)
  <2>1. \A i \in 1..(m + n) : u[i] \in Batch!ToSet(s) \union Batch!ToSet(t)
    <3> TAKE i \in 1..(m + n)
    <3>1. CASE i \in 1..m
      BY <1>1, <1>2, <3>1 DEF Batch!ToSet
    <3>2. CASE i \in (m + 1)..(m + n)
      BY <1>1, <1>6, <3>2 DEF Batch!ToSet
    <3> QED
      BY <1>1, <3>1, <3>2
  <2>2. \A i \in 1..m : s[i] \in Batch!ToSet(u)
    <3> TAKE i \in 1..m
    <3>1. i \in 1..(m + n) /\ s[i] = u[i]
      BY <1>1, <1>2
    <3> QED
      BY <1>1, <3>1 DEF Batch!ToSet
  <2>3. \A i \in 1..n : t[i] \in Batch!ToSet(u)
    <3> TAKE i \in 1..n
    <3>1. m + i \in 1..(m + n) /\ t[i] = u[m + i]
      BY <1>1, <1>3
    <3> QED
      BY <1>1, <3>1 DEF Batch!ToSet
  <2> QED
    BY <1>1, <2>1, <2>2, <2>3 DEF Batch!ToSet
<1> QED
  BY <1>1, <1>7, <1>8 DEF u

\* FlattenSeq goes over the sequences: what it makes of the first i.
JoinedUpTo(f, seqs, k) ==
    \A i \in 1..k : f[i] = IF i = 1 THEN seqs[i] ELSE f[i - 1] \o seqs[i]

\* Some function is what FlattenSeq makes of the first sequences, up to k of them.
LEMMA JoinExists ==
  ASSUME NEW seqs, NEW k \in Nat
  PROVE  \E f : JoinedUpTo(f, seqs, k)
<1> DEFINE T == {n \in Nat : ~ \E f : JoinedUpTo(f, seqs, n)}
<1>1. SUFFICES ASSUME T # {} PROVE FALSE
  OBVIOUS
<1>2. PICK n \in T : \A m \in T : n <= m
  BY <1>1, Least
<1>3. CASE n = 0
  BY <1>2, <1>3 DEF JoinedUpTo
<1>4. CASE n # 0
  <2>1. n - 1 \in Nat /\ n - 1 \notin T /\ n \in Nat
    BY <1>2, <1>4
  <2>2. PICK f : JoinedUpTo(f, seqs, n - 1)
    BY <2>1
  <2> DEFINE last == IF n = 1 THEN seqs[n] ELSE f[n - 1] \o seqs[n]
             g == [i \in 1..n |-> IF i < n THEN f[i] ELSE last]
  <2>3. \A i \in 1..(n - 1) : f[i] = IF i = 1 THEN seqs[i] ELSE f[i - 1] \o seqs[i]
    BY <2>2 DEF JoinedUpTo
  <2>4. \A i \in 1..n : g[i] = IF i = 1 THEN seqs[i] ELSE g[i - 1] \o seqs[i]
    <3> SUFFICES ASSUME NEW i \in 1..n
                 PROVE  g[i] = IF i = 1 THEN seqs[i] ELSE g[i - 1] \o seqs[i]
      OBVIOUS
    <3>1. i # 1 => i - 1 \in 1..n /\ g[i - 1] = f[i - 1]
      BY <2>1
    <3>2. CASE i < n
      BY <2>1, <2>3, <3>1, <3>2
    <3>3. CASE i = n
      BY <2>1, <3>1, <3>3
    <3> QED
      BY <2>1, <3>2, <3>3
  <2>5. JoinedUpTo(g, seqs, n)
    BY <2>4 DEF JoinedUpTo
  <2> QED
    BY <1>2, <2>5
<1> QED
  BY <1>3, <1>4

\* FlattenSeq is what such a function makes of all sequences.
LEMMA FlattenJoins ==
  ASSUME NEW S, NEW seqs \in Seq(S), Len(seqs) # 0
  PROVE  \E f : JoinedUpTo(f, seqs, Len(seqs)) /\ Batch!FlattenSeq(seqs) = f[Len(seqs)]
<1> DEFINE Body(f, i) == IF i = 1 THEN seqs[i] ELSE f[i - 1] \o seqs[i]
           g == CHOOSE f : f = [i \in 1..Len(seqs) |-> Body(f, i)]
<1>1. Batch!FlattenSeq(seqs) = g[Len(seqs)]
  BY DEF Batch!FlattenSeq
<1>2. \E f : f = [i \in 1..Len(seqs) |-> Body(f, i)]
  <2>1. PICK h : JoinedUpTo(h, seqs, Len(seqs))
    <3>1. Len(seqs) \in Nat
      OBVIOUS
    <3> QED
      BY <3>1, JoinExists
  <2> DEFINE f == [i \in 1..Len(seqs) |-> h[i]]
  <2>2. \A i \in 1..Len(seqs) : i # 1 => i - 1 \in 1..Len(seqs) /\ f[i - 1] = h[i - 1]
    OBVIOUS
  <2>3. \A i \in 1..Len(seqs) : f[i] = Body(f, i)
    <3>1. \A i \in 1..Len(seqs) : f[i] = h[i]
      OBVIOUS
    <3> HIDE DEF f
    <3> QED
      BY <2>1, <2>2, <3>1 DEF JoinedUpTo
  <2>4. f = [i \in 1..Len(seqs) |-> f[i]]
    OBVIOUS
  <2> HIDE DEF f, Body
  <2> QED
    BY <2>3, <2>4
<1>3. g = [i \in 1..Len(seqs) |-> Body(g, i)]
  BY <1>2
<1>4. JoinedUpTo(g, seqs, Len(seqs))
  <2> HIDE DEF g
  <2> QED
    BY <1>3 DEF JoinedUpTo
<1> HIDE DEF g
<1> QED
  BY <1>1, <1>4

Product(A, B) == A \X B

\* Each pair of a row and a column is there once.
LEMMA AllPairsOnce ==
  ASSUME NEW A, NEW B, NEW rows \in Seq(A), NEW columns \in Seq(B),
         Batch!IsInjective(rows), Batch!IsInjective(columns)
  PROVE  /\ Batch!AllPairs(rows, columns) \in Seq(Product(A, B))
         /\ Batch!IsInjective(Batch!AllPairs(rows, columns))
         /\ Batch!ToSet(Batch!AllPairs(rows, columns))
              = Product(Batch!ToSet(rows), Batch!ToSet(columns))
<1> USE DEF Product
<1> DEFINE row(i) == [j \in DOMAIN columns |-> <<rows[i], columns[j]>>]
           seqs == [i \in DOMAIN rows |-> row(i)]
           n == Len(rows)
<1>1. Batch!AllPairs(rows, columns) = Batch!FlattenSeq(seqs)
  BY DEF Batch!AllPairs
<1>2. n \in Nat /\ DOMAIN rows = 1..n /\ DOMAIN columns = 1..Len(columns)
      /\ \A i \in 1..n : rows[i] \in A
      /\ \A j \in 1..Len(columns) : columns[j] \in B
  OBVIOUS
<1>3. ASSUME NEW i \in 1..n
      PROVE  /\ row(i) \in Seq(A \X B) /\ seqs[i] = row(i)
             /\ Batch!IsInjective(row(i))
             /\ Batch!ToSet(row(i)) = {rows[i]} \X Batch!ToSet(columns)
  <2>1. row(i) \in Seq(A \X B) /\ seqs[i] = row(i)
    BY <1>2
  <2>2. Batch!IsInjective(row(i))
    BY <1>2 DEF Batch!IsInjective
  <2>3. Batch!ToSet(row(i)) = {rows[i]} \X Batch!ToSet(columns)
    BY <1>2 DEF Batch!ToSet
  <2> QED
    BY <2>1, <2>2, <2>3
<1>4. seqs \in Seq(Seq(A \X B)) /\ Len(seqs) = n
  <2>1. \A i \in 1..n : row(i) \in Seq(A \X B)
    BY <1>3
  <2> HIDE DEF row
  <2> QED
    BY <1>2, <2>1
<1>5. Batch!ToSet(rows) = {rows[i] : i \in 1..n}
  BY <1>2 DEF Batch!ToSet
<1>6. CASE n = 0
  <2>1. seqs = <<>>
    BY <1>2, <1>6
  <2>2. Batch!AllPairs(rows, columns) = <<>>
    <3> HIDE DEF seqs
    <3> QED
      BY <1>1, <1>4, <1>6, <2>1 DEF Batch!FlattenSeq
  <2>3. Batch!ToSet(rows) = {}
    BY <1>5, <1>6
  <2> HIDE DEF seqs
  <2> QED
    BY <2>2, <2>3 DEF Batch!ToSet, Batch!IsInjective
<1>7. CASE n # 0
  <2>1. PICK f : JoinedUpTo(f, seqs, n) /\ Batch!FlattenSeq(seqs) = f[n]
    <3> HIDE DEF seqs
    <3> QED
      BY <1>4, <1>7, FlattenJoins
  <2> DEFINE Good(k) == /\ f[k] \in Seq(A \X B)
                        /\ Batch!IsInjective(f[k])
                        /\ Batch!ToSet(f[k]) = {rows[i] : i \in 1..k} \X Batch!ToSet(columns)
             T == {k \in 1..n : ~ Good(k)}
  <2>2. SUFFICES T = {}
    <3>1. Good(n)
      <4>1. n \in 1..n /\ n \notin T
        BY <1>2, <1>7, <2>2
      <4> HIDE DEF Good, n
      <4> QED
        BY <4>1
    <3> QED
      BY <1>1, <1>5, <2>1, <3>1
  <2> SUFFICES ASSUME T # {} PROVE FALSE
    OBVIOUS
  <2>3. PICK k \in T : \A l \in T : k <= l
    <3>1. T \in SUBSET Nat
      OBVIOUS
    <3> HIDE DEF T
    <3> QED
      BY <3>1, Least
  <2>4. k \in Nat /\ k \in 1..n /\ ~ Good(k)
    OBVIOUS
  <2>5. f[k] = IF k = 1 THEN row(k) ELSE f[k - 1] \o row(k)
    BY <1>3, <2>1, <2>4 DEF JoinedUpTo
  <2>6. CASE k = 1
    <3>1. f[k] = row(k) /\ {rows[i] : i \in 1..k} = {rows[k]}
      BY <2>5, <2>6
    <3> HIDE DEF row
    <3> QED
      BY <1>3, <2>4, <3>1
  <2>7. CASE k # 1
    <3> DEFINE s == f[k - 1]
               t == row(k)
    <3>1. k - 1 \in 1..n /\ Good(k - 1)
      BY <2>3, <2>4, <2>7
    <3>2. \A i \in 1..(k - 1) : rows[i] # rows[k]
      BY <1>2, <2>4 DEF Batch!IsInjective
    <3>3. /\ s \in Seq(A \X B) /\ t \in Seq(A \X B)
          /\ Batch!IsInjective(s) /\ Batch!IsInjective(t)
          /\ Batch!ToSet(s) = {rows[i] : i \in 1..(k - 1)} \X Batch!ToSet(columns)
          /\ Batch!ToSet(t) = {rows[k]} \X Batch!ToSet(columns)
      BY <1>3, <2>4, <3>1
    <3>4. f[k] = s \o t
      BY <2>5, <2>7
    <3> HIDE DEF s, t
    <3>5. Batch!ToSet(s) \intersect Batch!ToSet(t) = {}
      BY <3>2, <3>3
    <3>6. /\ s \o t \in Seq(A \X B) /\ Batch!IsInjective(s \o t)
          /\ Batch!ToSet(s \o t) = Batch!ToSet(s) \union Batch!ToSet(t)
      BY <3>3, <3>5, ConcatNew
    <3>7. {rows[i] : i \in 1..k} = {rows[i] : i \in 1..(k - 1)} \union {rows[k]}
      BY <2>4
    <3>8. Batch!ToSet(f[k]) = {rows[i] : i \in 1..k} \X Batch!ToSet(columns)
      BY <3>3, <3>4, <3>6, <3>7
    <3> QED
      BY <2>4, <3>4, <3>6, <3>8
  <2> QED
    BY <2>6, <2>7
<1> QED
  BY <1>6, <1>7

----------------------------------------------------------------------------
(* The call of the router: its steps.                                      *)

Calls ==
    [method : Batch!Methods, origins : Seq(BatchLocations), destinations : Seq(BatchLocations)]

\* What the client makes of a call.
Message(c) ==
    [method |-> c.method,
     origins |-> Batch!FirstOfEach(c.origins),
     destinations |-> Batch!FirstOfEach(c.destinations)]

PairsOf(c) == Batch!ToSet(c.origins) \X Batch!ToSet(c.destinations)

Apart(P) == {p \in P : p[1] # p[2]}

\* One route is asked for between two locations.
CallTypes ==
    /\ call \in Calls \union {None}
    /\ (call # None /\ call.method = "GetSingleRoute") =>
           Len(call.origins) = 1 /\ Len(call.destinations) = 1

\* Nobody works on a call that is over, and nothing is left of one that has returned.
AtRest ==
    /\ status # "open" => message = None /\ handler = None
    /\ call = None => status # "open" /\ stream = <<>> /\ response = None

\* The message is on its way, or the server works on it.
AtWork ==
    /\ message # None => message = Message(call) /\ sent = <<>> /\ handler = None
    /\ handler # None => handler = Message(call) /\ todo \in Seq(PairsOf(call))

\* A pair is to be replied to or has been, never both, and never twice.
LeftOrSent ==
    (handler # None /\ call.method = "GetRoutesBatch") =>
        /\ sent \in Seq(PairsOf(call))
        /\ Batch!IsInjective(todo) /\ Batch!IsInjective(sent)
        /\ Batch!ToSet(todo) \intersect Batch!ToSet(sent) = {}
        /\ Apart(Batch!ToSet(todo)) \union Batch!ToSet(sent) = Apart(PairsOf(call))

BatchInv == CallTypes /\ AtRest /\ AtWork /\ LeftOrSent /\ EveryPairRepliedToOnce

\* The pairs of a message are those of the call it is made of, each once.
LEMMA MessagePairs ==
  ASSUME NEW c \in Calls
  PROVE  LET all == Batch!AllPairs(Message(c).origins, Message(c).destinations)
         IN  all \in Seq(PairsOf(c)) /\ Batch!IsInjective(all) /\ Batch!ToSet(all) = PairsOf(c)
<1> DEFINE rows == Batch!FirstOfEach(c.origins)
           columns == Batch!FirstOfEach(c.destinations)
           A == Batch!ToSet(c.origins)
           B == Batch!ToSet(c.destinations)
<1>1. c.origins \in Seq(Location) /\ c.destinations \in Seq(Location)
  <2>1. BatchLocations \subseteq Location
    BY BatchAssumption DEF Batch!BatchAssumption, Location, Batch!Location
  <2>2. c.origins \in Seq(BatchLocations) /\ c.destinations \in Seq(BatchLocations)
    BY DEF Calls
  <2> QED
    BY <2>1, <2>2
<1>2. /\ rows \in Seq(Location) /\ Batch!IsInjective(rows) /\ Batch!ToSet(rows) = A
      /\ columns \in Seq(Location) /\ Batch!IsInjective(columns)
      /\ Batch!ToSet(columns) = B
  BY <1>1, FirstOfEachOnce
<1>3. Message(c).origins = rows /\ Message(c).destinations = columns /\ PairsOf(c) = Product(A, B)
  BY DEF Message, PairsOf, Product
<1> HIDE DEF rows, columns, A, B
<1>4. rows \in Seq(A) /\ columns \in Seq(B)
  BY <1>2 DEF Batch!ToSet
<1>5. Batch!IsInjective(rows) /\ Batch!IsInjective(columns)
  BY <1>2
<1>6. /\ Batch!AllPairs(rows, columns) \in Seq(Product(A, B))
      /\ Batch!IsInjective(Batch!AllPairs(rows, columns))
      /\ Batch!ToSet(Batch!AllPairs(rows, columns))
            = Product(Batch!ToSet(rows), Batch!ToSet(columns))
  BY <1>4, <1>5, AllPairsOnce
<1> QED
  BY <1>2, <1>3, <1>6

\* What is left of a sequence without its head.
LEMMA TailKeeps ==
  ASSUME NEW S, NEW s \in Seq(S), s # <<>>
  PROVE  /\ Tail(s) \in Seq(S) /\ Head(s) \in S
         /\ Batch!ToSet(s) = {Head(s)} \union Batch!ToSet(Tail(s))
         /\ Batch!IsInjective(s) =>
              Batch!IsInjective(Tail(s)) /\ Head(s) \notin Batch!ToSet(Tail(s))
<1> DEFINE t == Tail(s)
           n == Len(s)
<1>1. /\ n \in Nat /\ n >= 1 /\ t \in Seq(S) /\ DOMAIN s = 1..n /\ DOMAIN t = 1..(n - 1)
      /\ s[1] \in S /\ Head(s) = s[1]
  OBVIOUS
<1>2. \A i \in 1..(n - 1) : t[i] = s[i + 1]
  OBVIOUS
<1> HIDE DEF t, n
<1>3. \A i \in 2..n : i - 1 \in 1..(n - 1) /\ s[i] = t[i - 1]
  BY <1>1, <1>2
<1>4. \A i \in 1..(n - 1) : i + 1 \in 2..n
  BY <1>1
<1>5. Batch!ToSet(s) = {s[1]} \union Batch!ToSet(t)
  <2>1. \A i \in 1..n : s[i] \in {s[1]} \union Batch!ToSet(t)
    <3> TAKE i \in 1..n
    <3>1. CASE i = 1
      BY <3>1
    <3>2. CASE i \in 2..n
      BY <1>1, <1>3, <3>2 DEF Batch!ToSet
    <3> QED
      BY <1>1, <3>1, <3>2
  <2>2. \A i \in 1..(n - 1) : t[i] \in Batch!ToSet(s)
    BY <1>1, <1>2 DEF Batch!ToSet
  <2>3. Batch!ToSet(s) \subseteq {s[1]} \union Batch!ToSet(t)
    BY <1>1, <2>1 DEF Batch!ToSet
  <2>4. Batch!ToSet(t) \subseteq Batch!ToSet(s) /\ s[1] \in Batch!ToSet(s)
    BY <1>1, <2>2 DEF Batch!ToSet
  <2> QED
    BY <2>3, <2>4
<1>6. ASSUME Batch!IsInjective(s)
      PROVE  Batch!IsInjective(t) /\ s[1] \notin Batch!ToSet(t)
  <2>1. \A i, j \in 1..n : s[i] = s[j] => i = j
    BY <1>1, <1>6 DEF Batch!IsInjective
  <2>2. \A i, j \in 1..(n - 1) : t[i] = t[j] => i = j
    BY <1>1, <1>2, <2>1
  <2>3. \A i \in 1..(n - 1) : t[i] # s[1]
    BY <1>1, <1>2, <2>1
  <2> QED
    BY <1>1, <2>2, <2>3 DEF Batch!IsInjective, Batch!ToSet
<1> QED
  BY <1>1, <1>5, <1>6 DEF t

\* A call begins.
LEMMA SendKeeps ==
  ASSUME BatchInv, NEW method \in Batch!Methods,
         NEW rows \in Seq(BatchLocations), NEW columns \in Seq(BatchLocations),
         method = "GetSingleRoute" => Len(rows) = 1 /\ Len(columns) = 1,
         Batch!Send(method, rows, columns)
  PROVE  BatchInv'
<1>1. call' \in Calls /\ call'.method = method /\ call'.origins = rows
      /\ call'.destinations = columns
  BY DEF Batch!Send, Calls
<1>2. call' # None
  BY <1>1, BatchAssumption DEF Batch!BatchAssumption, Calls
<1>3. message' = Message(call)' /\ status' = "open" /\ sent' = <<>> /\ handler' = None
  <2>1. call = None /\ handler = None
    BY DEF BatchInv, AtRest, Batch!Send
  <2> QED
    BY <1>1, <2>1 DEF Batch!Send, Message
<1>4. CallTypes'
  BY <1>1 DEF CallTypes
<1>5. AtRest'
  BY <1>2, <1>3 DEF AtRest
<1>6. AtWork' /\ LeftOrSent'
  BY <1>3 DEF AtWork, LeftOrSent
<1>7. EveryPairRepliedToOnce'
  BY <1>3 DEF EveryPairRepliedToOnce, Batch!EveryPairRepliedToOnce
<1> QED
  BY <1>4, <1>5, <1>6, <1>7 DEF BatchInv

\* The server gets the message.
LEMMA ReceiveKeeps ==
  ASSUME BatchInv, Batch!Receive
  PROVE  BatchInv'
<1>1. /\ message # None /\ message = Message(call) /\ sent = <<>> /\ handler = None
      /\ call # None /\ call \in Calls /\ status = "open"
  BY DEF BatchInv, AtWork, AtRest, CallTypes, Batch!Receive
<1>2. /\ handler' = message /\ message' = None /\ call' = call /\ status' = status
      /\ sent' = sent /\ stream' = stream /\ response' = response
      /\ todo' = Batch!AllPairs(message.origins, message.destinations)
  BY DEF Batch!Receive, Batch!client
<1>3. Message(call)' = Message(call) /\ PairsOf(call)' = PairsOf(call)
  BY <1>2 DEF Message, PairsOf
<1>4. /\ todo' \in Seq(PairsOf(call)) /\ Batch!IsInjective(todo')
      /\ Batch!ToSet(todo') = PairsOf(call)
  BY <1>1, <1>2, MessagePairs
<1>5. CallTypes' /\ AtRest'
  BY <1>1, <1>2 DEF BatchInv, CallTypes, AtRest
<1>6. AtWork'
  BY <1>1, <1>2, <1>3, <1>4 DEF AtWork
<1>7. LeftOrSent'
  <2>1. Batch!ToSet(sent') = {} /\ sent' \in Seq(PairsOf(call)) /\ Batch!IsInjective(sent')
    BY <1>1, <1>2 DEF Batch!ToSet, Batch!IsInjective
  <2> QED
    BY <1>3, <1>4, <2>1 DEF LeftOrSent
<1>8. EveryPairRepliedToOnce'
  BY <1>1, <1>2 DEF EveryPairRepliedToOnce, Batch!EveryPairRepliedToOnce
<1> QED
  BY <1>5, <1>6, <1>7, <1>8 DEF BatchInv

\* The server replies to the next pair, or leaves it out.
LEMMA WriteKeeps ==
  ASSUME BatchInv, Batch!WriteRoute
  PROVE  BatchInv'
<1> DEFINE p == Head(todo)
<1>1. /\ handler # None /\ todo # <<>> /\ handler = Message(call) /\ todo \in Seq(PairsOf(call))
      /\ message = None /\ status = "open" /\ call # None /\ call \in Calls
  BY DEF BatchInv, AtWork, AtRest, CallTypes, Batch!WriteRoute
<1>2. /\ todo' = Tail(todo) /\ handler' = handler /\ message' = message /\ call' = call
      /\ status' = status /\ response' = response
  BY DEF Batch!WriteRoute, Batch!client
<1>3. Message(call)' = Message(call) /\ PairsOf(call)' = PairsOf(call)
  BY <1>2 DEF Message, PairsOf
<1>4. /\ Tail(todo) \in Seq(PairsOf(call)) /\ p \in PairsOf(call)
      /\ Batch!ToSet(todo) = {p} \union Batch!ToSet(Tail(todo))
      /\ Batch!IsInjective(todo) =>
            Batch!IsInjective(Tail(todo)) /\ p \notin Batch!ToSet(Tail(todo))
  BY <1>1, TailKeeps
<1>5. CallTypes' /\ AtRest'
  BY <1>1, <1>2 DEF BatchInv, CallTypes, AtRest
<1>6. AtWork'
  BY <1>1, <1>2, <1>3, <1>4 DEF AtWork
<1>7. LeftOrSent'
  <2> SUFFICES ASSUME call.method = "GetRoutesBatch"
               PROVE  /\ sent' \in Seq(PairsOf(call))
                      /\ Batch!IsInjective(todo') /\ Batch!IsInjective(sent')
                      /\ Batch!ToSet(todo') \intersect Batch!ToSet(sent') = {}
                      /\ Apart(Batch!ToSet(todo')) \union Batch!ToSet(sent')
                            = Apart(PairsOf(call))
    BY <1>2, <1>3 DEF LeftOrSent
  <2>1. /\ sent \in Seq(PairsOf(call))
        /\ Batch!IsInjective(todo) /\ Batch!IsInjective(sent)
        /\ Batch!ToSet(todo) \intersect Batch!ToSet(sent) = {}
        /\ Apart(Batch!ToSet(todo)) \union Batch!ToSet(sent) = Apart(PairsOf(call))
    BY <1>1 DEF BatchInv, LeftOrSent
  <2>2. handler.method = "GetRoutesBatch"
    BY <1>1 DEF Message
  <2>3. CASE p[1] = p[2]
    <3>1. sent' = sent
      BY <2>2, <2>3 DEF Batch!WriteRoute, Batch!SameLocation
    <3>2. Apart(Batch!ToSet(todo)) = Apart(Batch!ToSet(Tail(todo)))
      BY <1>4, <2>3 DEF Apart
    <3> QED
      BY <1>2, <1>4, <2>1, <3>1, <3>2
  <2>4. CASE p[1] # p[2]
    <3>1. sent' = Append(sent, <<p[1], p[2]>>)
      BY <2>2, <2>4 DEF Batch!WriteRoute, Batch!SameLocation
    <3>2. <<p[1], p[2]>> = p
      BY <1>4 DEF PairsOf
    <3>3. p \notin Batch!ToSet(sent)
      BY <1>4, <2>1
    <3>4. /\ Append(sent, p) \in Seq(PairsOf(call)) /\ Batch!IsInjective(Append(sent, p))
          /\ Batch!ToSet(Append(sent, p)) = Batch!ToSet(sent) \union {p}
      <4> DEFINE P == PairsOf(call)
      <4>1. sent \in Seq(P) /\ p \in P /\ Batch!IsInjective(sent)
        BY <1>4, <2>1
      <4> HIDE DEF p, P
      <4>2. /\ Append(sent, p) \in Seq(P) /\ Batch!IsInjective(Append(sent, p))
            /\ Batch!ToSet(Append(sent, p)) = Batch!ToSet(sent) \union {p}
        BY <3>3, <4>1, AppendNew
      <4> QED
        BY <4>2 DEF P
    <3>5. Apart(Batch!ToSet(todo)) = Apart(Batch!ToSet(Tail(todo))) \union {p}
      BY <1>4, <2>4 DEF Apart
    <3> QED
      BY <1>2, <1>4, <2>1, <3>1, <3>2, <3>4, <3>5
  <2> QED
    BY <2>3, <2>4
<1>8. EveryPairRepliedToOnce'
  BY <1>1, <1>2 DEF EveryPairRepliedToOnce, Batch!EveryPairRepliedToOnce
<1> QED
  BY <1>5, <1>6, <1>7, <1>8 DEF BatchInv

\* The server returns, or it throws, or the connection breaks.
LEMMA EndKeeps ==
  ASSUME BatchInv, Batch!HandlerReturns \/ Batch!HandlerThrows \/ Batch!ConnectionBreaks
  PROVE  BatchInv'
<1>1. call # None /\ status = "open"
  BY DEF BatchInv, AtRest, Batch!HandlerReturns, Batch!HandlerThrows, Batch!ConnectionBreaks
<1>2. message' = None
  BY DEF BatchInv, AtWork, Batch!HandlerReturns, Batch!HandlerThrows, Batch!ConnectionBreaks
<1>3. /\ handler' = None /\ call' = call /\ response' = response /\ sent' = sent
      /\ status' \in {"OK", "UNKNOWN", "UNAVAILABLE"}
  BY DEF Batch!HandlerReturns, Batch!HandlerThrows, Batch!ConnectionBreaks, Batch!client
<1>4. CallTypes' /\ AtRest' /\ AtWork' /\ LeftOrSent'
  BY <1>1, <1>2, <1>3 DEF BatchInv, CallTypes, AtRest, AtWork, LeftOrSent
<1>5. EveryPairRepliedToOnce'
  <2>1. CASE Batch!HandlerReturns
    <3>1. Batch!ToSet(todo) = {} /\ handler # None
      BY <2>1 DEF Batch!HandlerReturns, Batch!ToSet
    <3>2. call.method = "GetRoutesBatch" =>
            /\ Batch!IsInjective(sent)
            /\ Apart({}) \union Batch!ToSet(sent) = Apart(PairsOf(call))
      BY <3>1 DEF BatchInv, LeftOrSent
    <3> QED
      BY <1>3, <3>2 DEF EveryPairRepliedToOnce, Batch!EveryPairRepliedToOnce, Apart, PairsOf
  <2>2. CASE Batch!HandlerThrows \/ Batch!ConnectionBreaks
    BY <2>2 DEF EveryPairRepliedToOnce, Batch!EveryPairRepliedToOnce,
       Batch!HandlerThrows, Batch!ConnectionBreaks
  <2> QED
    BY <2>1, <2>2
<1> QED
  BY <1>4, <1>5 DEF BatchInv

\* The client reads a reply, returns or throws.
LEMMA ClientKeeps ==
  ASSUME BatchInv, Batch!Consume \/ UNCHANGED batchVars
  PROVE  BatchInv'
<1>1. /\ UNCHANGED <<handler, todo, sent, message, status>>
      /\ \/ UNCHANGED call /\ (call = None => UNCHANGED <<stream, response>>)
         \/ status # "open" /\ stream' = <<>> /\ call' = None /\ response' = None
  <2>1. CASE Batch!Read
    BY <2>1 DEF BatchInv, AtRest, Batch!Read, Batch!server
  <2>2. CASE Batch!Throw \/ Batch!ReturnRoutes
    BY <2>2 DEF Batch!Throw, Batch!ReturnRoutes, Batch!Return, Batch!server
  <2>3. CASE UNCHANGED batchVars
    BY <2>3 DEF batchVars
  <2> QED
    BY <2>1, <2>2, <2>3 DEF Batch!Consume
<1>2. CASE UNCHANGED call /\ (call = None => UNCHANGED <<stream, response>>)
  <2>1. Message(call)' = Message(call) /\ PairsOf(call)' = PairsOf(call)
    BY <1>2 DEF Message, PairsOf
  <2>2. CallTypes' /\ AtRest' /\ AtWork'
    BY <1>1, <1>2, <2>1 DEF BatchInv, CallTypes, AtRest, AtWork
  <2>3. LeftOrSent'
    BY <1>1, <1>2, <2>1 DEF BatchInv, LeftOrSent
  <2>4. EveryPairRepliedToOnce'
    BY <1>1, <1>2 DEF BatchInv, EveryPairRepliedToOnce, Batch!EveryPairRepliedToOnce
  <2> QED
    BY <2>2, <2>3, <2>4 DEF BatchInv
<1>3. CASE status # "open" /\ stream' = <<>> /\ call' = None /\ response' = None
  BY <1>1, <1>3 DEF BatchInv, CallTypes, AtRest, AtWork, LeftOrSent,
     EveryPairRepliedToOnce, Batch!EveryPairRepliedToOnce
<1> QED
  BY <1>1, <1>2, <1>3

\* Every step of the router keeps the invariant of a call.
LEMMA BatchStep ==
  ASSUME BatchInv, [RouterNext]_routerVars
  PROVE  BatchInv'
<1>1. Batch!Next \/ UNCHANGED batchVars
  BY PartSteps
<1>2. CASE Batch!Call
  <2>1. CASE \E a, b \in BatchLocations : Batch!getSingleRouteDetails(a, b)
    <3>1. PICK a \in BatchLocations, b \in BatchLocations : Batch!getSingleRouteDetails(a, b)
      BY <2>1
    <3>2. Batch!Send("GetSingleRoute", <<a>>, <<b>>)
      BY <3>1 DEF Batch!getSingleRouteDetails
    <3>3. /\ <<a>> \in Seq(BatchLocations) /\ <<b>> \in Seq(BatchLocations)
          /\ Len(<<a>>) = 1 /\ Len(<<b>>) = 1 /\ "GetSingleRoute" \in Batch!Methods
      BY DEF Batch!Methods
    <3> QED
      BY <3>2, <3>3, SendKeeps
  <2>2. CASE \E rows, columns \in Batch!Lists : Batch!getRouteDetailsMatrix(rows, columns)
    <3>1. PICK rows \in Batch!Lists, columns \in Batch!Lists :
             Batch!getRouteDetailsMatrix(rows, columns)
      BY <2>2
    <3>2. Batch!Send("GetRoutesBatch", rows, columns)
      BY <3>1 DEF Batch!getRouteDetailsMatrix
    <3>3. /\ rows \in Seq(BatchLocations) /\ columns \in Seq(BatchLocations)
          /\ "GetRoutesBatch" \in Batch!Methods
      BY BatchAssumption DEF Batch!Lists, Batch!Methods, Batch!BatchAssumption
    <3> QED
      BY <3>2, <3>3, SendKeeps
  <2> QED
    BY <1>2, <2>1, <2>2 DEF Batch!Call
<1>3. CASE Batch!Serve
  BY <1>3, ReceiveKeeps, WriteKeeps, EndKeeps DEF Batch!Serve
<1> QED
  BY <1>1, <1>2, <1>3, EndKeeps, ClientKeeps DEF Batch!Next

\* What a call of the router keeps to.
LEMMA BatchInvariant == RouterSpec => []BatchInv
<1>1. RouterInit => BatchInv
  BY DEF RouterInit, Batch!Init, BatchInv, CallTypes, AtRest, AtWork, LeftOrSent,
     EveryPairRepliedToOnce, Batch!EveryPairRepliedToOnce
<1>2. BatchInv /\ [RouterNext]_routerVars => BatchInv'
  BY BatchStep
<1> QED
  BY <1>1, <1>2, PTL DEF RouterSpec

\* If a call of getRouteDetailsMatrix ends with OK, the server has replied to each
\* pair of two locations of its lists, and to none twice.
THEOREM RepliedToOnce == RouterSpec => []EveryPairRepliedToOnce
<1>1. BatchInv => EveryPairRepliedToOnce
  BY DEF BatchInv
<1> QED
  BY <1>1, BatchInvariant, PTL

----------------------------------------------------------------------------
(* The call of the router: what it returns.                                *)

\* What a location of the call may be taken for: encodeLocation writes latitude and
\* longitude one after the other, and several locations may have the same key.
SameKey(c, loc) ==
    {l \in Batch!ToSet(c.origins) \union Batch!ToSet(c.destinations) :
        Batch!encodeLocation(l) = Batch!encodeLocation(loc)}

\* What a provider, or the server, may say of the way from a to b.
Details(c, a, b) ==
    {d \in {Batch!route(m, n) : m \in SameKey(c, a), n \in SameKey(c, b)}
           \union {Batch!zero(m, n) : m \in SameKey(c, a), n \in SameKey(c, b)}
           \union {Batch!infinity(m, n) : m \in SameKey(c, a), n \in SameKey(c, b)} :
        d.kind = "zero" => Batch!encodeLocation(a) = Batch!encodeLocation(b)}

Fitting(c) ==
    UNION {{Batch!OK(p[1], p[2], d) : d \in Details(c, p[1], p[2])} : p \in PairsOf(c)}

\* A reply is to a pair of the call, and its route is of what this pair is taken for.
RepliesFit ==
    call # None =>
        /\ stream \in Seq(Fitting(call))
        /\ response # None => response \in Fitting(call)

RepliesInv == RepliesFit /\ RoutesInPlace

\* The fields of a reply.
LEMMA FittingReply ==
  ASSUME NEW c, NEW r \in Fitting(c)
  PROVE  /\ r.origin \in Batch!ToSet(c.origins)
         /\ r.destination \in Batch!ToSet(c.destinations)
         /\ r.details \in Details(c, r.origin, r.destination)
<1>1. PICK p \in PairsOf(c) : \E d \in Details(c, p[1], p[2]) : r = Batch!OK(p[1], p[2], d)
  BY DEF Fitting
<1>2. p[1] \in Batch!ToSet(c.origins) /\ p[2] \in Batch!ToSet(c.destinations)
  BY DEF PairsOf
<1> QED
  BY <1>1, <1>2 DEF Batch!OK

\* A reply to a pair of the call, with what may be said of it, fits the call.
LEMMA ReplyFits ==
  ASSUME NEW c, NEW p \in PairsOf(c), NEW d \in Details(c, p[1], p[2])
  PROVE  Batch!OK(p[1], p[2], d) \in Fitting(c)
BY DEF Fitting

\* The matrix takes a location of the call for one of the call with its key.
LEMMA InMatrixSameKey ==
  ASSUME call \in Calls, handler = Message(call),
         NEW loc \in Batch!ToSet(call.origins) \union Batch!ToSet(call.destinations)
  PROVE  Batch!InMatrix(loc) \in SameKey(call, loc)
<1> DEFINE rows == Batch!FirstOfEach(call.origins)
           columns == Batch!FirstOfEach(call.destinations)
           all == rows \o columns
           key(l) == Batch!encodeLocation(l)
           same == {i \in DOMAIN all : key(all[i]) = key(loc)}
<1>1. Batch!InMatrix(loc) = all[Batch!Min(same)]
  BY DEF Batch!InMatrix, Message
<1>2. BatchLocations \subseteq Location
  BY BatchAssumption DEF Batch!BatchAssumption, Location, Batch!Location
<1>3. call.origins \in Seq(BatchLocations) /\ call.destinations \in Seq(BatchLocations)
  BY DEF Calls
<1>4. call.origins \in Seq(Location) /\ call.destinations \in Seq(Location)
  BY <1>2, <1>3
<1>5. /\ rows \in Seq(Location) /\ Batch!ToSet(rows) = Batch!ToSet(call.origins)
      /\ columns \in Seq(Location)
      /\ Batch!ToSet(columns) = Batch!ToSet(call.destinations)
  BY <1>4, FirstOfEachOnce
<1> HIDE DEF rows, columns, key
<1>6. /\ DOMAIN all = 1..(Len(rows) + Len(columns))
      /\ Len(rows) \in Nat /\ Len(columns) \in Nat
      /\ DOMAIN rows = 1..Len(rows) /\ DOMAIN columns = 1..Len(columns)
      /\ \A i \in 1..Len(rows) : all[i] = rows[i]
      /\ \A i \in 1..Len(columns) : all[Len(rows) + i] = columns[i]
  BY <1>5
<1>7. \A i \in DOMAIN all : all[i] \in Batch!ToSet(call.origins)
                             \union Batch!ToSet(call.destinations)
  <2> TAKE i \in DOMAIN all
  <2>1. CASE i <= Len(rows)
    <3>1. all[i] = rows[i] /\ i \in DOMAIN rows
      BY <1>6, <2>1
    <3>2. rows[i] \in Batch!ToSet(rows)
      BY <3>1 DEF Batch!ToSet
    <3> QED
      BY <1>5, <3>1, <3>2
  <2>2. CASE i > Len(rows)
    <3>1. i - Len(rows) \in 1..Len(columns) /\ Len(rows) + (i - Len(rows)) = i
      BY <1>6, <2>2
    <3>2. all[i] = columns[i - Len(rows)]
      BY <1>6, <3>1
    <3> QED
      BY <1>5, <1>6, <3>1, <3>2 DEF Batch!ToSet
  <2> QED
    BY <1>6, <2>1, <2>2
<1>8. \E i \in DOMAIN all : all[i] = loc
  <2>1. CASE loc \in Batch!ToSet(rows)
    BY <1>6, <2>1 DEF Batch!ToSet
  <2>2. CASE loc \in Batch!ToSet(columns)
    <3>1. PICK i \in 1..Len(columns) : columns[i] = loc
      BY <1>6, <2>2 DEF Batch!ToSet
    <3>2. Len(rows) + i \in DOMAIN all /\ all[Len(rows) + i] = loc
      BY <1>6, <3>1
    <3> QED
      BY <3>2
  <2> QED
    BY <1>5, <2>1, <2>2
<1>9. Batch!Min(same) \in same
  <2>1. same \in SUBSET Nat /\ same # {}
    BY <1>6, <1>8
  <2> HIDE DEF same
  <2>2. \E i \in same : \A j \in same : i <= j
    BY <2>1, Least
  <2> QED
    BY <2>2 DEF Batch!Min
<1> QED
  BY <1>1, <1>7, <1>9 DEF SameKey, key

\* The server's reply to a pair fits the call.
LEMMA WrittenFits ==
  ASSUME BatchInv, RepliesFit, Batch!WriteRoute
  PROVE  stream' \in Seq(Fitting(call))
<1> DEFINE p == Head(todo)
<1>1. /\ handler = Message(call) /\ todo \in Seq(PairsOf(call)) /\ todo # <<>>
      /\ call # None /\ call \in Calls
  BY DEF BatchInv, AtWork, AtRest, CallTypes, Batch!WriteRoute
<1>2. p \in PairsOf(call)
  BY <1>1, TailKeeps
<1>3. stream \in Seq(Fitting(call))
  BY <1>1 DEF RepliesFit
<1>4. /\ p[1] \in SameKey(call, p[1]) /\ p[2] \in SameKey(call, p[2])
      /\ Batch!InMatrix(p[1]) \in SameKey(call, p[1])
      /\ Batch!InMatrix(p[2]) \in SameKey(call, p[2])
  <2>1. p[1] \in Batch!ToSet(call.origins) /\ p[2] \in Batch!ToSet(call.destinations)
    BY <1>2 DEF PairsOf
  <2> HIDE DEF p
  <2> QED
    BY <1>1, <2>1, InMatrixSameKey DEF SameKey
<1>5. \A m \in SameKey(call, p[1]), n \in SameKey(call, p[2]) :
          Batch!DirectAnswers(m, n) \subseteq Details(call, p[1], p[2])
  <2> SUFFICES ASSUME NEW m \in SameKey(call, p[1]), NEW n \in SameKey(call, p[2]),
                      NEW d \in Batch!DirectAnswers(m, n)
               PROVE  d \in Details(call, p[1], p[2])
    OBVIOUS
  <2> HIDE DEF p
  <2>1. CASE d = Batch!route(m, n) \/ d = Batch!infinity(m, n)
    BY <2>1 DEF Details, Batch!route, Batch!infinity
  <2>2. CASE d = Batch!zero(m, n) /\ m = n
    BY <2>2 DEF Details, SameKey
  <2> QED
    BY <2>1, <2>2 DEF Batch!DirectAnswers, Batch!processError
<1>6. Batch!FullMatrixAnswers(p[1], p[2]) \subseteq Details(call, p[1], p[2])
  <2> DEFINE m == Batch!InMatrix(p[1])
             n == Batch!InMatrix(p[2])
  <2>1. Batch!FullMatrixAnswers(p[1], p[2])
            = IF m = n THEN {Batch!zero(m, n)} ELSE Batch!DirectAnswers(m, n)
    BY DEF Batch!FullMatrixAnswers
  <2>2. m \in SameKey(call, p[1]) /\ n \in SameKey(call, p[2])
    BY <1>4
  <2>3. Batch!DirectAnswers(m, n) \subseteq Details(call, p[1], p[2])
    BY <1>5, <2>2
  <2> HIDE DEF p, m, n
  <2>4. m = n => Batch!zero(m, n) \in Details(call, p[1], p[2])
    BY <2>2 DEF Details, SameKey
  <2> QED
    BY <2>1, <2>3, <2>4
<1>7. stream' = stream \/ \E d \in Details(call, p[1], p[2]) :
                            stream' = Append(stream, Batch!OK(p[1], p[2], d))
  <2>1. CASE handler.method = "GetSingleRoute"
    BY <1>4, <1>5, <2>1 DEF Batch!WriteRoute
  <2>2. CASE handler.method = "GetRoutesBatch" /\ Batch!SameLocation(p[1], p[2])
    BY <2>2 DEF Batch!WriteRoute
  <2>3. CASE handler.method = "GetRoutesBatch" /\ ~ Batch!SameLocation(p[1], p[2])
    BY <1>6, <2>3 DEF Batch!WriteRoute
  <2> QED
    BY <1>1, <2>1, <2>2, <2>3 DEF Message, Calls, Batch!Methods
<1> HIDE DEF p
<1>8. \A d \in Details(call, p[1], p[2]) : Batch!OK(p[1], p[2], d) \in Fitting(call)
  BY <1>2, ReplyFits
<1> QED
  BY <1>3, <1>7, <1>8

\* What the client returns is in its place.
LEMMA ReturnedInPlace ==
  ASSUME BatchInv, RepliesFit, Batch!ReturnRoutes
  PROVE  RoutesInPlace'
<1> DEFINE r == response
           key(l) == Batch!encodeLocation(l)
<1>1. /\ call # None /\ call \in Calls /\ r \in Fitting(call)
      /\ call.method = "GetSingleRoute" => Len(call.origins) = 1 /\ Len(call.destinations) = 1
  BY DEF BatchInv, CallTypes, RepliesFit, Batch!ReturnRoutes
<1>2. /\ r.origin \in Batch!ToSet(call.origins)
      /\ r.destination \in Batch!ToSet(call.destinations)
      /\ r.details \in Details(call, r.origin, r.destination)
  BY <1>1, FittingReply
<1>3. /\ r.details.kind = "route" => /\ r.details.from \in SameKey(call, r.origin)
                                    /\ r.details.to \in SameKey(call, r.destination)
      /\ r.details.kind = "zero" => key(r.origin) = key(r.destination)
  <2> HIDE DEF r
  <2> QED
    BY <1>2 DEF Details, Batch!route, Batch!zero, Batch!infinity
<1>4. call.origins \in Seq(Location) /\ call.destinations \in Seq(Location)
  <2>1. BatchLocations \subseteq Location
    BY BatchAssumption DEF Batch!BatchAssumption, Location, Batch!Location
  <2>2. call.origins \in Seq(BatchLocations) /\ call.destinations \in Seq(BatchLocations)
    BY <1>1 DEF Calls
  <2> QED
    BY <2>1, <2>2
<1> DEFINE Places(routes) ==
             \A i \in DOMAIN routes : \A j \in DOMAIN routes[i] :
                /\ routes[i][j].kind = "route" =>
                      /\ routes[i][j].from \in SameKey(call, call.origins[i])
                      /\ routes[i][j].to \in SameKey(call, call.destinations[j])
                /\ routes[i][j].kind = "zero" =>
                      i = j \/ key(call.origins[i]) = key(call.destinations[j])
<1>5. ASSUME NEW ending, NEW routes, Batch!Return(ending, routes), Places(routes)
      PROVE  RoutesInPlace'
  <2>1. result' = [call |-> call, ending |-> ending, routes |-> routes]
    BY <1>5 DEF Batch!Return
  <2> QED
    BY <1>5, <2>1 DEF RoutesInPlace, Batch!RoutesInPlace, SameKey
<1>6. CASE call.method = "GetSingleRoute" /\ Batch!Return("returned", <<<<r.details>>>>)
  <2> DEFINE routes == <<<<r.details>>>>
  <2>1. r.origin = call.origins[1] /\ r.destination = call.destinations[1]
    BY <1>1, <1>2, <1>4, <1>6 DEF Batch!ToSet
  <2>2. \A i \in DOMAIN routes : \A j \in DOMAIN routes[i] :
            i = 1 /\ j = 1 /\ routes[i][j] = r.details
    OBVIOUS
  <2> HIDE DEF r, routes, key
  <2>3. Places(routes)
    BY <1>3, <2>1, <2>2
  <2> QED
    BY <1>5, <1>6, <2>3 DEF routes
<1>7. ASSUME NEW past, Batch!Return("returned", Batch!Fill(r, past))
      PROVE  RoutesInPlace'
  <2> DEFINE rows == Batch!Positions(call.origins, r.origin)
             columns == Batch!Positions(call.destinations, r.destination)
             routes == Batch!Fill(r, past)
  <2> HIDE DEF r, key
  <2> SUFFICES ASSUME NEW i \in DOMAIN routes, NEW j \in DOMAIN routes[i]
               PROVE  /\ routes[i][j].kind = "route" =>
                            /\ routes[i][j].from \in SameKey(call, call.origins[i])
                            /\ routes[i][j].to \in SameKey(call, call.destinations[j])
                      /\ routes[i][j].kind = "zero" =>
                            i = j \/ key(call.origins[i]) = key(call.destinations[j])
    <3>1. Places(routes)
      OBVIOUS
    <3> QED
      BY <1>5, <1>7, <3>1
  <2>1. /\ DOMAIN routes = DOMAIN call.origins
        /\ DOMAIN routes[i] = DOMAIN call.destinations
        /\ routes[i][j] =
             IF ~ (i \in rows /\ j \in columns) THEN Batch!Missing(i, j, past)
             ELSE IF i = j THEN Batch!zero(r.origin, r.destination) ELSE r.details
    BY DEF Batch!Fill
  <2>2. i \in DOMAIN call.origins /\ j \in DOMAIN call.destinations
    BY <2>1
  <2> HIDE DEF routes, rows, columns
  <2>3. CASE ~ (i \in rows /\ j \in columns)
    BY <2>1, <2>3 DEF Batch!Missing, Batch!infinity
  <2>4. CASE i \in rows /\ j \in columns /\ i = j
    BY <2>1, <2>4 DEF Batch!zero
  <2>5. CASE i \in rows /\ j \in columns /\ i # j
    <3>1. routes[i][j] = r.details
      BY <2>1, <2>5
    <3>2. /\ call.origins[i] \in Location /\ call.destinations[j] \in Location
          /\ r.origin \in Location /\ r.destination \in Location
      BY <1>2, <1>4, <2>2 DEF Batch!ToSet
    <3>3. /\ Batch!buildLocationKey(call.origins[i]) = Batch!buildLocationKey(r.origin)
          /\ Batch!buildLocationKey(call.destinations[j])
               = Batch!buildLocationKey(r.destination)
      BY <2>2, <2>5 DEF rows, columns, Batch!Positions, Batch!keyed
    <3>4. call.origins[i] = r.origin /\ call.destinations[j] = r.destination
      BY <3>2, <3>3, LocationKeysDiffer
    <3> QED
      BY <1>3, <3>1, <3>4
  <2> QED
    BY <2>3, <2>4, <2>5
<1>8. CASE Batch!Return("crashed", <<>>)
  BY <1>5, <1>8
<1> HIDE DEF r
<1> QED
  BY <1>6, <1>7, <1>8 DEF Batch!ReturnRoutes, r

\* Every step keeps the replies to their places.
LEMMA RepliesStep ==
  ASSUME BatchInv, RepliesInv, [RouterNext]_routerVars
  PROVE  RepliesInv'
<1>0. ASSUME UNCHANGED call
      PROVE  Fitting(call)' = Fitting(call)
  BY <1>0 DEF Fitting, PairsOf, Details, SameKey
<1>1. Batch!Next \/ UNCHANGED batchVars
  BY PartSteps
<1>2. ASSUME UNCHANGED <<call, response, stream>>
      PROVE  RepliesFit'
  BY <1>0, <1>2 DEF RepliesInv, RepliesFit
<1>3. ASSUME UNCHANGED result
      PROVE  RoutesInPlace'
  BY <1>3 DEF RepliesInv, RoutesInPlace, Batch!RoutesInPlace
<1>4. ASSUME NEW method, NEW rows, NEW columns, Batch!Send(method, rows, columns)
      PROVE  RepliesInv'
  <2>1. stream' = <<>> /\ response' = None /\ result' = None
    BY <1>4 DEF BatchInv, AtRest, Batch!Send
  <2> QED
    BY <2>1 DEF RepliesInv, RepliesFit, RoutesInPlace, Batch!RoutesInPlace
<1>5. CASE Batch!Call
  BY <1>4, <1>5 DEF Batch!Call, Batch!getSingleRouteDetails, Batch!getRouteDetailsMatrix
<1>6. CASE Batch!Receive \/ Batch!HandlerReturns \/ Batch!HandlerThrows
  BY <1>2, <1>3, <1>6 DEF Batch!Receive, Batch!HandlerReturns, Batch!HandlerThrows,
     Batch!client, RepliesInv
<1>7. CASE Batch!WriteRoute
  <2>1. UNCHANGED <<call, response, result>>
    BY <1>7 DEF Batch!WriteRoute, Batch!client
  <2>2. stream' \in Seq(Fitting(call)) /\ Fitting(call)' = Fitting(call)
    BY <1>0, <1>7, <2>1, WrittenFits DEF RepliesInv
  <2>3. RepliesFit'
    BY <2>1, <2>2 DEF RepliesInv, RepliesFit
  <2> QED
    BY <1>3, <2>1, <2>3 DEF RepliesInv
<1>8. CASE Batch!ConnectionBreaks
  <2>1. UNCHANGED <<call, response, result>>
    BY <1>8 DEF Batch!ConnectionBreaks, Batch!client
  <2>2. ASSUME call # None
        PROVE  stream' \in Seq(Fitting(call))
    <3>1. stream \in Seq(Fitting(call))
      BY <2>2 DEF RepliesInv, RepliesFit
    <3>2. PICK n \in 0..Len(stream) : stream' = SubSeq(stream, 1, n)
      BY <1>8 DEF Batch!ConnectionBreaks
    <3> QED
      BY <3>1, <3>2
  <2>3. RepliesFit'
    BY <1>0, <2>1, <2>2 DEF RepliesInv, RepliesFit
  <2> QED
    BY <1>3, <2>1, <2>3 DEF RepliesInv
<1>9. CASE Batch!Read
  <2>1. /\ UNCHANGED <<call, result>> /\ stream # <<>> /\ response' = Head(stream)
        /\ stream' = Tail(stream)
    BY <1>9 DEF Batch!Read
  <2>2. call # None => Head(stream) \in Fitting(call) /\ Tail(stream) \in Seq(Fitting(call))
    BY <2>1, TailKeeps DEF RepliesInv, RepliesFit
  <2>3. RepliesFit'
    BY <1>0, <2>1, <2>2 DEF RepliesFit
  <2> QED
    BY <1>3, <2>1, <2>3 DEF RepliesInv
<1>10. CASE Batch!Throw
  <2>1. call' = None /\ result' = [call |-> call, ending |-> "thrown", routes |-> <<>>]
    BY <1>10 DEF Batch!Throw, Batch!Return
  <2> QED
    BY <2>1 DEF RepliesInv, RepliesFit, RoutesInPlace, Batch!RoutesInPlace
<1>11. CASE Batch!ReturnRoutes
  <2>1. call' = None
    BY <1>11 DEF Batch!ReturnRoutes, Batch!Return
  <2> QED
    BY <1>11, <2>1, ReturnedInPlace DEF RepliesInv, RepliesFit
<1>12. CASE UNCHANGED batchVars
  BY <1>2, <1>3, <1>12 DEF batchVars, RepliesInv
<1> QED
  BY <1>1, <1>5, <1>6, <1>7, <1>8, <1>9, <1>10, <1>11, <1>12
     DEF Batch!Next, Batch!Serve, Batch!Consume

\* Whichever reply the client has read last, wherever the connection broke and whatever
\* is read past the end of the origins, a route that a call returns leads from what the
\* server's matrix takes the origin of its row for to what it takes the destination of
\* its column for, so it is the one of its pair if their keys differ from all others;
\* and a way off the diagonal is zero only between two that the matrix takes for one.
THEOREM ReturnedWhereAsked == RouterSpec => []RoutesInPlace
<1>1. RouterInit => RepliesInv
  BY DEF RouterInit, Batch!Init, RepliesInv, RepliesFit, RoutesInPlace, Batch!RoutesInPlace
<1>2. BatchInv /\ RepliesInv /\ [RouterNext]_routerVars => RepliesInv'
  BY RepliesStep
<1>3. RepliesInv => RoutesInPlace
  BY DEF RepliesInv
<1> QED
  BY <1>1, <1>2, <1>3, BatchInvariant, PTL DEF RouterSpec
=============================================================================
