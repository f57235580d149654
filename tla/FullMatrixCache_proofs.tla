----------------------- MODULE FullMatrixCache_proofs -----------------------
(***************************************************************************)
(* Safety of the matrix that is calculated as a whole, for any number of   *)
(* callers, any locations and any key two of them may share: reads within  *)
(* its bounds, entries in their places, and nothing calculated twice;      *)
(* and, if no two locations share a key and none is added while somebody   *)
(* asks, every caller gets an answer to its own question; and no call      *)
(* stays where it is for ever.                                             *)
(***************************************************************************)
EXTENDS FullMatrixCache, TLAPS

\* The lock is held by the one caller that stores a location or has made a matrix,
\* and while a location is stored the matrix does not pass for initialized.
LockHeld ==
    \A c \in Callers :
        /\ pc[c] \in {"store", "publish"} <=> cache_update_lock = c
        /\ pc[c] = "store" => ~is_initialized /\ adding \in Locations
        /\ pc[c] = "publish" => cache.size = Known

\* Indices given to callers are those of known locations.
IdsKnown ==
    /\ \A loc \in added : encodeLocation(loc) \in KnownKeys
    /\ \A c \in Callers :
        pc[c] \in {"test", "initialize", "publish"} => ids[c] \in Pairs(Known)

\* When locations are added only while nobody reads, a caller that may read finds
\* the matrix initialized, and only it has a pointer to it.
PointersCurrent ==
    /\ \A c \in Callers : pointer[c] = "current" => pc[c] = "copy"
    /\ ~AddsWhileReading => \A c \in Callers : pc[c] \in {"load", "copy"} => is_initialized

IInv ==
    /\ TypeOK
    /\ LockHeld
    /\ IdsKnown
    /\ PointersCurrent
    /\ MatrixCoversKnown
    /\ ReadsInBounds
    /\ EntriesInPlace
    /\ NobodyReadsFreed

----------------------------------------------------------------------------
\* An empty matrix, and nobody at work.
LEMMA InitIInv == Init => IInv
<1> SUFFICES ASSUME Init PROVE IInv
  OBVIOUS
<1> USE NobodyAssumption DEF Init
<1>1. Known = 0
  BY DEF Known
<1>2. TypeOK
  <2>1. known_locations \in Seq(Locations) /\ KnownKeys = {} /\ cache.size = 0
    BY DEF KnownKeys
  <2>2. pc \in [Callers -> Pc] /\ pointer \in [Callers -> {"none", "current", "freed"}]
    BY DEF Pc
  <2>3. ids \in [Callers -> Nat \X Nat]
    OBVIOUS
  <2>4. is_initialized \in BOOLEAN /\ cache_update_lock \in Callers \union {Nobody}
        /\ added \subseteq Locations
    OBVIOUS
  <2>5. 0 \in 0..Known
    BY <1>1
  <2> QED
    BY <2>1, <2>2, <2>3, <2>4, <2>5 DEF TypeOK
<1>3. LockHeld /\ IdsKnown /\ PointersCurrent /\ NobodyReadsFreed
  BY DEF LockHeld, IdsKnown, PointersCurrent, NobodyReadsFreed
<1>4. MatrixCoversKnown /\ ReadsInBounds
  BY DEF MatrixCoversKnown, ReadsInBounds
<1>5. EntriesInPlace
  BY DEF EntriesInPlace, Pairs
<1> QED
  BY <1>2, <1>3, <1>4, <1>5 DEF IInv

\* A location takes the lock, and clears the flag.
LEMMA AddStep ==
    ASSUME IInv, NEW c \in Callers, NEW loc \in Locations, AddLocation(c, loc)
    PROVE  IInv'
<1> USE NobodyAssumption DEF AddLocation, Goto, IInv
<1>1. Known' = Known /\ KnownKeys' = KnownKeys
  BY DEF Known, KnownKeys
<1>2. TypeOK'
  BY <1>1 DEF TypeOK, Pc
<1>3. LockHeld'
  BY <1>1 DEF LockHeld, TypeOK
<1>4. IdsKnown'
  BY <1>1 DEF IdsKnown, TypeOK
<1>5. PointersCurrent'
  BY DEF PointersCurrent, TypeOK, Reading
<1>6. MatrixCoversKnown' /\ ReadsInBounds' /\ NobodyReadsFreed'
  BY DEF MatrixCoversKnown, ReadsInBounds, NobodyReadsFreed, TypeOK
<1>7. EntriesInPlace'
  BY DEF EntriesInPlace
<1> QED
  BY <1>2, <1>3, <1>4, <1>5, <1>6, <1>7

\* It is stored under the lock: the indices given before stay what they were.
LEMMA StoreStep ==
    ASSUME IInv, NEW c \in Callers, StoreLocation(c)
    PROVE  IInv'
<1> DEFINE key == encodeLocation(adding)
<1>1. /\ pc[c] = "store" /\ pc' = [pc EXCEPT ![c] = "idle"]
      /\ added' = added \union {adding} /\ adding' = NoRequest
      /\ cache_update_lock' = Nobody
      /\ UNCHANGED <<is_initialized, cache, ids, pointer, request, reply>>
  BY DEF StoreLocation, Goto
<1>2. cache_update_lock = c /\ ~is_initialized /\ adding \in Locations
      /\ \A d \in Callers : d # c => pc[d] \notin {"store", "publish"}
  BY <1>1 DEF IInv, LockHeld
<1>3. /\ Known \in Nat /\ Known' \in Nat /\ Known <= Known'
      /\ known_locations' \in Seq(Locations)
      /\ \A i \in 1..Known : known_locations'[i] = known_locations[i]
      /\ KnownKeys \subseteq KnownKeys' /\ key \in KnownKeys'
      /\ \A k \in KnownKeys' : known_locations_mapping'[k] \in 1..Known'
  <2>1. known_locations \in Seq(Locations)
        /\ \A k \in KnownKeys : known_locations_mapping[k] \in 1..Known
    BY DEF IInv, TypeOK
  <2>2. CASE key \in KnownKeys
    BY <2>1, <2>2 DEF StoreLocation, Known, KnownKeys
  <2>3. CASE key \notin KnownKeys
    <3>1. known_locations' = Append(known_locations, adding)
          /\ known_locations_mapping' =
                 [k \in KnownKeys \union {key} |->
                     IF k = key THEN Known + 1 ELSE known_locations_mapping[k]]
      BY <2>3 DEF StoreLocation
    <3>2. Known' = Known + 1 /\ Known \in Nat /\ known_locations' \in Seq(Locations)
          /\ \A i \in 1..Known : known_locations'[i] = known_locations[i]
      BY <1>2, <2>1, <3>1 DEF Known
    <3>3. KnownKeys' = KnownKeys \union {key}
      BY <3>1 DEF KnownKeys
    <3>4. \A k \in KnownKeys' : known_locations_mapping'[k] \in 1..Known'
      BY <2>1, <3>1, <3>2, <3>3
    <3> QED
      BY <3>2, <3>3, <3>4
  <2> QED
    BY <2>2, <2>3
<1> HIDE DEF key
<1>4. Pairs(Known) \subseteq Pairs(Known')
  BY <1>3 DEF Pairs
<1>5. TypeOK'
  BY <1>1, <1>2, <1>3 DEF IInv, TypeOK, Pc
<1>6. LockHeld'
  BY <1>1, <1>2, NobodyAssumption DEF IInv, LockHeld, TypeOK
<1>7. IdsKnown'
  BY <1>1, <1>3, <1>4 DEF IInv, IdsKnown, TypeOK, key
<1>8. PointersCurrent' /\ MatrixCoversKnown' /\ ReadsInBounds' /\ NobodyReadsFreed'
  BY <1>1, <1>2 DEF IInv, PointersCurrent, MatrixCoversKnown, ReadsInBounds,
                    NobodyReadsFreed, TypeOK
<1>9. EntriesInPlace'
  <2>1. \A p \in Pairs(cache.size) : p[1] \in 1..Known /\ p[2] \in 1..Known
    BY <1>3 DEF IInv, TypeOK, Pairs
  <2> QED
    BY <1>1, <1>3, <2>1 DEF IInv, EntriesInPlace
<1> QED
  BY <1>5, <1>6, <1>7, <1>8, <1>9 DEF IInv

\* What callers do with what they have leaves matrix and locations alone.
Leaves(c) == UNCHANGED <<locations, matrix>> /\ pc' = [pc EXCEPT ![c] = pc'[c]]

LEMMA ReadStep ==
    ASSUME IInv, NEW c \in Callers, Leaves(c),
           pc[c] \notin {"store", "publish"}, pc'[c] \in Pc \ {"store", "publish"},
           ids' = [ids EXCEPT ![c] = ids'[c]], ids'[c] \in Nat \X Nat,
           pc'[c] \in {"test", "initialize"} => ids'[c] \in Pairs(Known),
           pc'[c] \in {"load", "copy"} => ids'[c] \in Pairs(cache.size)
                                          /\ (is_initialized \/ pc[c] = "load"),
           pointer' = [pointer EXCEPT ![c] = pointer'[c]],
           \/ pointer'[c] = "none"
           \/ pointer'[c] = "current" /\ pc'[c] = "copy"
           \/ pointer'[c] = pointer[c] /\ pc[c] # "copy"
    PROVE  IInv'
<1> USE DEF Leaves, locations, matrix, IInv
<1>1. Known' = Known /\ KnownKeys' = KnownKeys
  BY DEF Known, KnownKeys
<1>2. TypeOK'
  <2>1. pc' \in [Callers -> Pc]
    BY DEF TypeOK
  <2>2. ids' \in [Callers -> Nat \X Nat]
    BY DEF TypeOK
  <2>3. pointer' \in [Callers -> {"none", "current", "freed"}]
    <3>1. pointer'[c] \in {"none", "current", "freed"}
      BY DEF TypeOK
    <3> QED
      BY <3>1 DEF TypeOK
  <2> QED
    BY <1>1, <2>1, <2>2, <2>3 DEF TypeOK
<1>3. LockHeld'
  BY <1>1 DEF LockHeld, TypeOK
<1>4. IdsKnown'
  BY <1>1 DEF IdsKnown, TypeOK
<1>5. PointersCurrent'
  BY DEF PointersCurrent, TypeOK
<1>6. MatrixCoversKnown' /\ ReadsInBounds' /\ NobodyReadsFreed'
  BY <1>1 DEF MatrixCoversKnown, ReadsInBounds, NobodyReadsFreed, TypeOK
<1>7. EntriesInPlace'
  BY DEF EntriesInPlace
<1> QED
  BY <1>2, <1>3, <1>4, <1>5, <1>6, <1>7

\* The new matrix has the old one in it, and a row for every known location.
LEMMA CalculateStep ==
    ASSUME IInv, NEW c \in Callers, Calculate(c)
    PROVE  /\ IInv'
           /\ \A p \in Pairs(cache.size) :
                  p \in Pairs(cache'.size) /\ cache'.at[p] = cache.at[p]
<1>1. /\ pc[c] = "initialize" /\ pc' = [pc EXCEPT ![c] = "publish"]
      /\ cache_update_lock = Nobody /\ cache_update_lock' = c /\ ~is_initialized
      /\ UNCHANGED <<known_locations, known_locations_mapping, adding, added,
                     is_initialized, ids>>
      /\ pointer' = [d \in Callers |-> IF pointer[d] = "current" THEN "freed" ELSE pointer[d]]
  BY DEF Calculate, Goto, locations
<1>2. PICK failed \in SUBSET MayFail :
          /\ ErrorPolicy = "ON_ERROR_THROW" => failed = {}
          /\ cache' = [size |-> Known, at |-> [p \in Pairs(Known) |-> Entry(p, failed)]]
  BY DEF Calculate
<1>3. cache'.size = Known /\ \A p \in Pairs(Known) : cache'.at[p] = Entry(p, failed)
  BY <1>2
<1>4. cache.size \in 0..Known /\ Known \in Nat
  BY DEF IInv, TypeOK, Known
<1>5. \A p \in Pairs(cache.size) : p \in Pairs(Known) /\ Kept(p)
  BY <1>4 DEF Pairs, Kept
<1>6. \A p \in Pairs(cache.size) : p \in Pairs(cache'.size) /\ cache'.at[p] = cache.at[p]
  BY <1>3, <1>5 DEF Entry
<1>7. Known' = Known /\ KnownKeys' = KnownKeys
  BY <1>1 DEF Known, KnownKeys
<1>8. \A d \in Callers : pc[d] \notin {"store", "publish"}
  BY <1>1, NobodyAssumption DEF IInv, LockHeld
<1>9. TypeOK'
  <2>1. pc' \in [Callers -> Pc] /\ ids' \in [Callers -> Nat \X Nat]
    BY <1>1 DEF IInv, TypeOK, Pc
  <2>2. pointer' \in [Callers -> {"none", "current", "freed"}]
    BY <1>1 DEF IInv, TypeOK
  <2> QED
    BY <1>1, <1>3, <1>4, <1>7, <2>1, <2>2 DEF IInv, TypeOK
<1>10. LockHeld'
  BY <1>1, <1>3, <1>7, <1>8 DEF IInv, LockHeld, TypeOK
<1>11. IdsKnown'
  BY <1>1, <1>7 DEF IInv, IdsKnown, TypeOK
<1>12. PointersCurrent'
  BY <1>1 DEF IInv, PointersCurrent, TypeOK
<1>13. MatrixCoversKnown'
  BY <1>3, <1>7 DEF MatrixCoversKnown
<1>14. ReadsInBounds'
  <2>1. Pairs(cache.size) \subseteq Pairs(cache'.size)
    BY <1>6
  <2> QED
    BY <1>1, <2>1 DEF IInv, ReadsInBounds, TypeOK
<1>15. NobodyReadsFreed'
  <2>1. CASE AddsWhileReading
    BY <2>1 DEF NobodyReadsFreed
  <2>2. CASE ~AddsWhileReading
    <3>1. \A d \in Callers : pointer[d] # "current"
      BY <1>1, <2>2 DEF IInv, PointersCurrent
    <3> QED
      BY <1>1, <3>1 DEF IInv, NobodyReadsFreed, TypeOK
  <2> QED
    BY <2>1, <2>2
<1>16. EntriesInPlace'
  <2> SUFFICES ASSUME NEW p \in Pairs(Known)
               PROVE  /\ Entry(p, failed).from = known_locations[p[1]]
                      /\ Entry(p, failed).to = known_locations[p[2]]
                      /\ Entry(p, failed).kind = "zero" <=> p[1] = p[2]
    BY <1>1, <1>3 DEF EntriesInPlace
  <2>1. CASE Kept(p)
    <3>1. p \in Pairs(cache.size)
      BY <1>4, <2>1 DEF Pairs, Kept
    <3> QED
      BY <2>1, <3>1 DEF IInv, EntriesInPlace, Entry
  <2>2. CASE ~Kept(p) /\ p[1] = p[2]
    BY <2>2 DEF Entry, zero
  <2>3. CASE ~Kept(p) /\ p[1] # p[2] /\ p \in failed
    <3>1. ErrorPolicy = "ON_ERROR_RETURN_INFINITY"
      BY <1>2, <2>3, PolicyAssumption DEF ErrorPolicies
    <3> QED
      BY <2>3, <3>1 DEF Entry, processError, infinity
  <2>4. CASE ~Kept(p) /\ p[1] # p[2] /\ p \notin failed
    BY <2>4 DEF Entry, route
  <2> QED
    BY <2>1, <2>2, <2>3, <2>4
<1> QED
  BY <1>6, <1>9, <1>10, <1>11, <1>12, <1>13, <1>14, <1>15, <1>16 DEF IInv

\* The flag is set under the lock, when the matrix is in place.
LEMMA PublishStep ==
    ASSUME IInv, NEW c \in Callers, Publish(c)
    PROVE  IInv'
<1>1. /\ pc[c] = "publish" /\ pc' = [pc EXCEPT ![c] = "load"]
      /\ is_initialized' /\ cache_update_lock' = Nobody
      /\ UNCHANGED <<known_locations, known_locations_mapping, adding, added,
                     cache, ids, pointer>>
      /\ is_initialized' \in BOOLEAN
  BY DEF Publish, Goto, locations
<1>2. Known' = Known /\ KnownKeys' = KnownKeys
  BY <1>1 DEF Known, KnownKeys
<1>3. cache_update_lock = c /\ cache.size = Known /\ ids[c] \in Pairs(Known)
      /\ \A d \in Callers : d # c => pc[d] \notin {"store", "publish"}
  BY <1>1 DEF IInv, LockHeld, IdsKnown
<1>4. TypeOK'
  BY <1>1, <1>2 DEF IInv, TypeOK, Pc
<1>5. LockHeld'
  BY <1>1, <1>2, <1>3, NobodyAssumption DEF IInv, LockHeld, TypeOK
<1>6. IdsKnown' /\ PointersCurrent' /\ MatrixCoversKnown' /\ ReadsInBounds' /\ NobodyReadsFreed'
  BY <1>1, <1>2, <1>3 DEF IInv, IdsKnown, PointersCurrent, MatrixCoversKnown,
                          ReadsInBounds, NobodyReadsFreed, TypeOK
<1>7. EntriesInPlace'
  BY <1>1 DEF IInv, EntriesInPlace
<1> QED
  BY <1>4, <1>5, <1>6, <1>7 DEF IInv

----------------------------------------------------------------------------
\* Every other step of a caller is one that leaves matrix and locations alone.
LEMMA CallerStep ==
    ASSUME IInv, NEW c \in Callers,
           \/ \E a, b \in Locations : GetRoute(c, a, b) \/ GetRouteByIndex(c, a, b)
           \/ FindLocations(c) \/ AskProvider(c)
           \/ TestInitialized(c) \/ AlreadyInitialized(c) \/ FailToCalculate(c)
           \/ LoadPointer(c) \/ CopyEntry(c)
    PROVE  IInv' /\ UNCHANGED cache
<1> USE DEF Goto, Finish, Ask
<1>11. UNCHANGED cache
  BY DEF GetRoute, GetRouteByIndex, FindLocations, AskProvider, TestInitialized,
         AlreadyInitialized, FailToCalculate, LoadPointer, CopyEntry, matrix
<1> SUFFICES IInv'
  BY <1>11
<1>0. /\ ids \in [Callers -> Nat \X Nat] /\ pc \in [Callers -> Pc]
      /\ pointer \in [Callers -> {"none", "current", "freed"}]
      /\ Known \in Nat /\ cache.size \in 0..Known
      /\ \A k \in KnownKeys : known_locations_mapping[k] \in 1..Known
      /\ is_initialized => cache.size = Known
  BY DEF IInv, TypeOK, Known, MatrixCoversKnown
<1>1. \A x, y : x \in 1..Known /\ y \in 1..Known => <<x, y>> \in Pairs(Known)
                                                  /\ <<x, y>> \in Nat \X Nat
  BY <1>0 DEF Pairs
<1>2. ASSUME NEW a \in Locations, NEW b \in Locations, GetRoute(c, a, b) PROVE IInv'
  <2>1. Leaves(c) /\ pc[c] = "idle" /\ pc'[c] = "find" /\ ids' = ids /\ pointer' = pointer
    BY <1>0, <1>2 DEF GetRoute, Leaves
  <2> QED
    BY <1>0, <2>1, ReadStep DEF Pc
<1>3. ASSUME NEW a \in Locations, NEW b \in Locations, GetRouteByIndex(c, a, b) PROVE IInv'
  <2>1. Leaves(c) /\ pc[c] = "idle" /\ pc'[c] = "test" /\ pointer' = pointer
        /\ ids' = [ids EXCEPT ![c] = <<IdOf(a), IdOf(b)>>]
    BY <1>0, <1>3 DEF GetRouteByIndex, Leaves
  <2>2. IdOf(a) \in 1..Known /\ IdOf(b) \in 1..Known
    BY <1>0, <1>3 DEF GetRouteByIndex, IInv, IdsKnown, IdOf
  <2> QED
    BY <1>0, <1>1, <2>1, <2>2, ReadStep DEF Pc
<1>4. CASE FindLocations(c)
  <2>1. CASE /\ {encodeLocation(request[c].from), encodeLocation(request[c].to)} \subseteq KnownKeys
             /\ pc[c] = "find" /\ pc' = [pc EXCEPT ![c] = "test"]
             /\ ids' = [ids EXCEPT ![c] = <<IdOf(request[c].from), IdOf(request[c].to)>>]
    <3>1. IdOf(request[c].from) \in 1..Known /\ IdOf(request[c].to) \in 1..Known
      BY <1>0, <2>1 DEF IdOf
    <3>2. Leaves(c) /\ pointer' = pointer
      BY <1>0, <1>4, <2>1 DEF FindLocations, Leaves
    <3> QED
      BY <1>0, <1>1, <2>1, <3>1, <3>2, ReadStep DEF Pc
  <2>2. CASE pc[c] = "find" /\ pc' = [pc EXCEPT ![c] = "engine"] /\ UNCHANGED ids
    <3>1. Leaves(c) /\ pointer' = pointer
      BY <1>0, <1>4, <2>2 DEF FindLocations, Leaves
    <3> QED
      BY <1>0, <2>2, <3>1, ReadStep DEF Pc
  <2> QED
    BY <1>4, <2>1, <2>2 DEF FindLocations
<1>5. CASE AskProvider(c)
  <2>1. Leaves(c) /\ pc[c] = "engine" /\ pc'[c] = "idle" /\ ids' = ids /\ pointer' = pointer
    BY <1>0, <1>5 DEF AskProvider, Leaves
  <2> QED
    BY <1>0, <2>1, ReadStep DEF Pc
<1>6. CASE TestInitialized(c)
  <2>1. Leaves(c) /\ pc[c] = "test" /\ ids' = ids /\ pointer' = pointer
        /\ pc'[c] = IF is_initialized THEN "load" ELSE "initialize"
    BY <1>0, <1>6 DEF TestInitialized, Leaves
  <2>2. ids[c] \in Pairs(Known)
    BY <2>1 DEF IInv, IdsKnown
  <2> QED
    BY <1>0, <2>1, <2>2, ReadStep DEF Pc
<1>7. CASE AlreadyInitialized(c)
  <2>1. Leaves(c) /\ pc[c] = "initialize" /\ ids' = ids /\ pointer' = pointer
        /\ pc'[c] = "load" /\ is_initialized
    BY <1>0, <1>7 DEF AlreadyInitialized, Leaves
  <2>2. ids[c] \in Pairs(Known)
    BY <2>1 DEF IInv, IdsKnown
  <2> QED
    BY <1>0, <2>1, <2>2, ReadStep DEF Pc
<1>8. CASE FailToCalculate(c)
  <2>1. Leaves(c) /\ pc[c] = "initialize" /\ pc'[c] = "idle" /\ ids' = ids /\ pointer' = pointer
    BY <1>0, <1>8 DEF FailToCalculate, Leaves
  <2> QED
    BY <1>0, <2>1, ReadStep DEF Pc
<1>9. CASE LoadPointer(c)
  <2>1. Leaves(c) /\ pc[c] = "load" /\ pc'[c] = "copy" /\ ids' = ids
        /\ pointer' = [pointer EXCEPT ![c] = "current"]
    BY <1>0, <1>9 DEF LoadPointer, Leaves
  <2>2. ids[c] \in Pairs(cache.size)
    BY <2>1 DEF IInv, ReadsInBounds
  <2> QED
    BY <1>0, <2>1, <2>2, ReadStep DEF Pc
<1>10. CASE CopyEntry(c)
  <2>1. Leaves(c) /\ pc[c] = "copy" /\ pc'[c] = "idle"
        /\ ids' = [ids EXCEPT ![c] = <<0, 0>>] /\ pointer' = [pointer EXCEPT ![c] = "none"]
    BY <1>0, <1>10 DEF CopyEntry, Leaves
  <2> QED
    BY <1>0, <2>1, ReadStep DEF Pc
<1> QED
  BY <1>2, <1>3, <1>4, <1>5, <1>6, <1>7, <1>8, <1>9, <1>10

\* What was calculated is kept by a step.
KeptByStep == \A p \in Pairs(cache.size) : p \in Pairs(cache'.size) /\ cache'.at[p] = cache.at[p]

LEMMA NextIInv == IInv /\ [Next]_vars => IInv' /\ KeptByStep
<1> SUFFICES ASSUME IInv, [Next]_vars PROVE IInv' /\ KeptByStep
  OBVIOUS
<1>1. ASSUME NEW c \in Callers, Begin(c) PROVE IInv' /\ KeptByStep
  <2>1. CASE \E loc \in Locations : AddLocation(c, loc)
    BY <2>1, AddStep DEF AddLocation, KeptByStep
  <2>2. CASE \E a, b \in Locations : GetRoute(c, a, b) \/ GetRouteByIndex(c, a, b)
    BY <2>2, CallerStep DEF KeptByStep
  <2> QED
    BY <1>1, <2>1, <2>2 DEF Begin
<1>2. ASSUME NEW c \in Callers, Step(c) PROVE IInv' /\ KeptByStep
  <2>1. CASE StoreLocation(c)
    BY <2>1, StoreStep DEF StoreLocation, KeptByStep
  <2>2. CASE Calculate(c)
    BY <2>2, CalculateStep DEF KeptByStep
  <2>3. CASE Publish(c)
    BY <2>3, PublishStep DEF Publish, KeptByStep
  <2>4. CASE FindLocations(c) \/ AskProvider(c) \/ TestInitialized(c)
             \/ AlreadyInitialized(c) \/ FailToCalculate(c) \/ LoadPointer(c) \/ CopyEntry(c)
    BY <2>4, CallerStep DEF KeptByStep
  <2> QED
    BY <1>2, <2>1, <2>2, <2>3, <2>4 DEF Step
<1>3. CASE UNCHANGED vars
  <2>1. Known' = Known /\ KnownKeys' = KnownKeys
    BY <1>3 DEF vars, locations, Known, KnownKeys
  <2>2. TypeOK' /\ LockHeld' /\ IdsKnown' /\ PointersCurrent'
    BY <1>3, <2>1 DEF vars, locations, matrix, callers, IInv, TypeOK, LockHeld, IdsKnown,
                      PointersCurrent
  <2>3. MatrixCoversKnown' /\ ReadsInBounds' /\ EntriesInPlace' /\ NobodyReadsFreed' /\ KeptByStep
    BY <1>3, <2>1 DEF vars, locations, matrix, callers, IInv, MatrixCoversKnown,
                      ReadsInBounds, EntriesInPlace, NobodyReadsFreed, KeptByStep
  <2> QED
    BY <2>2, <2>3 DEF IInv
<1> QED
  BY <1>1, <1>2, <1>3 DEF Next

LEMMA Inductive == Spec => []IInv
BY InitIInv, NextIInv, PTL DEF Spec

----------------------------------------------------------------------------
\* The types of the variables hold in every run of the matrix.
THEOREM TypeCorrect == Spec => []TypeOK
<1>1. IInv => TypeOK
  BY DEF IInv
<1> QED
  BY <1>1, Inductive, PTL

\* A matrix that passes for initialized has a row for every known location.
THEOREM Covering == Spec => []MatrixCoversKnown
<1>1. IInv => MatrixCoversKnown
  BY DEF IInv
<1> QED
  BY <1>1, Inductive, PTL

\* No caller reads the matrix beyond its bounds, though none holds a lock.
THEOREM InBounds == Spec => []ReadsInBounds
<1>1. IInv => ReadsInBounds
  BY DEF IInv
<1> QED
  BY <1>1, Inductive, PTL

\* Every entry is in its place, with zero on the diagonal and nowhere else.
THEOREM InPlace == Spec => []EntriesInPlace
<1>1. IInv => EntriesInPlace
  BY DEF IInv
<1> QED
  BY <1>1, Inductive, PTL

\* Nobody reads a freed matrix if locations are added only while nobody reads.
THEOREM NotFreed == Spec => []NobodyReadsFreed
<1>1. IInv => NobodyReadsFreed
  BY DEF IInv
<1> QED
  BY <1>1, Inductive, PTL

\* Nothing is calculated twice: an entry stays what it is for good.
THEOREM Keeping == Spec => EntriesKept
<1>1. IInv /\ [Next]_vars =>
        [\A p \in Pairs(cache.size) :
            p \in Pairs(cache'.size) /\ cache'.at[p] = cache.at[p]]_vars
  BY NextIInv DEF KeptByStep
<1> QED
  BY <1>1, Inductive, PTL DEF Spec, EntriesKept

----------------------------------------------------------------------------
(* What callers are answered.                                              *)

\* No two of the locations asked for have one key.  encodeLocation does not see to it,
\* and a matrix answers for the location that was added first.
KeysDiffer ==
    \A a, b \in Locations : encodeLocation(a) = encodeLocation(b) => a = b

\* A question and an answer are not what stands for none.
NoneApart ==
    /\ \A a, b \in Locations : [from |-> a, to |-> b] # NoRequest
    /\ \A a, b \in Locations :
           NoReply \notin {Thrown, route(a, b), zero(a, b), infinity(a, b)}

Requests == {[from |-> a, to |-> b] : a \in Locations, b \in Locations}

\* The caller has asked for a route and has no answer yet, and has its indices.
AtWork(c) == pc[c] \notin {"idle", "store"}
Indexed(c) == pc[c] \in {"test", "initialize", "publish", "load", "copy"}

\* What the entry at a pair of indices answers.
Of(p) == [from |-> known_locations[p[1]], to |-> known_locations[p[2]]]

\* A location is found at its own index.
Findable ==
    \A loc \in Locations :
        encodeLocation(loc) \in KnownKeys => known_locations[IdOf(loc)] = loc

\* A caller that is at work has asked, and its indices are those of its locations;
\* one that is not has been answered.
Asking ==
    /\ request \in [Callers -> Requests \union {NoRequest}]
    /\ DOMAIN reply = Callers
    /\ \A c \in Callers :
        /\ AtWork(c) => request[c] \in Requests /\ reply[c] = NoReply
        /\ ~AtWork(c) => ~DM!Pending(c)
        /\ Indexed(c) => request[c] = Of(ids[c])

\* Every entry answers for its row and its column.
EntriesAnswer ==
    \A p \in Pairs(cache.size) : cache.at[p] \in DM!Answers(Of(p)) \ {NoReply}

AInv == Findable /\ Asking /\ EntriesAnswer

\* Questions between the same two locations have the same answers, one of which is
\* the route and one what the policy says.
LEMMA AnswersTo ==
    ASSUME NoneApart, NEW a \in Locations, NEW b \in Locations
    PROVE  LET q == [from |-> a, to |-> b] IN
           /\ q \in Requests /\ q # NoRequest
           /\ route(a, b) \in DM!Answers(q) \ {NoReply}
           /\ processError(ErrorPolicy, a, b) \in DM!Answers(q) \ {NoReply}
           /\ a = b => zero(a, b) \in DM!Answers(q) \ {NoReply}
<1> DEFINE q == [from |-> a, to |-> b]
<1>1. q \in Requests /\ q # NoRequest
  BY DEF NoneApart, Requests
<1>2. NoReply \notin {route(a, b), zero(a, b), processError(ErrorPolicy, a, b)}
  BY DEF NoneApart, processError
<1>3. /\ DM!route(a, b) = route(a, b) /\ DM!zero(a, b) = zero(a, b)
      /\ DM!processError(ErrorPolicy, a, b) = processError(ErrorPolicy, a, b)
  BY DEF DM!route, DM!zero, DM!processError, DM!infinity, DM!Thrown,
         route, zero, processError, infinity, Thrown
<1>4. q.from = a /\ q.to = b
  OBVIOUS
<1>5. DM!Answers(q) = {route(a, b), processError(ErrorPolicy, a, b)}
                          \union {zero(a, b) : same \in {a} \intersect {b}}
  BY <1>3, <1>4 DEF DM!Answers
<1> QED
  BY <1>1, <1>2, <1>5

\* A step that is none of the abstract matrix: nobody asks and nobody is answered.
LEMMA Stutters ==
    ASSUME IInv, AInv, NEW c \in Callers,
           UNCHANGED <<known_locations, known_locations_mapping, cache, request, reply>>,
           pc' = [pc EXCEPT ![c] = pc'[c]], AtWork(c)' <=> AtWork(c),
           Indexed(c)' => Indexed(c), UNCHANGED ids
    PROVE  AInv' /\ UNCHANGED DM!matrix
<1> USE DEF AInv
<1>1. /\ pc \in [Callers -> Pc]
      /\ \A d \in Callers : AtWork(d)' <=> AtWork(d)
      /\ \A d \in Callers : Indexed(d)' => Indexed(d)
  BY DEF IInv, TypeOK, AtWork, Indexed
<1>2. KnownKeys' = KnownKeys /\ \A loc : IdOf(loc)' = IdOf(loc)
  BY DEF KnownKeys, IdOf
<1>3. \A p : Of(p)' = Of(p)
  BY DEF Of
<1>4. Findable'
  BY <1>2 DEF Findable
<1>5. Asking'
  BY <1>1, <1>3 DEF Asking, DM!Pending
<1>6. EntriesAnswer'
  BY <1>3 DEF EntriesAnswer, DM!Answers
<1> QED
  BY <1>4, <1>5, <1>6 DEF DM!matrix

\* A question is one of the abstract matrix, whether its locations are still to be
\* found or not.
LEMMA AskAnswers ==
    ASSUME IInv, AInv, NoneApart, NEW c \in Callers,
           NEW a \in Locations, NEW b \in Locations,
           GetRoute(c, a, b) \/ GetRouteByIndex(c, a, b)
    PROVE  AInv' /\ DM!Next
<1> USE DEF AInv
<1> DEFINE q == [from |-> a, to |-> b]
<1>1. /\ pc[c] = "idle" /\ pc' = [pc EXCEPT ![c] = pc'[c]] /\ pc'[c] \in {"find", "test"}
      /\ request' = [request EXCEPT ![c] = q]
      /\ reply' = [reply EXCEPT ![c] = NoReply]
      /\ UNCHANGED <<known_locations, known_locations_mapping, cache>>
      /\ ids' = [ids EXCEPT ![c] = ids'[c]]
  <2>1. pc \in [Callers -> Pc] /\ ids \in [Callers -> Nat \X Nat]
    BY DEF IInv, TypeOK
  <2>2. CASE GetRoute(c, a, b)
    BY <2>1, <2>2 DEF GetRoute, Ask, Goto, locations, matrix
  <2>3. CASE GetRouteByIndex(c, a, b)
    BY <2>1, <2>3 DEF GetRouteByIndex, Ask, Goto, locations, matrix
  <2> QED
    BY <2>2, <2>3
<1>2. q \in Requests /\ q # NoRequest
  BY AnswersTo
<1>3. pc'[c] = "test" => ids'[c] = <<IdOf(a), IdOf(b)>> /\ {a, b} \subseteq added
  BY DEF GetRoute, GetRouteByIndex, Ask, Goto, IInv, TypeOK
<1>4. pc'[c] = "test" => q = Of(ids'[c])
  BY <1>3 DEF IInv, IdsKnown, Findable, Of
<1>5. KnownKeys' = KnownKeys /\ \A loc : IdOf(loc)' = IdOf(loc)
  BY <1>1 DEF KnownKeys, IdOf
<1>6. Findable'
  BY <1>1, <1>5 DEF Findable
<1>7. Asking'
  <2>2. pc \in [Callers -> Pc] /\ ids \in [Callers -> Nat \X Nat]
    BY DEF IInv, TypeOK
  <2> HIDE DEF q
  <2>3. request' \in [Callers -> Requests \union {NoRequest}] /\ DOMAIN reply' = Callers
    BY <1>1, <1>2 DEF Asking
  <2>4. AtWork(c)' /\ request'[c] = q /\ reply'[c] = NoReply
    BY <1>1, <2>2 DEF AtWork, Asking
  <2>5. Indexed(c)' => pc'[c] = "test"
    BY <1>1 DEF Indexed
  <2>6. ASSUME NEW d \in Callers, d # c
        PROVE  /\ pc'[d] = pc[d] /\ request'[d] = request[d] /\ reply'[d] = reply[d]
               /\ ids'[d] = ids[d]
    BY <1>1, <2>2, <2>6 DEF Asking
  <2>7. \A d \in Callers : Of(ids[d])' = [from |-> known_locations[ids'[d][1]],
                                          to |-> known_locations[ids'[d][2]]]
    BY <1>1 DEF Of
  <2>8. Indexed(c)' => request'[c] = Of(ids[c])'
    BY <1>4, <2>4, <2>5, <2>7 DEF Of
  <2>9. ASSUME NEW d \in Callers, d # c
        PROVE  /\ AtWork(d)' => request'[d] \in Requests /\ reply'[d] = NoReply
               /\ ~AtWork(d)' => ~DM!Pending(d)'
               /\ Indexed(d)' => request'[d] = Of(ids[d])'
    BY <2>6, <2>7, <2>9 DEF Asking, AtWork, Indexed, DM!Pending, Of
  <2> QED
    BY <1>2, <2>3, <2>4, <2>8, <2>9 DEF Asking
<1>8. EntriesAnswer'
  <2>1. \A p : Of(p)' = Of(p)
    BY <1>1 DEF Of
  <2> QED
    BY <1>1, <2>1 DEF EntriesAnswer, DM!Answers
<1>9. DM!Ask(c)
  <2>1. ~DM!Pending(c)
    BY <1>1 DEF Asking, AtWork
  <2> QED
    BY <1>1, <2>1 DEF DM!Ask
<1> QED
  BY <1>6, <1>7, <1>8, <1>9 DEF DM!Next

\* An answer is returned.
LEMMA FinishAnswers ==
    ASSUME IInv, AInv, NoneApart, NEW c \in Callers, AtWork(c),
           UNCHANGED <<known_locations, known_locations_mapping, cache, request>>,
           pc' = [pc EXCEPT ![c] = "idle"], ids' = [ids EXCEPT ![c] = ids'[c]],
           NEW r \in DM!Answers(request[c]) \ {NoReply}, reply' = [reply EXCEPT ![c] = r]
    PROVE  AInv' /\ DM!Next
<1> USE DEF AInv
<1>1. KnownKeys' = KnownKeys /\ \A loc : IdOf(loc)' = IdOf(loc)
  BY DEF KnownKeys, IdOf
<1>2. Findable'
  BY <1>1 DEF Findable
<1>3. EntriesAnswer'
  <2>1. \A p : Of(p)' = Of(p)
    BY DEF Of
  <2> QED
    BY <2>1 DEF EntriesAnswer, DM!Answers
<1>4. Asking'
  <2>1. pc \in [Callers -> Pc] /\ ids \in [Callers -> Nat \X Nat]
    BY DEF IInv, TypeOK
  <2>2. ~AtWork(c)' /\ ~Indexed(c)' /\ reply'[c] # NoReply
    BY <2>1 DEF AtWork, Indexed, Asking
  <2>3. ASSUME NEW d \in Callers, d # c
        PROVE  pc'[d] = pc[d] /\ reply'[d] = reply[d] /\ ids'[d] = ids[d]
    BY <2>1, <2>3 DEF Asking
  <2>4. \A d \in Callers : d # c => Of(ids[d])' = Of(ids[d])
    BY <2>3 DEF Of
  <2>5. DOMAIN reply' = Callers
    BY DEF Asking
  <2> QED
    BY <2>2, <2>3, <2>4, <2>5 DEF Asking, AtWork, Indexed, DM!Pending
<1>5. DM!Answer(c)
  <2>1. DM!Pending(c)
    <3>1. request[c] \in Requests /\ reply[c] = NoReply
      BY DEF Asking
    <3> QED
      BY <3>1 DEF DM!Pending, NoneApart, Requests
  <2> QED
    BY <2>1 DEF DM!Answer
<1> QED
  BY <1>2, <1>3, <1>4, <1>5 DEF DM!Next

\* A location that is stored is found where it is put, and nobody else's index moves.
LEMMA StoreAnswers ==
    ASSUME KeysDiffer, IInv, AInv, NEW c \in Callers, StoreLocation(c)
    PROVE  AInv' /\ UNCHANGED DM!matrix
<1> USE DEF AInv
<1> DEFINE key == encodeLocation(adding)
<1>1. /\ pc[c] = "store" /\ pc' = [pc EXCEPT ![c] = "idle"]
      /\ UNCHANGED <<cache, ids, request, reply>>
  BY DEF StoreLocation, Goto
<1>2. adding \in Locations
  BY <1>1 DEF IInv, LockHeld
<1>3. known_locations \in Seq(Locations) /\ Known \in Nat
      /\ \A k \in KnownKeys : known_locations_mapping[k] \in 1..Known
  BY DEF IInv, TypeOK, Known
<1>4. Findable' /\ \A i \in 1..Known : known_locations'[i] = known_locations[i]
  <2>1. CASE key \in KnownKeys
    BY <2>1 DEF StoreLocation, Findable, KnownKeys, IdOf
  <2>2. CASE key \notin KnownKeys
    <3>1. known_locations' = Append(known_locations, adding)
          /\ known_locations_mapping' =
                 [k \in KnownKeys \union {key} |->
                     IF k = key THEN Known + 1 ELSE known_locations_mapping[k]]
      BY <2>2 DEF StoreLocation
    <3>2. /\ known_locations'[Known + 1] = adding
          /\ \A i \in 1..Known : known_locations'[i] = known_locations[i]
      BY <1>2, <1>3, <3>1 DEF Known
    <3>3. KnownKeys' = KnownKeys \union {key}
      BY <3>1 DEF KnownKeys
    <3> HIDE DEF key
    <3>4. ASSUME NEW loc \in Locations, encodeLocation(loc) \in KnownKeys'
          PROVE  known_locations'[IdOf(loc)'] = loc
      <4>1. CASE encodeLocation(loc) = key
        <5>1. loc = adding
          BY <1>2, <4>1 DEF KeysDiffer, key
        <5>2. IdOf(loc)' = Known + 1
          BY <3>1, <4>1 DEF IdOf
        <5> QED
          BY <3>2, <5>1, <5>2
      <4>2. CASE encodeLocation(loc) # key
        <5>1. encodeLocation(loc) \in KnownKeys
          BY <3>3, <3>4, <4>2
        <5>2. IdOf(loc)' = IdOf(loc)
          BY <3>1, <4>2, <5>1 DEF IdOf
        <5>3. IdOf(loc) \in 1..Known
          BY <1>3, <5>1 DEF IdOf
        <5> QED
          BY <3>2, <5>1, <5>2, <5>3 DEF Findable
      <4> QED
        BY <4>1, <4>2
    <3> QED
      BY <3>2, <3>4 DEF Findable
  <2> QED
    BY <2>1, <2>2
<1>5. \A p \in Pairs(Known) : Of(p)' = Of(p)
  BY <1>3, <1>4 DEF Of, Pairs
<1>6. \A d \in Callers : Indexed(d) => ids[d] \in Pairs(Known)
  <2>1. cache.size \in 0..Known
    BY DEF IInv, TypeOK
  <2>2. Pairs(cache.size) \subseteq Pairs(Known)
    BY <1>3, <2>1 DEF Pairs
  <2> QED
    BY <2>2 DEF IInv, IdsKnown, ReadsInBounds, Indexed
<1>7. Asking'
  <2>1. \A d \in Callers : (AtWork(d)' <=> AtWork(d)) /\ (Indexed(d)' <=> Indexed(d))
    BY <1>1 DEF IInv, TypeOK, AtWork, Indexed
  <2>2. \A d \in Callers : Indexed(d) => Of(ids[d])' = Of(ids[d])
    BY <1>1, <1>5, <1>6 DEF Of
  <2> QED
    BY <1>1, <2>1, <2>2 DEF Asking, DM!Pending
<1>8. EntriesAnswer'
  <2>1. Pairs(cache.size) \subseteq Pairs(Known)
    BY <1>3 DEF IInv, TypeOK, Pairs
  <2> QED
    BY <1>1, <1>5, <2>1 DEF EntriesAnswer, DM!Answers
<1> QED
  BY <1>1, <1>4, <1>7, <1>8 DEF DM!matrix

\* What is calculated answers for the locations of its row and its column.
LEMMA CalculateAnswers ==
    ASSUME NoneApart, IInv, AInv, NEW c \in Callers, Calculate(c)
    PROVE  AInv' /\ UNCHANGED DM!matrix
<1> USE DEF AInv
<1>1. /\ pc[c] = "initialize" /\ pc' = [pc EXCEPT ![c] = "publish"]
      /\ UNCHANGED <<known_locations, known_locations_mapping, ids, request, reply>>
  BY DEF Calculate, Goto, locations
<1>2. PICK failed \in SUBSET MayFail :
          cache' = [size |-> Known, at |-> [p \in Pairs(Known) |-> Entry(p, failed)]]
  BY DEF Calculate
<1>3. cache'.size = Known /\ \A p \in Pairs(Known) : cache'.at[p] = Entry(p, failed)
  BY <1>2
<1>4. /\ cache.size \in 0..Known /\ Known \in Nat /\ known_locations \in Seq(Locations)
      /\ pc \in [Callers -> Pc]
  BY DEF IInv, TypeOK, Known
<1>5. KnownKeys' = KnownKeys /\ (\A loc : IdOf(loc)' = IdOf(loc)) /\ \A p : Of(p)' = Of(p)
  BY <1>1 DEF KnownKeys, IdOf, Of
<1>6. Findable'
  BY <1>1, <1>5 DEF Findable
<1>7. Asking'
  BY <1>1, <1>4, <1>5 DEF Asking, AtWork, Indexed, DM!Pending
<1>8. ASSUME NEW p \in Pairs(Known)
      PROVE  Entry(p, failed) \in DM!Answers(Of(p)) \ {NoReply}
  <2> DEFINE a == known_locations[p[1]]
             b == known_locations[p[2]]
  <2>1. a \in Locations /\ b \in Locations
    BY <1>4 DEF Pairs, Known
  <2>2. /\ route(a, b) \in DM!Answers(Of(p)) \ {NoReply}
        /\ processError(ErrorPolicy, a, b) \in DM!Answers(Of(p)) \ {NoReply}
        /\ a = b => zero(a, b) \in DM!Answers(Of(p)) \ {NoReply}
    BY <2>1, AnswersTo DEF Of
  <2>3. CASE Kept(p)
    <3>1. p \in Pairs(cache.size)
      BY <1>4, <2>3 DEF Pairs, Kept
    <3> QED
      BY <2>3, <3>1 DEF EntriesAnswer, Entry
  <2>4. CASE ~Kept(p)
    BY <2>2, <2>4 DEF Entry
  <2> QED
    BY <2>3, <2>4
<1>9. EntriesAnswer'
  BY <1>3, <1>5, <1>8 DEF EntriesAnswer, DM!Answers
<1> QED
  BY <1>1, <1>6, <1>7, <1>9 DEF DM!matrix

\* The indices of the locations asked for are looked up, or not both are found.
LEMMA FindAnswers ==
    ASSUME IInv, AInv, NEW c \in Callers, FindLocations(c)
    PROVE  AInv' /\ UNCHANGED DM!matrix
<1> USE DEF AInv
<1> DEFINE q == request[c]
<1>1. /\ pc[c] = "find" /\ pc' = [pc EXCEPT ![c] = pc'[c]] /\ pc'[c] \in {"test", "engine"}
      /\ UNCHANGED <<known_locations, known_locations_mapping, cache, request, reply>>
      /\ pc \in [Callers -> Pc] /\ ids \in [Callers -> Nat \X Nat]
  BY DEF FindLocations, Goto, locations, matrix, IInv, TypeOK
<1>2. CASE pc'[c] = "engine"
  <2>1. ids' = ids
    BY <1>1, <1>2 DEF FindLocations, Goto
  <2> QED
    BY <1>1, <1>2, <2>1, Stutters DEF AtWork, Indexed
<1>3. CASE pc'[c] = "test"
  <2>1. /\ {encodeLocation(q.from), encodeLocation(q.to)} \subseteq KnownKeys
        /\ ids' = [ids EXCEPT ![c] = <<IdOf(q.from), IdOf(q.to)>>]
    BY <1>1, <1>3 DEF FindLocations, Goto
  <2>2. q \in Requests
    BY <1>1 DEF Asking, AtWork
  <2>3. q = [from |-> q.from, to |-> q.to] /\ q.from \in Locations /\ q.to \in Locations
    BY <2>2 DEF Requests
  <2>4. ids'[c] = <<IdOf(q.from), IdOf(q.to)>>
    BY <1>1, <2>1
  <2>5. q = Of(ids'[c])
    BY <2>1, <2>3, <2>4 DEF Findable, Of
  <2>6. KnownKeys' = KnownKeys /\ (\A loc : IdOf(loc)' = IdOf(loc))
    BY <1>1 DEF KnownKeys, IdOf
  <2>7. Findable'
    BY <1>1, <2>6 DEF Findable
  <2>8. EntriesAnswer'
    <3>1. \A p : Of(p)' = Of(p)
      BY <1>1 DEF Of
    <3> QED
      BY <1>1, <3>1 DEF EntriesAnswer, DM!Answers
  <2>9. Asking'
    <3>1. \A d \in Callers : (AtWork(d)' <=> AtWork(d)) /\ (d # c => Indexed(d)' = Indexed(d))
      BY <1>1 DEF AtWork, Indexed
    <3>2. \A d \in Callers : d # c => Of(ids[d])' = Of(ids[d])
      BY <1>1, <2>1 DEF Of
    <3>3. request'[c] = Of(ids[c])'
      BY <1>1, <2>5 DEF Of
    <3> QED
      BY <1>1, <3>1, <3>2, <3>3 DEF Asking, DM!Pending
  <2> QED
    BY <1>1, <2>7, <2>8, <2>9 DEF DM!matrix
<1> QED
  BY <1>1, <1>2, <1>3

\* Every step keeps the invariant, and is a step of the abstract matrix or none.
LEMMA StepAnswers ==
    ASSUME ~AddsWhileReading, KeysDiffer, NoneApart, IInv, AInv, [Next]_vars
    PROVE  AInv' /\ [DM!Next]_(DM!matrix)
<1>0. /\ pc \in [Callers -> Pc] /\ ids \in [Callers -> Nat \X Nat]
      /\ \A c \in Callers : AtWork(c) => request[c] \in Requests
  BY DEF IInv, TypeOK, AInv, Asking
<1>1. ASSUME NEW c \in Callers, NEW loc \in Locations, AddLocation(c, loc)
      PROVE  AInv' /\ UNCHANGED DM!matrix
  BY <1>0, <1>1, Stutters DEF AddLocation, Goto, AtWork, Indexed
<1>2. ASSUME NEW c \in Callers,
             TestInitialized(c) \/ AlreadyInitialized(c) \/ Publish(c) \/ LoadPointer(c)
      PROVE  AInv' /\ UNCHANGED DM!matrix
  BY <1>0, <1>2, Stutters
     DEF TestInitialized, AlreadyInitialized, Publish, LoadPointer, Goto, locations, matrix,
         AtWork, Indexed
<1>3. ASSUME NEW c \in Callers, AskProvider(c)
      PROVE  AInv' /\ DM!Next
  <2>1. AtWork(c) /\ pc' = [pc EXCEPT ![c] = "idle"] /\ ids' = [ids EXCEPT ![c] = ids'[c]]
        /\ UNCHANGED <<known_locations, known_locations_mapping, cache, request>>
    BY <1>0, <1>3 DEF AskProvider, Finish, Goto, AtWork, locations, matrix
  <2>2. PICK a \in Locations, b \in Locations : request[c] = [from |-> a, to |-> b]
    BY <1>0, <2>1 DEF Requests
  <2>3. PICK r :
            /\ reply' = [reply EXCEPT ![c] = r]
            /\ \/ r = route(a, b) \/ r = processError(ErrorPolicy, a, b)
               \/ r = zero(a, b) /\ a = b
    <3>1. request[c].from = a /\ request[c].to = b
      BY <2>2
    <3> QED
      BY <1>3, <3>1 DEF AskProvider, Finish
  <2>4. r \in DM!Answers(request[c]) \ {NoReply}
    BY <2>2, <2>3, AnswersTo
  <2> QED
    BY <2>1, <2>3, <2>4, FinishAnswers
<1>4. ASSUME NEW c \in Callers, FailToCalculate(c)
      PROVE  AInv' /\ DM!Next
  <2>1. AtWork(c) /\ pc' = [pc EXCEPT ![c] = "idle"] /\ ids' = [ids EXCEPT ![c] = ids'[c]]
        /\ UNCHANGED <<known_locations, known_locations_mapping, cache, request>>
        /\ reply' = [reply EXCEPT ![c] = Thrown] /\ ErrorPolicy = "ON_ERROR_THROW"
    BY <1>0, <1>4 DEF FailToCalculate, Finish, Goto, AtWork, locations, matrix
  <2>2. PICK a \in Locations, b \in Locations : request[c] = [from |-> a, to |-> b]
    BY <1>0, <2>1 DEF Requests
  <2>3. processError(ErrorPolicy, a, b) = Thrown
    BY <2>1 DEF processError
  <2>4. Thrown \in DM!Answers(request[c]) \ {NoReply}
    BY <2>2, <2>3, AnswersTo
  <2> QED
    BY <2>1, <2>4, FinishAnswers
<1>5. ASSUME NEW c \in Callers, CopyEntry(c)
      PROVE  AInv' /\ DM!Next
  <2>1. pointer[c] # "freed"
    BY DEF IInv, NobodyReadsFreed
  <2>2. /\ pc[c] = "copy" /\ pc' = [pc EXCEPT ![c] = "idle"]
        /\ ids' = [ids EXCEPT ![c] = ids'[c]]
        /\ UNCHANGED <<known_locations, known_locations_mapping, cache, request>>
        /\ reply' = [reply EXCEPT ![c] = cache.at[ids[c]]]
    BY <1>0, <1>5, <2>1 DEF CopyEntry, Finish, Goto, locations, matrix
  <2>3. ids[c] \in Pairs(cache.size) /\ request[c] = Of(ids[c])
    BY <2>2 DEF IInv, ReadsInBounds, AInv, Asking, Indexed
  <2>4. cache.at[ids[c]] \in DM!Answers(request[c]) \ {NoReply}
    BY <2>3 DEF AInv, EntriesAnswer
  <2>5. AtWork(c)
    BY <2>2 DEF AtWork
  <2> QED
    BY <2>2, <2>4, <2>5, FinishAnswers
<1>6. CASE UNCHANGED vars
  <2>1. KnownKeys' = KnownKeys /\ (\A loc : IdOf(loc)' = IdOf(loc)) /\ \A p : Of(p)' = Of(p)
    BY <1>6 DEF vars, locations, KnownKeys, IdOf, Of
  <2>2. Findable' /\ EntriesAnswer'
    BY <1>6, <2>1 DEF vars, locations, matrix, AInv, Findable, EntriesAnswer, DM!Answers
  <2>3. Asking'
    BY <1>6, <2>1 DEF vars, callers, AInv, Asking, AtWork, Indexed, DM!Pending
  <2> QED
    BY <1>6, <2>2, <2>3 DEF vars, callers, AInv, DM!matrix
<1> QED
  BY <1>1, <1>2, <1>3, <1>4, <1>5, <1>6, AskAnswers, StoreAnswers, FindAnswers,
     CalculateAnswers DEF Next, Begin, Step

LEMMA InitAInv == Init => AInv /\ DM!Init
<1> SUFFICES ASSUME Init PROVE AInv /\ DM!Init
  OBVIOUS
<1>1. Findable /\ Asking
  BY DEF Init, Findable, Asking, KnownKeys, AtWork, Indexed, DM!Pending
<1>2. EntriesAnswer
  BY DEF Init, EntriesAnswer, Pairs
<1> QED
  BY <1>1, <1>2 DEF AInv, Init, DM!Init

\* If no two locations share a key, and none is added while somebody asks, every
\* caller is answered for the two locations it asked for, once for each question, by
\* a matrix that any of them may have calculated: with the route, with zero between a
\* location and itself, or with what the error policy says.
THEOREM Implements ==
    ASSUME ~AddsWhileReading, KeysDiffer, NoneApart
    PROVE  Spec => DM!Safety
<1>1. IInv /\ AInv /\ [Next]_vars => AInv' /\ [DM!Next]_(DM!matrix)
  BY StepAnswers
<1> QED
  BY <1>1, InitAInv, Inductive, PTL DEF Spec, DM!Safety

----------------------------------------------------------------------------
(* What the answer to every question rests on, beside the callers being    *)
(* scheduled: the lock is given back, and each call comes to its end.      *)

\* The steps of a call that is at p.
CallAt(p) ==
    CASE p = "find"       -> 6
      [] p = "test"       -> 5
      [] p = "initialize" -> 4
      [] p = "publish"    -> 3
      [] p = "load"       -> 2
      [] p = "copy"       -> 1
      [] p = "store"      -> 1
      [] p = "engine"     -> 1
      [] OTHER            -> 0

\* Who holds the lock has nothing to wait for before it gives it back.
LockGivenBack ==
    cache_update_lock # Nobody =>
        cache_update_lock \in Callers /\ pc[cache_update_lock] \in {"store", "publish"}

\* A caller that waits for the lock of a matrix somebody has initialized meanwhile is
\* not overtaken: nobody takes the lock again, so that it can go on until it does.
NotOvertaken(c) ==
    pc[c] = "initialize" /\ is_initialized /\ cache_update_lock = Nobody =>
        \/ pc'[c] = "load"
        \/ pc'[c] = "initialize" /\ is_initialized' /\ cache_update_lock' = Nobody

\* A step brings the call it is of nearer to its end, and no other one farther.
CallsGetOn ==
    [][\A c \in Callers :
        /\ pc'[c] = pc[c] \/ pc[c] = "idle" \/ CallAt(pc'[c]) < CallAt(pc[c])
        /\ AddsWhileReading \/ NotOvertaken(c)]_vars

\* What a step does for a call.
LEMMA StepGetsOn ==
    ASSUME IInv, NEW d \in Callers, Begin(d) \/ Step(d), NEW c \in Callers
    PROVE  /\ pc'[c] = pc[c] \/ pc[c] = "idle" \/ CallAt(pc'[c]) < CallAt(pc[c])
           /\ AddsWhileReading \/ NotOvertaken(c)
<1>1. pc \in [Callers -> Pc]
  BY DEF IInv, TypeOK
<1>2. /\ pc' = [pc EXCEPT ![d] = pc'[d]]
      /\ <<pc[d], pc'[d]>> \in
            {<<"idle", "store">>, <<"idle", "find">>, <<"idle", "test">>, <<"store", "idle">>,
             <<"find", "test">>, <<"find", "engine">>, <<"engine", "idle">>, <<"test", "load">>,
             <<"test", "initialize">>, <<"initialize", "load">>, <<"initialize", "publish">>,
             <<"initialize", "idle">>, <<"publish", "load">>, <<"load", "copy">>,
             <<"copy", "idle">>}
  <2>1. CASE Begin(d)
    BY <1>1, <2>1 DEF Begin, AddLocation, GetRoute, GetRouteByIndex, Ask, Goto
  <2>2. CASE StoreLocation(d) \/ FindLocations(d) \/ AskProvider(d) \/ TestInitialized(d)
    BY <1>1, <2>2 DEF StoreLocation, FindLocations, AskProvider, TestInitialized, Finish, Goto
  <2>3. CASE AlreadyInitialized(d) \/ Calculate(d) \/ FailToCalculate(d)
    BY <1>1, <2>3 DEF AlreadyInitialized, Calculate, FailToCalculate, Finish, Goto
  <2>4. CASE Publish(d) \/ LoadPointer(d) \/ CopyEntry(d)
    BY <1>1, <2>4 DEF Publish, LoadPointer, CopyEntry, Finish, Goto
  <2> QED
    BY <2>1, <2>2, <2>3, <2>4 DEF Step
<1>3. pc'[c] = pc[c] \/ pc[c] = "idle" \/ CallAt(pc'[c]) < CallAt(pc[c])
  <2>1. CASE c # d
    BY <1>1, <1>2, <2>1
  <2>2. CASE c = d
    BY <1>2, <2>2 DEF CallAt
  <2> QED
    BY <2>1, <2>2
<1>4. ASSUME ~AddsWhileReading, pc[c] = "initialize", is_initialized,
             cache_update_lock = Nobody
      PROVE  \/ pc'[c] = "load"
             \/ pc'[c] = "initialize" /\ is_initialized' /\ cache_update_lock' = Nobody
  <2>1. pc[d] \notin {"store", "publish"}
    BY <1>4, NobodyAssumption DEF IInv, LockHeld
  <2>2. ~\E loc \in Locations : AddLocation(d, loc)
    BY <1>4 DEF AddLocation, Reading
  <2>3. ~StoreLocation(d) /\ ~Publish(d)
    BY <2>1 DEF StoreLocation, Publish, Goto
  <2>4. ~Calculate(d) /\ ~FailToCalculate(d)
    BY <1>4 DEF Calculate, FailToCalculate
  <2>5. UNCHANGED <<is_initialized, cache_update_lock>>
    BY <2>2, <2>3, <2>4 DEF Begin, Step, GetRoute, GetRouteByIndex, FindLocations, AskProvider,
       TestInitialized, AlreadyInitialized, LoadPointer, CopyEntry, matrix
  <2>6. c = d => pc'[c] = "load"
    BY <1>1, <1>4, <2>2, <2>3, <2>4 DEF Begin, Step, GetRoute, GetRouteByIndex, Ask,
       FindLocations, AskProvider, TestInitialized, AlreadyInitialized, LoadPointer, CopyEntry,
       Goto, Finish
  <2>7. c # d => pc'[c] = pc[c]
    BY <1>1, <1>2
  <2> QED
    BY <1>4, <2>5, <2>6, <2>7
<1> QED
  BY <1>3, <1>4 DEF NotOvertaken

\* A call of a matrix takes six steps at the most, of which only taking the lock may
\* have to wait; whoever has the lock gives it back with its next step, and if locations
\* are added only while nobody reads, a caller that waits while another calculates the
\* matrix is not kept from it once that is done.
THEOREM CallsEnd == Spec => []LockGivenBack /\ CallsGetOn
<1>1. IInv => LockGivenBack
  BY DEF IInv, TypeOK, LockHeld, LockGivenBack
<1>2. IInv /\ [Next]_vars =>
        [\A c \in Callers :
            /\ pc'[c] = pc[c] \/ pc[c] = "idle" \/ CallAt(pc'[c]) < CallAt(pc[c])
            /\ AddsWhileReading \/ NotOvertaken(c)]_vars
  BY StepGetsOn DEF Next
<1> QED
  BY <1>1, <1>2, Inductive, PTL DEF Spec, CallsGetOn

=============================================================================
