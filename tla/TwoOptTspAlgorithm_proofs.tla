--------------------- MODULE TwoOptTspAlgorithm_proofs ---------------------
(***************************************************************************)
(* Safety of the 2-opt loop for tasks of every size, every matrix and      *)
(* every state an earlier session of the task may have saved: the ranges   *)
(* are in the sequence, solutions stay permutations, the loop goes on with *)
(* the solution that is saved, no range is left out, and every step leaves *)
(* less to be done.                                                        *)
(***************************************************************************)
EXTENDS TwoOptTspAlgorithm, TLAPS

\* A state the loop can execute is a range in the sequence.
RangeOfState == 0 <= state.i /\ state.i < state.j /\ state.j <= N /\ state.i < N

\* Both sequences are permutations, from the beginning.
Permutations == Permutation(sequence) /\ Permutation(current.sequence)

IInv ==
    /\ TypeOK
    /\ RangeOfState
    /\ WellSaved(container)
    /\ Permutations
    /\ SequencesAgree

----------------------------------------------------------------------------
\* Reversing a range of a permutation gives a permutation.
LEMMA ReversePermutes ==
    ASSUME NEW s, Permutation(s), NEW i \in Int, NEW j \in Int, 0 <= i, i < j, j <= N
    PROVE  Permutation(Reverse(s, i, j))
<1> USE SizeAssumption
<1> DEFINE at(p) == IF i <= p /\ p < j THEN i + j - 1 - p ELSE p
<1>1. \A p \in Index : at(p) \in Index
  BY DEF Index
<1>2. Reverse(s, i, j) = [p \in Index |-> s[at(p)]]
  <2>1. \A p \in Index : (IF i <= p /\ p < j THEN s[i + j - 1 - p] ELSE s[p]) = s[at(p)]
    OBVIOUS
  <2> QED
    BY <2>1 DEF Reverse
<1>3. \A p, q \in Index : at(p) = at(q) => p = q
  BY DEF Index
<1> HIDE DEF at
<1>4. Reverse(s, i, j) \in [Index -> Index]
  BY <1>1, <1>2 DEF Permutation
<1>5. ASSUME NEW p \in Index, NEW q \in Index, Reverse(s, i, j)[p] = Reverse(s, i, j)[q]
      PROVE  p = q
  <2>1. s[at(p)] = s[at(q)]
    BY <1>2, <1>5
  <2>2. at(p) = at(q)
    BY <1>1, <2>1 DEF Permutation
  <2> QED
    BY <1>3, <2>2
<1> QED
  BY <1>4, <1>5 DEF Permutation

\* Reversing the same range again restores the sequence.
LEMMA ReverseTwice ==
    ASSUME NEW s \in [Index -> Index], NEW i \in Int, NEW j \in Int, 0 <= i, i < j, j <= N
    PROVE  Reverse(Reverse(s, i, j), i, j) = s
<1> USE SizeAssumption
<1> DEFINE r == Reverse(s, i, j)
<1>1. \A p \in Index : r[p] = IF i <= p /\ p < j THEN s[i + j - 1 - p] ELSE s[p]
  BY DEF Reverse
<1> HIDE DEF r
<1>2. \A p \in Index : Reverse(r, i, j)[p] = IF i <= p /\ p < j THEN r[i + j - 1 - p] ELSE r[p]
  BY DEF Reverse
<1>3. ASSUME NEW p \in Index PROVE Reverse(r, i, j)[p] = s[p]
  <2>1. CASE i <= p /\ p < j
    <3>1. i + j - 1 - p \in Index /\ i <= i + j - 1 - p /\ i + j - 1 - p < j
      BY <2>1 DEF Index
    <3>2. i + j - 1 - (i + j - 1 - p) = p
      BY DEF Index
    <3>3. r[i + j - 1 - p] = s[p]
      BY <1>1, <3>1, <3>2
    <3> QED
      BY <1>2, <2>1, <3>3
  <2>2. CASE ~(i <= p /\ p < j)
    BY <1>1, <1>2, <2>2
  <2> QED
    BY <2>1, <2>2
<1>4. Reverse(r, i, j) = [p \in Index |-> Reverse(r, i, j)[p]]
  BY DEF Reverse
<1>5. s = [p \in Index |-> s[p]]
  OBVIOUS
<1> QED
  BY <1>3, <1>4, <1>5 DEF r

\* The state after a state is again a range in the sequence.
LEMMA NextRange ==
    ASSUME TypeOK, RangeOfState
    PROVE  /\ nextState(state) \in Iteration
           /\ 0 <= nextState(state).i /\ nextState(state).i < nextState(state).j
           /\ nextState(state).j <= N /\ nextState(state).i < N
<1> USE SizeAssumption
<1>1. state.i \in Int /\ state.j \in Int /\ state.k \in Int
      /\ state = [i |-> state.i, j |-> state.j, k |-> state.k]
  BY DEF TypeOK, Iteration
<1>2. CASE state.j < N
  <2>1. nextState(state) = [i |-> state.i, j |-> state.j + 1, k |-> state.k]
    BY <1>1, <1>2 DEF nextState
  <2> QED
    BY <1>1, <1>2, <2>1 DEF Iteration, RangeOfState
<1>3. CASE ~(state.j < N) /\ state.i + 1 < N
  <2>1. nextState(state) = [i |-> state.i + 1, j |-> state.i + 2, k |-> state.k]
    BY <1>1, <1>3 DEF nextState
  <2> QED
    BY <1>1, <1>3, <2>1 DEF Iteration, RangeOfState
<1>4. CASE ~(state.j < N) /\ ~(state.i + 1 < N)
  <2>1. nextState(state) = [i |-> 0, j |-> 1, k |-> state.k + 1]
    BY <1>1, <1>4 DEF nextState
  <2> QED
    BY <1>1, <2>1 DEF Iteration
<1> QED
  BY <1>2, <1>3, <1>4

----------------------------------------------------------------------------
\* What is fresh, or was reset, holds nothing that could be used.
LEMMA FreshIsWell == WellSaved(Fresh)
<1>1. validateOrResetSavedState(Fresh).kind = "none"
  BY DEF validateOrResetSavedState, Fresh
<1>2. Fresh \in [kind : {Fresh.kind}, i : Int, j : Int, k : Int,
                  points : {Fresh.points}, sequence : {Fresh.sequence}]
  BY DEF Fresh
<1> QED
  BY <1>1, <1>2 DEF WellSaved

LEMMA InitIInv == Init => IInv
<1> SUFFICES ASSUME Init PROVE IInv
  OBVIOUS
<1> USE SizeAssumption
<1>1. [p \in Index |-> p] \in [Index -> Index] /\ [p \in Index |-> p] \in [Index -> Int]
  BY DEF Index
<1>2. TypeOK
  <2>1. state \in Iteration
    BY DEF Init, Iteration
  <2>2. current.sequence = [p \in Index |-> p]
    BY DEF Init
  <2> QED
    BY <1>1, <2>1, <2>2 DEF Init, TypeOK
<1>3. RangeOfState
  BY DEF Init, RangeOfState
<1>4. WellSaved(container)
  BY SavedAssumption DEF Init
<1>5. Permutations
  BY <1>1 DEF Init, Permutations, Permutation
<1>6. SequencesAgree
  BY DEF Init, SequencesAgree
<1> QED
  BY <1>2, <1>3, <1>4, <1>5, <1>6 DEF IInv

LEMMA NextIInv == IInv /\ [Next]_vars => IInv'
<1> SUFFICES ASSUME IInv, [Next]_vars PROVE IInv'
  OBVIOUS
<1> USE SizeAssumption DEF IInv
<1>1. CASE createAlgorithm
  BY <1>1 DEF createAlgorithm, TypeOK, RangeOfState, Permutations, SequencesAgree, Cost
<1>2. CASE solveTsp
  <2> DEFINE c == validateOrResetSavedState(container)
             from == IF c.kind = "two_opt" THEN c.sequence ELSE [p \in Index |-> p]
  <2>1. /\ container' = c
        /\ sequence' = from
        /\ current' = [sequence |-> from, cost |-> Cost(from)]
        /\ state' = IF c.kind = "two_opt" THEN saved(c) ELSE [i |-> 0, j |-> 2, k |-> 0]
        /\ pc' = "test" /\ UNCHANGED <<distance, interrupted>>
    BY <1>2 DEF solveTsp
  <2>2. c = container \/ c = Fresh
    BY DEF validateOrResetSavedState
  <2>3. c.kind = "two_opt" => c = container /\ c.j < N
    BY DEF validateOrResetSavedState, Fresh
  <2>4. c.kind = "two_opt" => Permutation(container.sequence) /\ 0 <= c.i /\ c.i < c.j
    BY <2>3 DEF WellSaved
  <2>5. c.kind = "two_opt" => c.i \in Int /\ c.j \in Int /\ c.k \in Int
    BY <2>3 DEF WellSaved
  <2> HIDE DEF c
  <2>6. [p \in Index |-> p] \in [Index -> Index]
    OBVIOUS
  <2>7. Permutation(from)
    BY <2>3, <2>4, <2>6 DEF Permutation
  <2> HIDE DEF from
  <2>8. Permutations'
    BY <2>1, <2>7 DEF Permutations, Permutation
  <2>9. WellSaved(container)'
    BY <2>1, <2>2, FreshIsWell DEF WellSaved, Permutation
  <2>10. state' \in Iteration /\ RangeOfState'
    <3>1. CASE c.kind = "two_opt"
      BY <2>1, <2>3, <2>4, <2>5, <3>1 DEF RangeOfState, Iteration, saved
    <3>2. CASE c.kind # "two_opt"
      BY <2>1, <3>2 DEF RangeOfState, Iteration
    <3> QED
      BY <3>1, <3>2
  <2>11. from \in [Index -> Int]
    BY <2>7 DEF Permutation, Index
  <2>12. TypeOK'
    BY <2>1, <2>10, <2>11 DEF TypeOK
  <2>13. SequencesAgree'
    BY <2>1 DEF SequencesAgree, Cost
  <2> QED
    BY <2>8, <2>9, <2>10, <2>12, <2>13
<1>3. CASE RouterFails
  <2>1. container' = container \/ container' = Fresh
    BY <1>3 DEF RouterFails, validateOrResetSavedState
  <2>2. WellSaved(container)'
    BY <2>1, FreshIsWell DEF WellSaved, Permutation
  <2> QED
    BY <1>3, <2>2 DEF RouterFails, TypeOK, RangeOfState, Permutations, Permutation, SequencesAgree, Cost
<1>4. CASE Test
  BY <1>4 DEF Test, TypeOK, RangeOfState, Permutations, SequencesAgree, Cost
<1>5. CASE Iterate
  <2> DEFINE seq == Reverse(sequence, state.i, state.j)
  <2>1. state.i \in Int /\ state.j \in Int
    BY DEF TypeOK, Iteration
  <2>2. Permutation(seq)
    BY <2>1, ReversePermutes DEF RangeOfState, Permutations
  <2>3. Reverse(seq, state.i, state.j) = sequence
    BY <2>1, ReverseTwice DEF RangeOfState, Permutations, Permutation
  <2> HIDE DEF seq
  <2>4. \/ sequence' = seq /\ current' = [sequence |-> seq, cost |-> Cost(seq)]
        \/ sequence' = sequence /\ current' = current
    BY <1>5, <2>3 DEF Iterate, seq
  <2>5. pc = "iterate" /\ pc' = "check" /\ UNCHANGED <<distance, container, interrupted>>
    BY <1>5 DEF Iterate
  <2>6. state' \in Iteration /\ RangeOfState'
    BY <1>5, NextRange DEF Iterate, RangeOfState
  <2>7. Permutations'
    BY <2>2, <2>4 DEF Permutations, Permutation
  <2>8. current'.sequence \in [Index -> Int]
    BY <2>7 DEF Permutations, Permutation, Index
  <2>9. SequencesAgree'
    <3>1. sequence = current.sequence /\ current.cost = Cost(sequence)
      BY <2>5 DEF SequencesAgree
    <3>2. CASE sequence' = sequence /\ current' = current
      BY <2>5, <3>1, <3>2 DEF SequencesAgree, Cost
    <3>3. CASE sequence' = seq /\ current' = [sequence |-> seq, cost |-> Cost(seq)]
      BY <2>5, <3>3 DEF SequencesAgree, Cost
    <3> QED
      BY <2>4, <3>2, <3>3
  <2>10. TypeOK'
    BY <2>5, <2>6, <2>8 DEF TypeOK
  <2>11. WellSaved(container)'
    BY <2>5 DEF WellSaved, Permutation
  <2> QED
    BY <2>6, <2>7, <2>9, <2>10, <2>11
<1>6. CASE Check
  <2>1. WellSaved(container)'
    <3>1. CASE container' = container
      BY <3>1
    <3>2. CASE saveState(state)
      <4>1. container'.kind = "two_opt" /\ container'.i = state.i /\ container'.j = state.j
            /\ container'.k = state.k /\ container'.sequence = current.sequence
        BY <3>2 DEF saveState
      <4>2. Permutation(container'.sequence) /\ 0 <= container'.i /\ container'.i < container'.j
        BY <4>1 DEF Permutations, RangeOfState
      <4>3. container' \in [kind : {container'.kind}, i : Int, j : Int, k : Int,
                            points : {container'.points}, sequence : {container'.sequence}]
        BY <3>2 DEF saveState, TypeOK, Iteration
      <4> QED
        BY <4>2, <4>3 DEF WellSaved
    <3> QED
      BY <1>6, <3>1, <3>2 DEF Check
  <2> QED
    BY <1>6, <2>1 DEF Check, TypeOK, RangeOfState, Permutations, Permutation, SequencesAgree, Cost
<1>7. CASE Pause
  BY <1>7 DEF Pause, TypeOK, RangeOfState, Permutations, SequencesAgree, Cost
<1>8. CASE Resume
  BY <1>8 DEF Resume, TypeOK, RangeOfState, Permutations, SequencesAgree, Cost
<1>9. CASE UNCHANGED vars
  BY <1>9 DEF vars, TypeOK, RangeOfState, Permutations, SequencesAgree, Cost
<1> QED
  BY <1>1, <1>2, <1>3, <1>4, <1>5, <1>6, <1>7, <1>8, <1>9 DEF Next, Run

LEMMA Inductive == Spec => []IInv
BY InitIInv, NextIInv, PTL DEF Spec

----------------------------------------------------------------------------
\* The types of the variables hold in every run of the algorithm.
THEOREM TypeCorrect == Spec => []TypeOK
<1>1. IInv => TypeOK
  BY DEF IInv
<1> QED
  BY <1>1, Inductive, PTL

\* std::reverse is never given iterators beyond the sequence, in whatever state of
\* whatever earlier session the algorithm begins.
THEOREM Bounded == Spec => []RangesInBounds
<1>1. IInv => RangesInBounds
  BY DEF IInv, RangeOfState, RangesInBounds
<1> QED
  BY <1>1, Inductive, PTL

\* Every solution visits every point of the task once.
THEOREM Permuted == Spec => []PermutationKept
<1>1. IInv => PermutationKept
  BY DEF IInv, Permutations, PermutationKept
<1> QED
  BY <1>1, Inductive, PTL

\* What is saved with the iteration is the sequence the loop works on: a range
\* that is reversed twice is restored.
THEOREM Agreeing == Spec => []SequencesAgree
<1>1. IInv => SequencesAgree
  BY DEF IInv
<1> QED
  BY <1>1, Inductive, PTL

----------------------------------------------------------------------------
(* What was tried.  The first pass is left out: a session that begins      *)
(* afresh does so with [0, 2).                                             *)

\* The states of later passes that come before one that is saved, or executed.
Since(c) == {s \in Before(c) : s.k >= 1}

\* Whatever the session goes on from, what comes before it was tried.
SavedWhenTried ==
    validateOrResetSavedState(container).kind = "two_opt" => Since(container) \subseteq tried

ReachedWhenTried ==
    pc \in {"test", "iterate", "check", "final"} => Since(state) \subseteq tried

LeftWhenDone == pc = "final" => state.k >= N

TInv == SavedWhenTried /\ ReachedWhenTried /\ LeftWhenDone

\* Between a state and the next one there is no other.
LEMMA NextSince ==
    ASSUME TypeOK, RangeOfState
    PROVE  Since(nextState(state)) \subseteq Since(state) \union {state}
<1> USE SizeAssumption
<1>1. state.i \in Int /\ state.j \in Int /\ state.k \in Int
      /\ state = [i |-> state.i, j |-> state.j, k |-> state.k]
  BY DEF TypeOK, Iteration
<1> SUFFICES ASSUME NEW s \in Since(nextState(state)), s # state
             PROVE  s \in Since(state)
  OBVIOUS
<1>2. /\ s \in [i : Index, j : 1..N, k : Index] /\ s.i < s.j /\ s.k >= 1
      /\ s.i \in Index /\ s.j \in 1..N /\ s.k \in Index
      /\ s = [i |-> s.i, j |-> s.j, k |-> s.k]
  BY DEF Since, Before
<1>3. \/ s.k < nextState(state).k
      \/ s.k = nextState(state).k /\ s.i < nextState(state).i
      \/ s.k = nextState(state).k /\ s.i = nextState(state).i /\ s.j < nextState(state).j
  BY DEF Since, Before
<1>4. s.i # state.i \/ s.j # state.j \/ s.k # state.k
  BY <1>1, <1>2
<1>5. \/ s.k < state.k
      \/ s.k = state.k /\ s.i < state.i
      \/ s.k = state.k /\ s.i = state.i /\ s.j < state.j
  <2>1. CASE state.j < N
    <3>1. nextState(state) = [i |-> state.i, j |-> state.j + 1, k |-> state.k]
      BY <1>1, <2>1 DEF nextState
    <3> QED
      BY <1>1, <1>2, <1>3, <1>4, <3>1 DEF Index
  <2>2. CASE ~(state.j < N) /\ state.i + 1 < N
    <3>1. nextState(state) = [i |-> state.i + 1, j |-> state.i + 2, k |-> state.k]
      BY <1>1, <2>2 DEF nextState
    <3> QED
      BY <1>1, <1>2, <1>3, <1>4, <2>2, <3>1 DEF Index, RangeOfState
  <2>3. CASE ~(state.j < N) /\ ~(state.i + 1 < N)
    <3>1. nextState(state) = [i |-> 0, j |-> 1, k |-> state.k + 1]
      BY <1>1, <2>3 DEF nextState
    <3> QED
      BY <1>1, <1>2, <1>3, <1>4, <2>3, <3>1 DEF Index, RangeOfState
  <2> QED
    BY <2>1, <2>2, <2>3
<1> QED
  BY <1>2, <1>5 DEF Since, Before

\* Fresh is no state to go on from.
LEMMA FreshIsNoState == validateOrResetSavedState(Fresh).kind # "two_opt"
BY DEF validateOrResetSavedState, Fresh

LEMMA InitTInv == Init => TInv
<1> SUFFICES ASSUME Init PROVE TInv
  OBVIOUS
<1>1. pc = "created"
      /\ tried = IF validateOrResetSavedState(container).kind = "two_opt"
                   THEN Before(container) ELSE {}
  BY DEF Init
<1>2. Since(container) \subseteq Before(container)
  BY DEF Since
<1> QED
  BY <1>1, <1>2 DEF TInv, SavedWhenTried, ReachedWhenTried, LeftWhenDone

LEMMA NextTInv == IInv /\ TInv /\ [Next]_vars => TInv'
<1> SUFFICES ASSUME IInv, TInv, [Next]_vars PROVE TInv'
  OBVIOUS
<1> USE SizeAssumption DEF TInv
<1>1. ASSUME UNCHANGED container, tried \subseteq tried'
      PROVE  SavedWhenTried'
  BY <1>1 DEF SavedWhenTried, validateOrResetSavedState, canBeUsedFor, isConsistent, Since, Before
<1>2. ASSUME UNCHANGED <<state, tried>>, pc' \in {"test", "iterate", "check", "final"} =>
                                            pc \in {"test", "iterate", "check", "final"}
      PROVE  ReachedWhenTried'
  BY <1>2 DEF ReachedWhenTried, Since, Before
<1>3. CASE createAlgorithm \/ Pause \/ Resume \/ UNCHANGED vars
  <2>1. /\ UNCHANGED <<container, state, tried>>
        /\ pc' = pc \/ pc' \in {"solve", "thrown"}
    BY <1>3 DEF createAlgorithm, Pause, Resume, vars
  <2>2. LeftWhenDone'
    BY <2>1 DEF LeftWhenDone
  <2> QED
    BY <1>1, <1>2, <2>1, <2>2
<1>4. CASE solveTsp
  <2> DEFINE c == validateOrResetSavedState(container)
  <2>1. /\ container' = c /\ pc' = "test"
        /\ state' = IF c.kind = "two_opt" THEN saved(c) ELSE [i |-> 0, j |-> 2, k |-> 0]
        /\ tried' = IF c.kind = "two_opt" THEN tried ELSE {}
    BY <1>4 DEF solveTsp
  <2>2. c = container \/ c = Fresh
    BY DEF validateOrResetSavedState
  <2>3. c.kind = "two_opt" => c = container
    BY DEF validateOrResetSavedState, Fresh
  <2>4. CASE c.kind = "two_opt"
    <3>1. Since(saved(c)) = Since(container) /\ Since(container) \subseteq tried
      BY <2>3, <2>4 DEF Since, Before, saved, SavedWhenTried
    <3> HIDE DEF c
    <3> QED
      BY <1>1, <2>1, <2>3, <2>4, <3>1 DEF ReachedWhenTried, LeftWhenDone, Since, Before
  <2>5. CASE c.kind # "two_opt"
    <3>1. container' = Fresh
      BY <2>1, <2>5 DEF validateOrResetSavedState
    <3> HIDE DEF c
    <3>2. SavedWhenTried'
      BY <3>1, FreshIsNoState DEF SavedWhenTried, validateOrResetSavedState, canBeUsedFor,
         isConsistent
    <3>3. state' = [i |-> 0, j |-> 2, k |-> 0]
      BY <2>1, <2>5
    <3>4. Since(state') = {}
      BY <3>3 DEF Since, Before, Index
    <3> QED
      BY <2>1, <3>2, <3>4 DEF ReachedWhenTried, LeftWhenDone, Since, Before
  <2> QED
    BY <2>4, <2>5
<1>5. CASE RouterFails
  <2>1. container' = container \/ container' = Fresh
    BY <1>5 DEF RouterFails, validateOrResetSavedState
  <2>2. UNCHANGED tried /\ pc' = "thrown"
    BY <1>5 DEF RouterFails
  <2>3. SavedWhenTried'
    BY <1>1, <2>1, <2>2, FreshIsNoState DEF SavedWhenTried, validateOrResetSavedState,
       canBeUsedFor, isConsistent
  <2> QED
    BY <2>2, <2>3 DEF ReachedWhenTried, LeftWhenDone
<1>6. CASE Test
  <2>1. UNCHANGED <<container, state, tried>> /\ pc = "test"
        /\ (pc' = "final" => state.k >= N)
    BY <1>6 DEF Test
  <2> QED
    BY <1>1, <1>2, <2>1 DEF LeftWhenDone
<1>7. CASE Iterate
  <2>1. /\ UNCHANGED container /\ pc = "iterate" /\ pc' = "check"
        /\ tried' = tried \union {state} /\ state' = nextState(state)
    BY <1>7 DEF Iterate
  <2>2. Since(state) \subseteq tried
    BY <2>1 DEF ReachedWhenTried
  <2>3. Since(state') \subseteq tried'
    BY <2>1, <2>2, NextSince DEF IInv
  <2> QED
    BY <1>1, <2>1, <2>3 DEF ReachedWhenTried, LeftWhenDone, Since, Before
<1>8. CASE Check
  <2>1. UNCHANGED <<state, tried>> /\ pc = "check" /\ pc' = "test"
    BY <1>8 DEF Check
  <2>2. SavedWhenTried'
    <3>1. CASE saveState(state)
      <4>1. container'.i = state.i /\ container'.j = state.j /\ container'.k = state.k
        BY <3>1 DEF saveState
      <4>2. Since(container') = Since(state) /\ Since(state) \subseteq tried
        BY <2>1, <4>1 DEF Since, Before, ReachedWhenTried
      <4> QED
        BY <2>1, <4>2 DEF SavedWhenTried, Since, Before
    <3>2. CASE UNCHANGED container
      BY <1>1, <2>1, <3>2
    <3> QED
      BY <1>8, <3>1, <3>2 DEF Check
  <2> QED
    BY <1>2, <2>1, <2>2 DEF LeftWhenDone
<1> QED
  BY <1>3, <1>4, <1>5, <1>6, <1>7, <1>8 DEF Next, Run

\* A final solution was made of every range in every pass but the first, however
\* often the session was paused, and whatever state it was resumed from.
THEOREM AllTried == Spec => []EveryRangeTried
<1>1. IInv /\ TInv => EveryRangeTried
  <2> SUFFICES ASSUME IInv, TInv, pc = "final",
                      NEW i \in Index, NEW j \in 1..N, NEW k \in 1..(N - 1), i < j
               PROVE  [i |-> i, j |-> j, k |-> k] \in tried
    BY DEF EveryRangeTried
  <2>1. state.k >= N /\ state.k \in Int /\ Since(state) \subseteq tried
    BY DEF TInv, LeftWhenDone, ReachedWhenTried, IInv, TypeOK, Iteration
  <2>2. k \in Index /\ k < state.k /\ k >= 1
    BY <2>1, SizeAssumption DEF Index
  <2>3. [i |-> i, j |-> j, k |-> k] \in Since(state)
    BY <2>2 DEF Since, Before
  <2> QED
    BY <2>1, <2>3
<1> QED
  BY <1>1, Inductive, InitTInv, NextTInv, PTL DEF Spec

----------------------------------------------------------------------------
(* The passes end.  A session is paused only so often, and from one pause  *)
(* to the next each step leaves less to be done.                           *)

\* What is left of the pauses, and of the one the thread is about to notice.
PausesLeft == 2 * (MaxPauses - pauses) + (IF interrupted THEN 1 ELSE 0)

\* The ranges from a state on: more than are left of its row, of its pass and
\* of the passes.
RangesFrom(k, i, j) == ((N - k) * (N + 1) + (N - i)) * (N + 1) + (N - j)
StateLeft(s) == RangesFrom(s.k, s.i, s.j)

\* The state solveTsp begins with.
Start(c) ==
    IF validateOrResetSavedState(c).kind = "two_opt" THEN saved(c)
    ELSE [i |-> 0, j |-> 2, k |-> 0]

\* The steps of the thread until it pauses or ends, when it is at p.
StepsAt(p, start, here) ==
    CASE p = "created" -> 3 * start + 5
      [] p = "solve"   -> 3 * start + 4
      [] p = "check"   -> 3 * here + 4
      [] p = "test"    -> 3 * here + 3
      [] p = "iterate" -> 3 * here + 2
      [] OTHER         -> 0

StepsLeft == StepsAt(pc, StateLeft(Start(container)), StateLeft(state))

\* The loop has no state after the last pass, and only who was told to pauses.
PassesInRange == state.k <= N /\ (pc = "iterate" => state.k < N)
PausedWhenTold == pc = "paused" => interrupted
PausesBounded == pauses \in 0..MaxPauses

LInv == PassesInRange /\ PausedWhenTold /\ PausesBounded

\* Each step is one of the pauses left, or one of the steps up to the next.
GetsOn ==
    [][\/ PausesLeft' < PausesLeft
       \/ PausesLeft' = PausesLeft /\ StepsLeft' < StepsLeft]_vars

\* A state of the loop leaves a number of ranges that is natural.
LEMMA RangesType ==
    ASSUME NEW k \in Int, NEW i \in Int, NEW j \in Int, k <= N, 0 <= i, i < N, j <= N
    PROVE  RangesFrom(k, i, j) \in Nat
<1> USE SizeAssumption
<1>1. \A a, b \in Nat : a * b \in Nat
  OBVIOUS
<1>2. N - k \in Nat /\ N - i \in Nat /\ N - j \in Nat /\ N + 1 \in Nat
  OBVIOUS
<1>3. (N - k) * (N + 1) + (N - i) \in Nat
  <2>1. (N - k) * (N + 1) \in Nat
    BY <1>1, <1>2
  <2> QED
    BY <1>2, <2>1
<1>4. ((N - k) * (N + 1) + (N - i)) * (N + 1) \in Nat
  BY <1>1, <1>2, <1>3
<1> QED
  BY <1>2, <1>4 DEF RangesFrom

\* The next state leaves fewer: one range of the row less, or one row, or one pass.
LEMMA NextLeaves ==
    ASSUME TypeOK, RangeOfState, state.k < N
    PROVE  /\ nextState(state).k <= N
           /\ StateLeft(nextState(state)) < StateLeft(state)
<1> USE SizeAssumption
<1>1. state.i \in Int /\ state.j \in Int /\ state.k \in Int
      /\ state = [i |-> state.i, j |-> state.j, k |-> state.k]
  BY DEF TypeOK, Iteration
<1> DEFINE pass == (N - state.k) * (N + 1)
<1>2. pass \in Int
  BY <1>1
<1>3. CASE state.j < N
  <2>1. nextState(state) = [i |-> state.i, j |-> state.j + 1, k |-> state.k]
    BY <1>1, <1>3 DEF nextState
  <2> DEFINE row == (pass + (N - state.i)) * (N + 1)
  <2>2. row \in Int
    BY <1>1, <1>2
  <2>3. StateLeft(state) = row + (N - state.j)
        /\ StateLeft(nextState(state)) = row + (N - (state.j + 1))
    BY <2>1 DEF StateLeft, RangesFrom
  <2> HIDE DEF row
  <2> QED
    BY <1>1, <2>1, <2>2, <2>3
<1>4. CASE ~(state.j < N) /\ state.i + 1 < N
  <2>1. nextState(state) = [i |-> state.i + 1, j |-> state.i + 2, k |-> state.k]
    BY <1>1, <1>4 DEF nextState
  <2>2. state.j = N
    BY <1>1, <1>4 DEF RangeOfState
  <2> DEFINE rows == pass + (N - (state.i + 1))
  <2>3. rows \in Int /\ pass + (N - state.i) = rows + 1
    BY <1>1, <1>2
  <2>4. StateLeft(state) = (rows + 1) * (N + 1) + (N - N)
        /\ StateLeft(nextState(state)) = rows * (N + 1) + (N - (state.i + 2))
    BY <2>1, <2>2, <2>3 DEF StateLeft, RangesFrom
  <2> HIDE DEF rows
  <2>5. (rows + 1) * (N + 1) = rows * (N + 1) + (N + 1) /\ rows * (N + 1) \in Int
    BY <2>3
  <2> QED
    BY <1>1, <2>1, <2>4, <2>5 DEF RangeOfState
<1>5. CASE ~(state.j < N) /\ ~(state.i + 1 < N)
  <2>1. nextState(state) = [i |-> 0, j |-> 1, k |-> state.k + 1]
    BY <1>1, <1>5 DEF nextState
  <2>2. state.j = N /\ state.i = N - 1
    BY <1>1, <1>5 DEF RangeOfState
  <2> DEFINE passes == (N - (state.k + 1)) * (N + 1)
  <2>3. passes \in Int /\ pass = passes + (N + 1)
    BY <1>1
  <2> HIDE DEF pass
  <2>4. StateLeft(nextState(state)) = (passes + (N - 0)) * (N + 1) + (N - 1)
    BY <2>1 DEF StateLeft, RangesFrom
  <2>5. StateLeft(state) = (pass + (N - (N - 1))) * (N + 1) + (N - N)
    BY <2>2 DEF StateLeft, RangesFrom, pass
  <2> HIDE DEF passes
  <2> DEFINE rows == passes + N
  <2>6. rows \in Int /\ passes + (N - 0) = rows /\ pass + (N - (N - 1)) = rows + 2
    BY <2>3
  <2> HIDE DEF rows
  <2>7. (rows + 2) * (N + 1) = rows * (N + 1) + 2 * (N + 1) /\ rows * (N + 1) \in Int
    BY <2>6
  <2> QED
    BY <1>1, <2>1, <2>4, <2>5, <2>6, <2>7
<1> QED
  BY <1>3, <1>4, <1>5

\* Whatever was saved, the loop begins with a range of one of its passes.
LEMMA StartInRange ==
    ASSUME WellSaved(container)
    PROVE  /\ Start(container) \in Iteration /\ Start(container).k < N
           /\ 0 <= Start(container).i /\ Start(container).i < N /\ Start(container).j <= N
<1> USE SizeAssumption
<1> DEFINE c == validateOrResetSavedState(container)
<1>1. CASE c.kind = "two_opt"
  <2>1. c = container /\ c.i < N /\ c.j < N /\ c.k < N
    BY <1>1 DEF validateOrResetSavedState, Fresh
  <2>2. 0 <= container.i /\ container.i \in Int /\ container.j \in Int /\ container.k \in Int
    BY <1>1 DEF WellSaved
  <2>3. Start(container) = [i |-> container.i, j |-> container.j, k |-> container.k]
    BY <1>1 DEF Start, saved
  <2> HIDE DEF c
  <2> QED
    BY <2>1, <2>2, <2>3 DEF Iteration
<1>2. CASE c.kind # "two_opt"
  <2>1. Start(container) = [i |-> 0, j |-> 2, k |-> 0]
    BY <1>2 DEF Start
  <2> QED
    BY <2>1 DEF Iteration
<1> QED
  BY <1>1, <1>2

LEMMA InitLInv == Init => LInv
BY SizeAssumption, PausesAssumption DEF Init, LInv, PassesInRange, PausedWhenTold, PausesBounded

LEMMA NextLInv == IInv /\ LInv /\ [Next]_vars => LInv'
<1> SUFFICES ASSUME IInv, LInv, [Next]_vars PROVE LInv'
  OBVIOUS
<1> USE SizeAssumption, PausesAssumption DEF LInv, PassesInRange, PausedWhenTold, PausesBounded
<1>1. CASE createAlgorithm \/ RouterFails \/ Check
  BY <1>1 DEF createAlgorithm, RouterFails, Check
<1>2. CASE solveTsp
  <2>1. state' = Start(container) /\ pc' = "test" /\ UNCHANGED pauses
    BY <1>2 DEF solveTsp, Start, validateOrResetSavedState, Fresh, saved
  <2>2. Start(container) \in Iteration /\ Start(container).k < N
    BY StartInRange DEF IInv
  <2> QED
    BY <2>1, <2>2 DEF Iteration
<1>3. CASE Test
  BY <1>3 DEF Test, IInv, TypeOK, Iteration
<1>4. CASE Iterate
  <2>1. pc = "iterate" /\ pc' = "check" /\ state' = nextState(state) /\ UNCHANGED pauses
    BY <1>4 DEF Iterate
  <2> QED
    BY <2>1, NextLeaves DEF IInv
<1>5. CASE Pause
  BY <1>5 DEF Pause
<1>6. CASE Resume
  BY <1>6 DEF Resume
<1>7. CASE UNCHANGED vars
  BY <1>7 DEF vars
<1> QED
  BY <1>1, <1>2, <1>3, <1>4, <1>5, <1>6, <1>7 DEF Next, Run

\* The steps at each place of the thread.
LEMMA StepsCases ==
    ASSUME NEW start, NEW here
    PROVE  /\ StepsAt("created", start, here) = 3 * start + 5
           /\ StepsAt("solve", start, here) = 3 * start + 4
           /\ StepsAt("check", start, here) = 3 * here + 4
           /\ StepsAt("test", start, here) = 3 * here + 3
           /\ StepsAt("iterate", start, here) = 3 * here + 2
           /\ StepsAt("paused", start, here) = 0
           /\ StepsAt("final", start, here) = 0
           /\ StepsAt("thrown", start, here) = 0
BY DEF StepsAt

\* What is left is counted in natural numbers.
LEMMA LeftTypes ==
    ASSUME IInv, LInv
    PROVE  /\ PausesLeft \in Nat
           /\ StateLeft(Start(container)) \in Nat /\ StateLeft(state) \in Nat
           /\ StepsLeft \in Nat
<1> USE SizeAssumption, PausesAssumption
<1>1. PausesLeft \in Nat
  BY DEF PausesLeft, LInv, PausesBounded
<1>2. StateLeft(Start(container)) \in Nat
  BY StartInRange, RangesType DEF IInv, StateLeft, Iteration
<1>3. StateLeft(state) \in Nat
  BY RangesType DEF IInv, TypeOK, RangeOfState, LInv, PassesInRange, StateLeft, Iteration
<1>4. StepsLeft \in Nat
  <2>1. pc \in {"created", "solve", "test", "iterate", "check", "paused", "final", "thrown"}
    BY DEF IInv, TypeOK
  <2> QED
    BY <1>2, <1>3, <2>1, StepsCases DEF StepsLeft
<1> QED
  BY <1>1, <1>2, <1>3, <1>4

LEMMA StepGetsOn ==
    ASSUME IInv, LInv, Next
    PROVE  \/ PausesLeft' < PausesLeft
           \/ PausesLeft' = PausesLeft /\ StepsLeft' < StepsLeft
<1> USE SizeAssumption, PausesAssumption
<1> DEFINE start == StateLeft(Start(container))
           here == StateLeft(state)
<1>1. start \in Nat /\ here \in Nat
  BY LeftTypes
<1>2. StepsLeft = StepsAt(pc, start, here)
      /\ StepsLeft' = StepsAt(pc', start', here')
  BY DEF StepsLeft
<1>3. ASSUME UNCHANGED <<interrupted, pauses>> PROVE PausesLeft' = PausesLeft
  BY <1>3 DEF PausesLeft
<1>4. CASE createAlgorithm
  <2>1. /\ pc = "created" /\ pc' \in {"solve", "thrown"}
        /\ UNCHANGED <<container, interrupted, pauses>>
    BY <1>4 DEF createAlgorithm
  <2>2. start' = start
    BY <2>1 DEF StateLeft, Start, validateOrResetSavedState, canBeUsedFor, isConsistent, saved,
       RangesFrom
  <2> HIDE DEF start, here
  <2> QED
    BY <1>1, <1>2, <1>3, <2>1, <2>2, StepsCases
<1>5. CASE solveTsp
  <2>1. /\ pc = "solve" /\ pc' = "test" /\ state' = Start(container)
        /\ UNCHANGED <<interrupted, pauses>>
    BY <1>5 DEF solveTsp, Start, validateOrResetSavedState, Fresh, saved
  <2>2. here' = start
    BY <2>1 DEF StateLeft
  <2> HIDE DEF start, here
  <2> QED
    BY <1>1, <1>2, <1>3, <2>1, <2>2, StepsCases
<1>6. CASE RouterFails
  <2>1. pc = "solve" /\ pc' = "thrown" /\ UNCHANGED <<interrupted, pauses>>
    BY <1>6 DEF RouterFails
  <2> HIDE DEF start, here
  <2> QED
    BY <1>1, <1>2, <1>3, <2>1, StepsCases
<1>7. CASE Test
  <2>1. /\ pc = "test" /\ pc' \in {"final", "paused", "iterate"}
        /\ UNCHANGED <<state, interrupted, pauses>>
    BY <1>7 DEF Test
  <2>2. here' = here
    BY <2>1
  <2> HIDE DEF start, here
  <2> QED
    BY <1>1, <1>2, <1>3, <2>1, <2>2, StepsCases
<1>8. CASE Iterate
  <2>1. /\ pc = "iterate" /\ pc' = "check" /\ state' = nextState(state)
        /\ UNCHANGED <<interrupted, pauses>>
    BY <1>8 DEF Iterate
  <2>2. here' < here
    BY <2>1, NextLeaves DEF IInv, LInv, PassesInRange
  <2>3. here' \in Int
    BY <2>1, NextRange, SizeAssumption DEF IInv, Iteration, StateLeft, RangesFrom
  <2> HIDE DEF start, here
  <2> QED
    BY <1>1, <1>2, <1>3, <2>1, <2>2, <2>3, StepsCases
<1>9. CASE Check
  <2>1. pc = "check" /\ pc' = "test" /\ UNCHANGED <<state, interrupted, pauses>>
    BY <1>9 DEF Check
  <2>2. here' = here
    BY <2>1
  <2> HIDE DEF start, here
  <2> QED
    BY <1>1, <1>2, <1>3, <2>1, <2>2, StepsCases
<1>10. CASE Pause
  BY <1>10 DEF Pause, PausesLeft, LInv, PausesBounded
<1>11. CASE Resume
  <2>1. interrupted /\ interrupted' = FALSE /\ UNCHANGED pauses
    BY <1>11 DEF Resume, LInv, PausedWhenTold
  <2> QED
    BY <2>1 DEF PausesLeft, LInv, PausesBounded
<1> QED
  BY <1>4, <1>5, <1>6, <1>7, <1>8, <1>9, <1>10, <1>11 DEF Next, Run

\* A 2-opt session is finite: each step uses up one of the pauses left, or leaves
\* fewer steps up to the next one, whatever states were saved and however large
\* the task is.  This is what Ends rests on, beside the thread being scheduled.
THEOREM PassesGetOn == Spec => [](PausesLeft \in Nat /\ StepsLeft \in Nat) /\ GetsOn
<1>1. IInv /\ LInv => PausesLeft \in Nat /\ StepsLeft \in Nat
  BY LeftTypes
<1>2. IInv /\ LInv /\ [Next]_vars =>
        [\/ PausesLeft' < PausesLeft
         \/ PausesLeft' = PausesLeft /\ StepsLeft' < StepsLeft]_vars
  BY StepGetsOn
<1> QED
  BY <1>1, <1>2, Inductive, InitLInv, NextLInv, PTL DEF Spec, GetsOn

=============================================================================
