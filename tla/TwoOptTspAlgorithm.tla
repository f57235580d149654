------------------------ MODULE TwoOptTspAlgorithm -------------------------
(***************************************************************************)
(* The 2-opt algorithm of a TSP session: what TspSolverEngine sets up, the *)
(* loop of solveTsp over the states (i, j, k), and the state it saves when *)
(* it is paused and is started with again.  EngineTspSolutionController    *)
(* has the threads around it; here are the sequence, its cost, and the     *)
(* ranges that are reversed.  Vectors are functions on 0..n-1, as in C++.  *)
(***************************************************************************)
EXTENDS Integers, FiniteSets

CONSTANTS
    N,             \* points of the task
    Points,        \* their ids
    Tables,        \* the distances the router may answer with
    SavedAtStart,  \* the states the container may hold at first
    AlgorithmTypes,\* the algorithm types a task may ask for
    MayFail,       \* whether the router can fail
    MaxPauses      \* bound: how often the session is paused

Index == 0..(N - 1)
Nothing == [p \in {} |-> 0]
Fresh == [kind |-> "none", i |-> 0, j |-> 0, k |-> 0, points |-> Nothing, sequence |-> Nothing]

\* With fewer than two points the first range, [0, 2), is beyond the sequence.
ASSUME SizeAssumption == N \in Nat /\ N >= 2
ASSUME PointsAssumption == Points \in [Index -> Nat]
ASSUME TablesAssumption == Tables \subseteq [Index \X Index -> Nat] /\ Tables # {}
ASSUME PausesAssumption == MaxPauses \in Nat /\ MayFail \in BOOLEAN

VARIABLES
    pc,         \* "created", "solve", "test", "iterate", "check", "paused",
                \* "final", "thrown"
    distance,   \* the matrix of the session
    container,  \* TspAlgorithmStateContainer
    interrupted,
    sequence,   \* the sequence the loop works on
    current,    \* current_solution: its sequence and cost
    state,      \* current_iteration_state, k = N when nextState returned nullopt
    pauses,
    tried       \* history: the states executed since the algorithm began afresh,
                \* by this session or by the one that saved the first state

vars == <<pc, distance, container, interrupted, sequence, current, state, pauses, tried>>

----------------------------------------------------------------------------
Iteration == [i : Int, j : Int, k : Int]

\* TotalDistanceTspCostFunction::estimate
Cost(seq) ==
    LET sum[p \in Index] ==
            IF p = 0 THEN 0 ELSE sum[p - 1] + distance[<<seq[p - 1], seq[p]>>]
    IN sum[N - 1]

\* Fault: the points are copied one by one, not swapped.
ReverseCopying(seq, i, j) ==
    [p \in Index |-> IF i <= p /\ 2 * p < i + j - 1 THEN seq[i + j - 1 - p] ELSE seq[p]]

\* std::reverse of [i, j)
Reverse(seq, i, j) ==
    [p \in Index |-> IF i <= p /\ p < j THEN seq[i + j - 1 - p] ELSE seq[p]]

\* Fault: the next pass begins at the second point.
nextStateSkipping(s) ==
    IF s.j < N THEN [s EXCEPT !.j = @ + 1]
    ELSE IF s.i + 1 < N THEN [s EXCEPT !.i = @ + 1, !.j = s.i + 2]
    ELSE [i |-> 1, j |-> 2, k |-> s.k + 1]

\* Fault: the range of one more than the sequence holds.
nextStateBeyond(s) ==
    IF s.j <= N THEN [s EXCEPT !.j = @ + 1]
    ELSE IF s.i + 1 < N THEN [s EXCEPT !.i = @ + 1, !.j = s.i + 2]
    ELSE [i |-> 0, j |-> 1, k |-> s.k + 1]

\* Fault: the pass is never left.
nextStateForEver(s) ==
    IF s.j < N THEN [s EXCEPT !.j = @ + 1]
    ELSE IF s.i + 1 < N THEN [s EXCEPT !.i = @ + 1, !.j = s.i + 2]
    ELSE [i |-> 0, j |-> 1, k |-> s.k]

nextState(s) ==
    IF s.j < N THEN [s EXCEPT !.j = @ + 1]
    ELSE IF s.i + 1 < N THEN [s EXCEPT !.i = @ + 1, !.j = s.i + 2]
    ELSE [i |-> 0, j |-> 1, k |-> s.k + 1]

----------------------------------------------------------------------------
(* TspAlgorithmStateContainer                                              *)

isConsistent(c) ==
    /\ DOMAIN c.points = DOMAIN c.sequence
    /\ \A p \in DOMAIN c.sequence : c.sequence[p] < Cardinality(DOMAIN c.points)

canBeUsedFor(c) == isConsistent(c) /\ c.points = Points

saved(c) == [i |-> c.i, j |-> c.j, k |-> c.k]

validateOrResetSavedState(c) ==
    IF c.kind = "two_opt" /\ canBeUsedFor(c) /\ c.i < N /\ c.j < N /\ c.k < N
    THEN c ELSE Fresh

\* What an earlier session of the task saved: a range, and a permutation.
Permutation(seq) ==
    /\ seq \in [Index -> Index]
    /\ \A p, q \in Index : seq[p] = seq[q] => p = q

WellSaved(c) ==
    /\ c \in [kind : {c.kind}, i : Int, j : Int, k : Int,
              points : {c.points}, sequence : {c.sequence}]
    /\ validateOrResetSavedState(c).kind = "two_opt" =>
        Permutation(c.sequence) /\ 0 <= c.i /\ c.i < c.j

ASSUME SavedAssumption == \A c \in SavedAtStart : WellSaved(c)

\* The states a session executes before it comes to the one that is saved.
Before(c) ==
    {s \in [i : Index, j : 1..N, k : Index] :
        /\ s.i < s.j
        /\ \/ s.k < c.k
           \/ s.k = c.k /\ s.i < c.i
           \/ s.k = c.k /\ s.i = c.i /\ s.j < c.j}

saveState(s) ==
    container' = [kind |-> "two_opt", i |-> s.i, j |-> s.j, k |-> s.k,
                  points |-> Points, sequence |-> current.sequence]

----------------------------------------------------------------------------
Init ==
    /\ pc = "created"
    /\ distance \in Tables
    /\ container \in SavedAtStart
    /\ interrupted = FALSE
    /\ sequence = [p \in Index |-> p]
    /\ current = [sequence |-> sequence, cost |-> 0]
    /\ state = [i |-> 0, j |-> 2, k |-> 0]
    /\ pauses = 0
    /\ tried = IF validateOrResetSavedState(container).kind = "two_opt"
                 THEN Before(container) ELSE {}

\* TspSolverEngine::solveTsp: cost function and validator have one kind each.
createAlgorithm ==
    /\ pc = "created"
    /\ \E type \in AlgorithmTypes :
        pc' = IF type \in {"AUTO", "TWO_OPT"} THEN "solve" ELSE "thrown"
    /\ UNCHANGED <<distance, container, interrupted, sequence, current, state, pauses, tried>>

\* The identity, or what was saved; the first estimate computes the matrix.
solveTsp ==
    /\ pc = "solve"
    /\ LET c == validateOrResetSavedState(container)
           from == IF c.kind = "two_opt" THEN c.sequence ELSE [p \in Index |-> p]
       IN /\ container' = c
          /\ sequence' = from
          /\ current' = [sequence |-> from, cost |-> Cost(from)]
          /\ state' = IF c.kind = "two_opt" THEN saved(c) ELSE [i |-> 0, j |-> 2, k |-> 0]
          /\ tried' = IF c.kind = "two_opt" THEN tried ELSE {}
    /\ pc' = "test"
    /\ UNCHANGED <<distance, interrupted, pauses>>

\* ON_ERROR_THROW: no cost, no solution; the saved state may be gone already.
RouterFails ==
    /\ pc = "solve"
    /\ MayFail
    /\ container' = validateOrResetSavedState(container)
    /\ pc' = "thrown"
    /\ UNCHANGED <<distance, interrupted, sequence, current, state, pauses, tried>>

\* while (current_iteration_state && !isInterrupted()), and what follows the loop:
\* the current solution is published, as final when there is no state left.
Test ==
    /\ pc = "test"
    /\ pc' = IF state.k >= N THEN "final"
             ELSE IF interrupted THEN "paused" ELSE "iterate"
    /\ UNCHANGED <<distance, container, interrupted, sequence, current, state, pauses, tried>>

\* Fault: a sequence that is no better stays reversed.
IterateKeeping ==
    /\ pc = "iterate"
    /\ LET seq == Reverse(sequence, state.i, state.j) IN
       /\ sequence' = seq
       /\ current' = IF Cost(seq) < current.cost
                     THEN [sequence |-> seq, cost |-> Cost(seq)] ELSE current
    /\ tried' = tried \union {state}
    /\ state' = nextState(state)
    /\ pc' = "check"
    /\ UNCHANGED <<distance, container, interrupted, pauses>>

\* A sequence that is no better is reversed back.  The one validator there is,
\* NopTspValidator, accepts every sequence.
Iterate ==
    /\ pc = "iterate"
    /\ LET seq == Reverse(sequence, state.i, state.j) IN
       IF Cost(seq) < current.cost
       THEN /\ sequence' = seq
            /\ current' = [sequence |-> seq, cost |-> Cost(seq)]
       ELSE /\ sequence' = Reverse(seq, state.i, state.j)
            /\ UNCHANGED current
    /\ tried' = tried \union {state}
    /\ state' = nextState(state)
    /\ pc' = "check"
    /\ UNCHANGED <<distance, container, interrupted, pauses>>

\* if (current_iteration_state && isInterrupted()) saveState
Check ==
    /\ pc = "check"
    /\ pc' = "test"
    /\ IF state.k < N /\ interrupted THEN saveState(state) ELSE UNCHANGED container
    /\ UNCHANGED <<distance, interrupted, sequence, current, state, pauses, tried>>

Pause ==
    /\ pc \in {"solve", "test", "iterate", "check"}
    /\ pauses < MaxPauses
    /\ pauses' = pauses + 1
    /\ interrupted' = TRUE
    /\ UNCHANGED <<pc, distance, container, sequence, current, state, tried>>

Resume ==
    /\ pc = "paused"
    /\ pc' = "solve"
    /\ interrupted' = FALSE
    /\ UNCHANGED <<distance, container, sequence, current, state, pauses, tried>>

Run == createAlgorithm \/ solveTsp \/ Test \/ Iterate \/ Check \/ Resume

Next == Run \/ RouterFails \/ Pause

\* The thread of the algorithm runs, and a paused session is resumed.
Spec == Init /\ [][Next]_vars /\ WF_vars(Run)

----------------------------------------------------------------------------
\* The types of the variables.
TypeOK ==
    /\ pc \in {"created", "solve", "test", "iterate", "check", "paused", "final", "thrown"}
    /\ interrupted \in BOOLEAN
    /\ state \in Iteration
    /\ current.sequence \in [Index -> Int]

\* The iterators given to std::reverse are in the sequence, and in order.
RangesInBounds ==
    pc = "iterate" => 0 <= state.i /\ state.i < state.j /\ state.j <= N

\* Every solution visits every point once, whatever it was resumed from.
PermutationKept ==
    pc \notin {"created", "solve", "thrown"} =>
        Permutation(current.sequence) /\ Permutation(sequence)

\* The loop goes on with the sequence of the current solution: the one that is
\* saved, so that a run that is resumed does what it would have done.
SequencesAgree ==
    pc \in {"test", "iterate", "check"} =>
        sequence = current.sequence /\ current.cost = Cost(sequence)

\* A final solution is published when every range was tried in every pass but the
\* first, which begins with [0, 2): in one session, or before and after it was
\* paused, or some of them in the earlier session that saved its state.
EveryRangeTried ==
    pc = "final" =>
        \A i \in Index, j \in 1..N, k \in 1..(N - 1) :
            i < j => [i |-> i, j |-> j, k |-> k] \in tried

\* What the algorithm saved for this task is what it goes on with.
UsesWhatItSaved ==
    [][(pc = "solve" /\ pc' = "test" /\ container.kind = "two_opt" /\ canBeUsedFor(container))
        => state' = saved(container)]_vars

\* The passes end, when the session is paused only so often.
Ends == <>(pc \in {"final", "thrown"})

=============================================================================
