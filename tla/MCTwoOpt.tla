------------------------------ MODULE MCTwoOpt ------------------------------
(***************************************************************************)
(* Instances of TwoOptTspAlgorithm: tables with one cheap way onward from  *)
(* each point, and states saved by this task and by others.                *)
(***************************************************************************)
EXTENDS TwoOptTspAlgorithm

MCPoints == [p \in Index |-> 10 + p]

\* Cheap are the routes of one cycle through all points, or of two.
Cheap(next) == [pair \in Index \X Index |-> IF next[pair[1]] = pair[2] THEN 1 ELSE 3]
Cycles == {f \in [Index -> Index] : Permutation(f) /\ \A p \in Index : f[p] # p}
MCTables == {Cheap(next) : next \in Cycles}

Other == [Fresh EXCEPT !.kind = "two_opt", !.j = 1, !.points = [p \in 0..N |-> p],
                       !.sequence = [p \in 0..N |-> p]]
MCFresh == {Fresh}
MCSaved == {Fresh, Other, [Fresh EXCEPT !.kind = "time_wasting"],
            [Other EXCEPT !.points = MCPoints, !.sequence = [p \in Index |-> N - 1 - p]],
            [Other EXCEPT !.points = MCPoints, !.sequence = [p \in Index |-> N - 1 - p],
                          !.i = 1, !.j = 3, !.k = 1]}

=============================================================================
