------------------------- MODULE MCEngineController -------------------------
(***************************************************************************)
(* Small instances of EngineTspSolutionController for TLC.                 *)
(***************************************************************************)
EXTENDS EngineTspSolutionController

\* A worker creates a session with whatever state it finds in Redis.
MCAnySaved == {NoState} \union 0..Last

\* The test of the controller creates it with an empty state container.
MCNothingSaved == {NoState}

\* TimeWastingTspAlgorithm refuses exactly its last iteration (counter >= 99).
MCLastRejected == {Last}

=============================================================================
