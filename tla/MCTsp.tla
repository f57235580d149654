------------------------------- MODULE MCTsp --------------------------------
(***************************************************************************)
(* Small instances of TspSystem for TLC.                                   *)
(***************************************************************************)
EXTENDS TspSystem, TLC

\* The workers are alike.
MCSymmetry == Permutations(Workers)

\* TimeWastingTspAlgorithm refuses exactly its last iteration (counter >= 99).
MCLastRejected == {Last}

=============================================================================
