---------------------------- MODULE ResumableRun ----------------------------
(***************************************************************************)
(* What a solution session promises to whoever starts it, whatever threads *)
(* it is made of: iterations 0..Last are worked off by one run at a time;  *)
(* a checkpoint may fall behind the work done but never gets ahead of it;  *)
(* and the run is complete only when no iteration is left out.             *)
(***************************************************************************)
EXTENDS Integers

CONSTANT Last

VARIABLES
    running,      \* a run is in progress
    done,         \* the iterations executed so far
    checkpoint,   \* where the next session would resume, -1 for nowhere
    completed     \* a final solution was published

vars == <<running, done, checkpoint, completed>>

Iterations == 0..Last
Checkpoints == {-1} \union Iterations
AllDoneBefore(c) == 0..(c - 1) \subseteq done

Init ==
    /\ running = FALSE
    /\ checkpoint \in Checkpoints
    /\ done = 0..(checkpoint - 1)
    /\ completed = FALSE

Begin ==
    /\ ~running
    /\ running' = TRUE
    /\ UNCHANGED <<done, checkpoint, completed>>

End ==
    /\ running
    /\ running' = FALSE
    /\ UNCHANGED <<done, checkpoint, completed>>

Execute ==
    /\ running
    /\ \E c \in Iterations : AllDoneBefore(c) /\ done' = done \union {c}
    /\ UNCHANGED <<running, checkpoint, completed>>

Save ==
    /\ running
    /\ \E c \in Checkpoints : AllDoneBefore(c) /\ checkpoint' = c
    /\ UNCHANGED <<running, done, completed>>

\* The checkpoint of a run that was stopped for good may be thrown away.
Forget ==
    /\ checkpoint' = -1
    /\ UNCHANGED <<running, done, completed>>

Complete ==
    /\ running
    /\ done = Iterations
    /\ completed' = TRUE
    /\ UNCHANGED <<running, done, checkpoint>>

Next == Begin \/ End \/ Execute \/ Save \/ Forget \/ Complete

Spec == Init /\ [][Next]_vars

=============================================================================
