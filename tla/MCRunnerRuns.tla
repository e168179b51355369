---------------------------- MODULE MCRunnerRuns ----------------------------
(* A small instance of RunnerRuns for TLC: one project for all items.  The  *)
(* actors are interchangeable.                                              *)
EXTENDS RunnerRuns, TLC

OneProject == [i \in Items |-> CHOOSE p \in Projects : TRUE]

ActorSymmetry == Permutations(Actors)
=============================================================================
