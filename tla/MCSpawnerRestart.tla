--------------------------- MODULE MCSpawnerRestart ---------------------------
(* Instances of SpawnerRestart for TLC. *)
EXTENDS SpawnerRestart, TLC

IdSymmetry == Permutations(Ids)
=============================================================================
