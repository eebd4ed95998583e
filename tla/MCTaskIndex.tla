---------------------------- MODULE MCTaskIndex -----------------------------
(* Small instances of TaskIndex. *)
EXTENDS TaskIndex, TLC

Symmetry == Permutations(Jobs) \cup Permutations(Threads)
=============================================================================
