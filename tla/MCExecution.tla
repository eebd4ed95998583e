---------------------------- MODULE MCExecution -----------------------------
(* Small instances of Execution. *)
EXTENDS Execution, TLC

Symmetry == Permutations(Agents)
=============================================================================
