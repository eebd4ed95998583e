-------------------------- MODULE MCAnnounceManager -------------------------
(* Small instances of AnnounceManager. *)
EXTENDS AnnounceManager, TLC

Symmetry == Permutations(Ids) \cup Permutations(Callers)
=============================================================================
