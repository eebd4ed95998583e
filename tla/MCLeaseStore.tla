---------------------------- MODULE MCLeaseStore ----------------------------
(* Small instances of LeaseStore. *)
EXTENDS LeaseStore, TLC

Symmetry == Permutations(Agents)
=============================================================================
