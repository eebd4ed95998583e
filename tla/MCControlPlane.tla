--------------------------- MODULE MCControlPlane ---------------------------
(* Small instances of ControlPlane. *)
EXTENDS ControlPlane, TLC

Resubmission == [create |-> 1, manifest |-> 0, startup |-> 1, force |-> 1, release |-> 0]
Submission == [create |-> 1, manifest |-> 1, startup |-> 0, force |-> 0, release |-> 1]
OneCreate == [create |-> 1, manifest |-> 0, startup |-> 0, force |-> 0, release |-> 0]
OneStartup == [create |-> 0, manifest |-> 0, startup |-> 1, force |-> 0, release |-> 0]

Symmetry == Permutations(Agents) \cup Permutations(Threads)
=============================================================================
