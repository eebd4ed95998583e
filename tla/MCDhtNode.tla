------------------------------ MODULE MCDhtNode -----------------------------
(* Small instances of DhtNode. *)
EXTENDS DhtNode
=============================================================================
