----------------------------- MODULE MCDhtLease -----------------------------
(* Small instances of DhtLease. *)
EXTENDS DhtLease
=============================================================================
