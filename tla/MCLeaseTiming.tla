--------------------------- MODULE MCLeaseTiming ----------------------------
(* Small instances of LeaseTiming. *)
EXTENDS LeaseTiming
=============================================================================
