--------------------------- MODULE MCInputTransfer --------------------------
(* Small instances of InputTransfer. *)
EXTENDS InputTransfer

\* A provider that is up, one whose first address is stale, and one whose only
\* address would not pass validateProvider.
SomeAddrLists == {<<"live">>, <<"dead", "live">>, <<"bad">>}
=============================================================================
