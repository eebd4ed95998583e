SPECIFICATION FairSpec
CONSTANTS
  Providers = {"p1", "p2"}
  Roots = {"r1", "input"}
  Size = 2
  AddrLists <- SomeAddrLists
  MaxRuns = 2
  NULL = NULL
INVARIANTS
  TypeOK
  FetchSound
  NoStaleInput
PROPERTIES
  FetchEnds
CHECK_DEADLOCK FALSE
