SPECIFICATION FairSpec
CONSTANTS
  Peers = {p1, p2}
  TTL = 2
  Attempts = 2
  MaxCalls = 4
  MaxFaults = 1
  NULL = NULL
INVARIANTS
  TypeOK
  SerialClaimsExclude
PROPERTIES
  VersionFences
  SerialIsCompareAndSet
  CallReturns
