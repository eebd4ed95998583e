SPECIFICATION FairSpec
CONSTANTS
  Ids = {j1, j2}
  Callers = {c1}
  Interval = 2
  TTL = 6
  Delay = 1
  MaxCalls = 2
  MaxFailures = 1
  NULL = NULL
INVARIANTS
  TypeOK
  AdNeverLapses
PROPERTIES
  RateLimit
  EnqueuedIsAnnounced
