SPECIFICATION Spec
CONSTANTS
  Jobs = {j1, j2}
  Threads = {t1, t2}
  ShardCount = 2
  MaxCreates = 3
  MaxFaults = 1
  MaxRestarts = 1
  NULL = NULL
SYMMETRY Symmetry
INVARIANTS
  TypeOK
  LostOnlyByRace
  ScanSeesSteady
PROPERTIES
  RestoreReindexes
