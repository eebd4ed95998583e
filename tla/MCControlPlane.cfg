SPECIFICATION Spec
CONSTANTS
  Jobs = {j1}
  Agents = {a1, a2}
  Threads = {t1}
  TTLs = {0}
  MaxToken = 1
  Grace = 0
  MaxRequests <- Resubmission
  MaxLost = 0
  MaxTimeouts = 1
  MaxRestarts = 1
  MaxCrashes = 1
  NULL = NULL
SYMMETRY Symmetry
INVARIANTS
  TypeOK
  WorkUnderOwnLease
  ClaimFindsJob
PROPERTIES
  RestoreRepublishes
  FinishedStaysFinished
