SPECIFICATION FairSpec
CONSTANTS
  Jobs = {j1}
  Agents = {a1}
  Threads = {t1}
  TTLs = {0}
  MaxToken = 1
  Grace = 0
  MaxRequests <- Submission
  MaxLost = 1
  MaxTimeouts = 0
  MaxRestarts = 1
  MaxCrashes = 0
  NULL = NULL
PROPERTIES
  QueuedIsAdvertised
