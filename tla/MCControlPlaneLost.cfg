SPECIFICATION FairSpec
CONSTANTS
  Jobs = {j1}
  Agents = {a1, a2}
  Threads = {t1}
  TTLs = {0}
  MaxToken = 1
  Grace = 0
  MaxRequests <- OneCreate
  MaxLost = 0
  MaxTimeouts = 0
  MaxRestarts = 0
  MaxCrashes = 1
  NULL = NULL
PROPERTY QueuedIsDiscoverable
