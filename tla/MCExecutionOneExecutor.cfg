SPECIFICATION Spec
CONSTANTS
  Jobs = {j1}
  Agents = {a1, a2}
  TTLs = {1}
  MaxToken = 2
  Grace = 0
  MaxFail = 3
  MaxFinish = 2
  NULL = NULL
SYMMETRY Symmetry
INVARIANTS
  AtMostOneExecutor
