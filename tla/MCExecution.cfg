SPECIFICATION Spec
CONSTANTS
  Jobs = {j1}
  Agents = {a1, a2}
  TTLs = {1}
  MaxToken = 3
  Grace = 0
  MaxFail = 1
  MaxFinish = 2
  NULL = NULL
SYMMETRY Symmetry
INVARIANTS
  TypeOK
  LeaseShape
  RetryCountsLostLeases
  NoSharedToken
  ResultFromLatestLease
PROPERTIES
  LapseOnlyExpired
  OutcomeIsFinal
  ImplementsJobLease
