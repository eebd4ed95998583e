SPECIFICATION Spec
CONSTANTS
  Seconds = {1, 2, 3, 4, 5, 6, 7, 8}
  MaxTTL = 7
  DefaultTTL = 2
  MaxFail = 3
  Timeout = 3
  Wait = 4
INVARIANTS
  TypeOK
  RenewedInTime
  CorrectionSuffices
