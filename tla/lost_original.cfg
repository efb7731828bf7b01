SPECIFICATION Spec
CONSTANTS
  Outputs = 1
  Kind <- OneCompanion
  Deletions = 0
  TornAppends = FALSE
  MaxPowerLosses = 1
  MaxFailures = 1
CHECK_DEADLOCK FALSE
INVARIANT OriginalsRemain
