SPECIFICATION FairSpec
CONSTANTS
  Outputs = 4
  Kind <- AddTrackWithArt
  Deletions = 1
  TornAppends = FALSE
  MaxPowerLosses = 3
  MaxFailures = 0
CHECK_DEADLOCK FALSE
INVARIANTS
  TypeOK
  Recoverable
  OriginalKept
  Strengthened
PROPERTY Recovered
