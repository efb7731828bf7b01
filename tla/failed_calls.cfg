SPECIFICATION FairSpec
CONSTANTS
  Outputs = 4
  Kind <- AddTrackWithArt
  Deletions = 1
  TornAppends = FALSE
  MaxPowerLosses = 0
  MaxFailures = 3
CHECK_DEADLOCK FALSE
INVARIANTS
  Recoverable
  NoDebris
PROPERTY Recovered
