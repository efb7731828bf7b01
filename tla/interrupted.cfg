SPECIFICATION Spec
CONSTANTS
  Outputs = 3
  Kind <- AddTrack
  Deletions = 1
  TornAppends = TRUE
  MaxPowerLosses = 2
  MaxFailures = 2
CHECK_DEADLOCK FALSE
INVARIANTS
  IInv
  JournalProof
  Atomic
  DeletionsStick
PROPERTY InstallsAtomically
