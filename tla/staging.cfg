CONSTANTS
  Devices <- MCDevices
  Profiles <- MCProfiles
  Requests <- MCRequests
  NewPids <- MCNewPids
  Backends <- BothBackends
  Removals <- SomeRemovals
  Arts = {"none", "new", "reuse"}
  Rivals <- MCRivals
  MaxAdditions = 2
  MaxSlot = 2
  MaxWrites = 1
SPECIFICATION Spec
CHECK_DEADLOCK FALSE
INVARIANTS TypeOK OwnImages NoUnreferencedSlots Installable OneGeneration RefusedForCause
