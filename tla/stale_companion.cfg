CONSTANTS
  Devices <- MCDevices
  Profiles <- MCProfiles
  Requests <- MCRequests
  NewPids <- MCNewPids
  Backends <- SqliteOnly
  Removals <- OneRemoval
  Arts = {"none"}
  Rivals = {}
  MaxAdditions = 1
  MaxSlot = 1
  MaxWrites = 0
SPECIFICATION Spec
CHECK_DEADLOCK FALSE
INVARIANTS RemovedFromCdb
