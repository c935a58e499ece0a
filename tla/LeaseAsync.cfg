CONSTANTS
  o1 = o1
  o2 = o2
  Owner = {o1, o2}
  NoOwner = NoOwner
  Port <- AsyncPorts
  ManagerTTL = 1
  SyncTTL = 1
  Probeable = FALSE
  Heartbeats = TRUE
  MaxClock = 2
  MaxFence = 3
  MaxRevision = 3
SPECIFICATION Spec
CHECK_DEADLOCK FALSE
INVARIANTS
  OneOwnerPerFence
PROPERTIES
  NoLiveSteal
  ReleaseFinal
