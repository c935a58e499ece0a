CONSTANTS
  o1 = o1
  o2 = o2
  Owner = {o1, o2}
  NoOwner = NoOwner
  Port <- SyncPorts
  ManagerTTL = 3
  SyncTTL = 1
  Probeable = TRUE
  Heartbeats = TRUE
  MaxClock = 2
  MaxFence = 3
  MaxRevision = 3
SPECIFICATION FairSpec
CHECK_DEADLOCK FALSE
INVARIANTS
  TypeOK
  JournalInFenceOrder
PROPERTIES
  ImplementsFencedLog
  DeadHolderReplaced
