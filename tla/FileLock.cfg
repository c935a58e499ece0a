CONSTANTS
  Agent = {1, 2, 3}
  BestEffort = {3}
  Faults = {"crash", "timeout", "io"}
  PromptCreate = TRUE
  InodeReuse = FALSE
  MaxCalls <- OneComesBack
  MaxFaults = 2
  MaxTicket = 3
SPECIFICATION FairSpec
CHECK_DEADLOCK FALSE
INVARIANTS
  TypeOK
  MutualExclusion
  OneDeleter
  NoUpdateIsLost
PROPERTIES
  LiveLockStays
  LoneCallerEnters
