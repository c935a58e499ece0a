CONSTANTS
  c1 = c1
  c2 = c2
  c3 = c3
  a1 = a1
  None = None
  Call = {c1, c3}
  Child = {c3}
  Native = {c1}
  Irreversible = {c1, c3}
  Target = {"a"}
  TargetOf <- OneTarget
  Approval = {a1}
  Names <- NamesA
  MaxAttempt = 2
  MaxCrash = 1
SPECIFICATION FairSpec
CHECK_DEADLOCK FALSE
INVARIANTS
  NoUnconsentedResend
  NoReplayAfterWrite
PROPERTIES
  WaitEnds
