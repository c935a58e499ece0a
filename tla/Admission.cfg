CONSTANTS
  c1 = c1
  c2 = c2
  c3 = c3
  a1 = a1
  None = None
  Call = {c1, c2, c3}
  Child = {c2, c3}
  Native = {c1}
  Irreversible = {c1, c2, c3}
  Target = {"a"}
  TargetOf <- OneTarget
  Approval = {a1}
  Names <- NamesA
  MaxAttempt = 1
  MaxCrash = 0
SPECIFICATION Spec
SYMMETRY Peers
CHECK_DEADLOCK FALSE
INVARIANTS
  TypeOK
  NoUnconsentedResend
  RetryOnce
PROPERTIES
  VerdictStands
