CONSTANTS
  a = a
  b = b
  c = c
  d = d
  r = r
  w = w
  p = p
  q = q
  Node = {a, b, c, d, r, w}
  Base <- Merge
  AnyJoin = {d}
  Patch = {p, q}
  NoPatch = NoPatch
  Body <- Workers
  MaxExpansions = 1
  ReadNode = {}
  Emits <- EmitsWorkers
  Output = {1}
  Outcomes = {"completed", "node", "infrastructure", "blocked", "paused", "cancelled"}
  Said <- Labels
  Faults = {"crash", "abort", "late", "append", "corrupt", "artifact", "admitter"}
  FreshIds = TRUE
  MaxNodes = 3
  MaxWaves = 3
  MaxConcurrency = 2
  MaxActivations = 2
SPECIFICATION SpecRun
CHECK_DEADLOCK FALSE
INVARIANTS
  TypeOK
  ClaimBeforeDispatch
  BudgetRespected
PROPERTIES
  ImplementsHistory
