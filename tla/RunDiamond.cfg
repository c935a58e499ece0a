CONSTANTS
  a = a
  b = b
  c = c
  d = d
  r = r
  w = w
  p = p
  q = q
  Node = {a, b, c, d, r}
  Base <- Diamond
  AnyJoin = {r}
  Patch = {}
  NoPatch = NoPatch
  Body <- NoBody
  MaxExpansions = 0
  ReadNode = {b}
  Emits <- EmitsNone
  Output = {1, 2}
  Outcomes = {"completed", "node"}
  Said = {}
  Faults = {"crash", "artifact"}
  FreshIds = FALSE
  MaxNodes = 4
  MaxWaves = 5
  MaxConcurrency = 2
  MaxActivations = 3
SPECIFICATION SpecRun
CHECK_DEADLOCK FALSE
INVARIANTS
  RefusalsExplained
  DurableBeforeObserved
PROPERTIES
  SettledWorkIsKept
