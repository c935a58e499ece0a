CONSTANTS
  a = a
  b = b
  c = c
  d = d
  r = r
  w = w
  p = p
  q = q
  Node = {a, b, c}
  Base <- Line
  AnyJoin = {}
  Patch = {}
  NoPatch = NoPatch
  Body <- NoBody
  MaxExpansions = 1
  ReadNode = {}
  Emits <- EmitsNone
  Output = {1}
  Outcomes = {"completed"}
  Said = {}
  Faults = {"crash"}
  FreshIds = FALSE
  MaxNodes = 5
  MaxWaves = 5
  MaxConcurrency = 2
  MaxActivations = 3
SPECIFICATION SpecRun
CHECK_DEADLOCK FALSE
INVARIANTS
  ReplayAccepts
