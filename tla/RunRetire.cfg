CONSTANTS
  a = a
  b = b
  c = c
  d = d
  r = r
  w = w
  p = p
  q = q
  Node = {a, b, d, w}
  Base <- FanOut
  AnyJoin = {}
  Patch = {p}
  NoPatch = NoPatch
  Body <- Worker
  MaxExpansions = 1
  ReadNode = {a}
  Emits <- EmitsWorkers
  Output = {1, 2}
  Outcomes = {"completed"}
  Said = {}
  Faults = {"crash", "artifact"}
  FreshIds = TRUE
  MaxNodes = 5
  MaxWaves = 5
  MaxConcurrency = 2
  MaxActivations = 3
SPECIFICATION FairSpecRun
CHECK_DEADLOCK FALSE
INVARIANTS
  NoStaleEvidence
PROPERTIES
  ActivationEnds
