CONSTANTS
  p1 = p1
  p2 = p2
  c1 = c1
  c2 = c2
  v1 = v1
  v2 = v2
  NoCard = NoCard
  NoPayload = NoPayload
  Free = Free
  Dead = Dead
  Proc = {p1, p2}
  Card = {c1}
  Payload = {v1, v2}
  First = v1
  MaxCrash = 1
SPECIFICATION FairSpec
PROPERTIES
  DecisionReachesFile
