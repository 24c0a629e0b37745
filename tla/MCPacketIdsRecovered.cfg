SPECIFICATION Spec
CHECK_DEADLOCK FALSE
CONSTANTS
  p1 = p1
  p2 = p2
  s1 = s1
  None = None
  Ops <- MCOps
  Kind <- MCKind
  FlushId <- MCFlushId
  Leftover = {1}
  MaxId = 3
INVARIANTS
  DistinctWhenRecovered
