CONSTANTS
  Core = {c1}
  Node = {n1, n2, n3}
  None = None
  BuffSize = 12
  Words <- LineWords
  Strings = {}
  DstLens = {99}
  MaxPending = 2
  NLSRoom = 0
  MaxTime = 5
SPECIFICATION Spec
INVARIANTS PrevIsOldest
CHECK_DEADLOCK FALSE
