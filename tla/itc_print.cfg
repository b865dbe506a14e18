CONSTANTS
  Core = {c1, c2}
  Node = {n1, n2, n3, n4}
  None = None
  BuffSize = 5
  Words <- ShortWords
  Strings <- SomeStrings
  DstLens = {99}
  MaxPending = 1
  NLSRoom = 2
  MaxTime = 4
SPECIFICATION Spec
SYMMETRY Cores
INVARIANTS TypeOK CountsItsMessages AnnouncedCanBeFetched NodesAreOwned PrevIsOldest
PROPERTIES TextComesOut
CHECK_DEADLOCK FALSE
