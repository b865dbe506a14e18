CONSTANTS
  HistWidth = 6
  IntBits = 3
  StackSize = 2
  Core = {0}
  Code <- Nested
  Msgs = {}
  Word <- MCWord
  XorOf <- MCXor
  TsRange = 4
  CountBound = 100
  TimeBound = 0
  CallDepth = 2
  Modes = {"BTM", "HTM"}
  Targets = {1, 6, 8, 9}
  HistMax = 2
  ICntMax = 5
  Lossy = FALSE
  Stops = FALSE
SPECIFICATION SysSpec
PROPERTIES StreamIsExecution HandlersAreMarked
CHECK_DEADLOCK FALSE
