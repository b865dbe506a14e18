CONSTANTS
  HistWidth = 6
  IntBits = 3
  StackSize = 2
  Core = {0, 1}
  Code <- ShortLoop
  Msgs = {}
  Word <- MCWord
  XorOf <- MCXor
  TsRange = 4
  CountBound = 100
  TimeBound = 0
  CallDepth = 2
  Modes = {"BTM", "HTM"}
  Targets = {1}
  HistMax = 2
  ICntMax = 2
  Lossy = TRUE
  Stops = TRUE
SPECIFICATION SysSpec
PROPERTIES ReturnsTheExecution
CHECK_DEADLOCK FALSE
