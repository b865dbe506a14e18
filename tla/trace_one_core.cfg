CONSTANTS
  HistWidth = 6
  IntBits = 3
  StackSize = 2
  Core = {0}
  Code <- LoopAndCall
  Msgs = {}
  Word <- MCWord
  XorOf <- MCXor
  TsRange = 4
  CountBound = 100
  TimeBound = 0
  CallDepth = 2
  Modes = {"BTM", "HTM"}
  Targets = {1, 8}
  HistMax = 2
  ICntMax = 4
  Lossy = TRUE
  Stops = TRUE
SPECIFICATION SysSpec
INVARIANTS NothingHeldBack DecoderInStep NeverRefused
PROPERTIES StreamIsExecution KeepsUp
CHECK_DEADLOCK FALSE
