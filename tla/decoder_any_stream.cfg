CONSTANTS
  HistWidth = 4
  IntBits = 2
  StackSize = 1
  Core = {0, 1}
  Code <- MCCode
  Msgs <- TwoCoreMsgs
  Word <- MCWord
  XorOf <- MCXor
  TsRange = 4
  CountBound = 1
  TimeBound = 5
SPECIFICATION Spec
INVARIANTS TypeOK OneMessageInWork OutcomesUsedUp
PROPERTIES TimeNeverGoesBack LeftoverIsABranch
CHECK_DEADLOCK FALSE
