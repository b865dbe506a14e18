CONSTANTS
  PerWord = 2
  WordsPerRec = 2
  QSize = 5
  Programs <- VectorAndScalar
  CATypes = {"CATRACE_INSTRUCTION", "CATRACE_VECTOR"}
  TeStarts <- BeforeAndAfter
  MaxCycles = 8
  MaxIdle = 2
  Unset <- ClearOrSet
  MaxForward = 2
  SyncTries = 2
SPECIFICATION Spec
INVARIANTS
  OwnPipe
  OwnVector
  DepthsAreRight
  FlagsAreKept
CHECK_DEADLOCK FALSE
