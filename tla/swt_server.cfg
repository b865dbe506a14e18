CONSTANTS
  Client = {c1, c2}
  None = None
  BufLen = 2
  Threshold = 0
  SockRoom = 1
  MaxBytes = 3
  MaxReplug = 1
SPECIFICATION Spec
INVARIANTS TypeOK NoLostWakeup Handshake SelectModeAnswersHold
PROPERTIES ListIsQuiet PassesBytesOn BytesGoOut
CHECK_DEADLOCK FALSE
