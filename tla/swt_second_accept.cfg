CONSTANTS
  Client = {c1, c2}
  None = None
  BufLen = 2
  Threshold = 0
  SockRoom = 1
  MaxBytes = 3
  MaxReplug = 0
SPECIFICATION Spec
INVARIANT AcceptFindsClient
CHECK_DEADLOCK FALSE
