SPECIFICATION Spec
CONSTANTS
  SrcBits = 3
  VarMax = 14
  WordBits = 8
  BufSize = 4
  MsgMax = 8
  DataMax = 24
  MaxBytes = 5
  MaxNoise = 2
  Messages <- FewMessages
  SoleMessages <- EveryMessage
  Noise <- SomeNoise
  Junk <- SomeJunk
INVARIANTS
  TypeOK
  RingHoldsStream
  StopsForDamage
  SameMessages
PROPERTIES
  MessagesComeOut
  EverythingIsRead
CHECK_DEADLOCK FALSE
