SPECIFICATION Spec
CONSTANTS
  MOD = 20
  MaxPayload = 2
  RtTimeout = 2
  StreamLength = 5
  Byte <- Bytes
  Stream <- Numbered
  SenderIsn = 17
  SendCapacity = 4
  MaxWindow = 5
  MaxTries = 2
INVARIANTS
  TypeOK
  OutstandingIsInFlight
  TimerRunsWhileOutstanding
  SequenceSpaceAccounted
  SegmentsCarryStream
  SenderMatchesLoops
PROPERTIES
  StaysInWindow
