SPECIFICATION Spec
CONSTANTS
  OwnerBytes = 1
  PeerBytes = 2
  Byte <- Bytes
  OwnerData <- ToSend
  PeerData <- ToRead
  OwnerIsn = 14
  PeerIsn = 15
  MOD = 16
  NoEof = NoEof
  Capacity = 2
  PipeRoom = 1
  Resets = TRUE
  MaxPayload = 1
  RtTimeout = 1
  MaxRetx = 1
  LingerTime = 1
  MaxWindow = 3
INVARIANT
  AcceptsAdvertised
CHECK_DEADLOCK FALSE
