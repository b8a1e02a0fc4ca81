SPECIFICATION Spec
CONSTANTS
  Client = client
  Server = server
  ClientBytes = 1
  ServerBytes = 0
  Byte <- Bytes
  Data <- Streams
  Isn <- Isns
  MOD = 16
  NoEof = NoEof
  SendCapacity = 2
  RecvCapacity = 2
  MaxPayload = 1
  RtTimeout = 1
  MaxRetx = 1
  LingerTime = 4
  MaxWindow = 3
  TickSizes = {4}
  Aborters = {server}
  MaxInNet = 4
  MaxLosses = 0
  EmptyPath <- AnyOrderEmpty
  Enter <- AnyOrderEnter
  Arrivals <- AnyOrderArrivals
  Losses <- AnyOrderLosses
  OnPath <- AnyOrderOnPath
INVARIANTS
  AcksAreTruthful
  CleanCloseDeliversAll
  SomeoneLingers
PROPERTIES
  PipeToServer
CHECK_DEADLOCK FALSE
