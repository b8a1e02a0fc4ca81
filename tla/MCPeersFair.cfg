SPECIFICATION TimedSpec
CONSTANTS
  Client = client
  Server = server
  ClientBytes = 2
  ServerBytes = 1
  Byte <- Bytes
  Data <- Streams
  Isn <- Isns
  MOD = 16
  NoEof = NoEof
  SendCapacity = 2
  RecvCapacity = 2
  MaxPayload = 1
  RtTimeout = 1
  MaxRetx = 3
  LingerTime = 10
  MaxWindow = 3
  TickSizes = {1}
  Aborters = {}
  MaxInNet = 3
  MaxLosses = 1
  EmptyPath <- FifoEmpty
  Enter <- FifoEnter
  Arrivals <- FifoArrivals
  Losses <- FifoLosses
  OnPath <- FifoOnPath
PROPERTIES
  ClosesCleanly
CHECK_DEADLOCK FALSE
