SPECIFICATION FairSpec
CONSTANTS
  Byte <- Bytes
  Typed <- ToType
  FarData <- ToWrite
  BufferSize = 2
  MaxCopyLength = 2
  Room = 1
PROPERTIES
  CopiesBothWays
  Completes
CHECK_DEADLOCK FALSE
