SPECIFICATION Spec
CONSTANTS
  StreamLength = 8
  Byte <- Bytes
  Stream <- Numbered
  Capacity = 4
  MaxMiscount = 4
  NoEof = NoEof
INVARIANTS
  InOrderDelivery
  ClosedFormMatchesLoops
PROPERTIES
  NeverForgetsWindow
  WindowAccepted
