SPECIFICATION TapSpec
CONSTANTS
  WordMod = 16
  Here = {1, 2}
  There = {3, 4}
  Ports = {5, 14}
  Protos = {6, 11}
  Flags = {0, 1, 3}
  Payloads <- NoOrOneWord
  OurPort = 5
  Kept = {2}
  Nothing = Nothing
  Broadcast = 15
  ArpTtl = 2
  ArpRetry = 1
  OurEth = 7
  OtherEth = 8
  HopEths = {9, 10}
  NextHop = 11
  TapMessages <- FromOneHost
  TickSizes = {1}
  MaxWritten = 2
INVARIANTS
  OnlyFromPeer
  RepliesUnderstood
  WrittenGoesOut
