SPECIFICATION FairSpec
CONSTANTS
  Host = {h1, h2}
  EthOf <- Eths
  IpOf <- IpAddrs
  Broadcast = broadcast
  Dgram = {d1, d2}
  ArpTtl = 3
  ArpRetry = 2
  TickSizes = {1, 3}
  MaxLosses = 1
  MaxOnWire = 1
INVARIANTS
  ArpConsistent
  ArpTableTrue
  RequestsRateLimited
  DeliveredInOrder
  NothingForgotten
PROPERTIES
  AddressResolved
