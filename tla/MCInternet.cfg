SPECIFICATION FairSpec
CONSTANTS
  west = west
  east = east
  none = none
  Direct = none
  AddressBits = 3
  TtlMod = 8
  Broadcast = 99
  ArpTtl = 2
  ArpRetry = 1
  HostPort = {0, 4}
  RouterId = {west, east}
  Ports <- PortsOf
  Link <- Links
  EthOf <- Eths
  Gateway <- Gates
  Routes <- RouteSets
  Dgram <- Datagrams
INVARIANTS
  LongestPrefixChosen
  TtlSpent
PROPERTIES
  Settles
  Arrives
CHECK_DEADLOCK FALSE
