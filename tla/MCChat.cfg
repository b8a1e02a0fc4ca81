SPECIFICATION Spec
CONSTANTS
  Conn = {c1, c2, c3, c4}
  NoConn = NoConn
  MAX_CLIENTS = 3
SYMMETRY Clients
INVARIANTS
  CountsHandlers
  IdsAscend
  ServesSomebody
CHECK_DEADLOCK FALSE
