SPECIFICATION Spec
CONSTANTS
  MaxConns = 2
  MaxRequests = 3
  MaxMessages = 1
INVARIANTS
  AnswersInOrder
  StuckOnlyAfterGivingUp
PROPERTY
  TakenUp
CHECK_DEADLOCK FALSE
