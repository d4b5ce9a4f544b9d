SPECIFICATION Spec
CONSTANTS
  NRet = 2
  Orders = {0, 1, 2}
  Pcs = {p1, p2}
INVARIANTS HandlerAccepted
CHECK_DEADLOCK FALSE
