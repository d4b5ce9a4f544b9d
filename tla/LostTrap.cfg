SPECIFICATION Spec
CONSTANTS
  NRet = 1
  Pcs = {p1, p2}
  NoInsn = NoInsn
PROPERTIES LostTrapReported
