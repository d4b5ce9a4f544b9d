SPECIFICATION Spec
CONSTANTS
  NRet = 2
  Pcs = {p1, p2}
  NoInsn = NoInsn
PROPERTIES EveryMismatchReported
