SPECIFICATION MCSpec
CONSTANTS
  NRet = 2
  Pcs = {p1, p2}
  NoInsn = NoInsn
  RegNRet = 3
  Regs = {0, 1}
  Values = {0, 1}
  Unknown = Unknown
  InsnOperands = {"rs1"}
  Lanes = {0, 1}
  Bytes = {0, 1}
  Addrs = {0, 1}
  Causes = {1, 5, 7}
  Depth = 2
  Orders = {0, 1, 2}
  Data = {d1, d2}
  NoPacket = NoPacket
  PowerUp <- AnyContents
  MaxCursor = 3
INVARIANTS RegVerdictExact AcceptedIsRight MonitorCatches MonitorJustified FaultCause
  InOrderDelivery NoSilentLoss LateIsCaught
PROPERTIES MismatchReported NoFalseAlarm
CHECK_DEADLOCK FALSE
