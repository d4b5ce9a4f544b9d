SPECIFICATION MCSpec
CONSTANTS
  Depth = 8
  NRet = 2
  Window = 2
  Orders = {0, 1, 2, 3, 4, 5, 6, 7, 8}
  Data <- MCData
  Programs <- MCPrograms
  Pcs = {0, 1}
  Regs = {0, 1}
  Values = {0, 1}
  NoPacket = NoPacket
  NoInsn = NoInsn
  Unknown = Unknown
  PowerUp <- OneContents
INVARIANTS TypeOK NeverFlagged MonitorSilent
PROPERTIES RefinesStream FaultReported
CHECK_DEADLOCK FALSE
