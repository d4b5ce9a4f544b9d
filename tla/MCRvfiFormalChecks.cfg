SPECIFICATION MCSpec
CONSTANTS
  NRet = 2
  Orders = {0, 1, 2}
  Values = {0, 1}
  NoInsn = NoInsn
  ChannelIdx = 1
  ResetCycles = 1
  TrigCycle = 2
  CheckCycle = 4
  CycleMax = 255
  Regs = {1, 2}
  Operands = {"rs1"}
  Pcs = {p1, p2}
  NBus = 2
  MaxBus = 4
  CsrValues = {0, 1, 2}
  TopBit = 2
INVARIANTS
  StaleReadCaught RegAlarmJustified RegVerdictExact
  UniqueExact ProgressExact
  FwdSound BwdSound PairCovered
  IoReachesBusInOrder OrderedIoAccepted
  CsrVerdictExact
CHECK_DEADLOCK FALSE
