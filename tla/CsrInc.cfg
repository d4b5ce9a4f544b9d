SPECIFICATION Spec
CONSTANTS
  NRet = 1
  ChannelIdx = 0
  ResetCycles = 1
  TrigCycle = 2
  CheckCycle = 4
  CycleMax = 255
  CsrValues = {0, 1, 2}
  TopBit = 2
  NoInsn = NoInsn
INVARIANTS CounterAccepted
CHECK_DEADLOCK FALSE
