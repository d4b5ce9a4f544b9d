CONSTANTS
  BYTE = 4
  LANES = 4
  Words <- MCWords
  Operands <- MCOperands
  Configs <- MCConfigs
  XWords <- MCXWords
  XOperands <- MCXOperands
  XConfigs <- MCXConfigs
SPECIFICATION MCSpec
INVARIANTS UniqueDecode SpecLegal Immediates Arithmetic BothWidths
  XUniqueDecode OperandsDeclared HardwareLoop PostIncrementWalks BitsExact OneOrder Products
