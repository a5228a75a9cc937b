SPECIFICATION Spec
CONSTANTS
  Bits64 = 16
  Bits32 = 9
  Inputs <- MCInputs
  Segs <- MCSegs
  None = None
INVARIANTS
  TypeOK
  StaysInTable
  ReturnsWholeTable
  DecodesProgram
CHECK_DEADLOCK FALSE
