SPECIFICATION Spec
CONSTANTS
  Word = 1024
  MaxRanges = 3
  MaxSegments = 2
  File <- MCAllFile
  Queries <- MCQueries
  None = None
INVARIANT
  ZerofillAccepted
CHECK_DEADLOCK FALSE
