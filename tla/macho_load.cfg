SPECIFICATION Spec
CONSTANTS
  Word = 1024
  MaxRanges = 3
  MaxSegments = 2
  File <- MCAllFile
  Queries <- MCQueries
  None = None
INVARIANTS
  TypeOK
  OneRangePerAddress
  RangesMatchCommands
  EverySectionLoaded
  AnswerInFile
  ContentReadable
  LegalFileLoads
  LoadInv
CHECK_DEADLOCK FALSE
