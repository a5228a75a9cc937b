SPECIFICATION LibSpec
CONSTANTS
  Name = {"a.so", "b.so", "c.so"}
  Basename <- MCBasename
  Fold <- MCFold
  LoadAddr <- MCLoadAddr
  File <- ElfTwo
  NumLibs = 4
  NoName = NoName
INVARIANTS
  LibTypeOK
  IterationSeesAll
  ClosedAtReturn
  TableSuffices
  LibInv
CHECK_DEADLOCK FALSE
