SPECIFICATION LibSpec
CONSTANTS
  Name = {"a.so", "A.so", "b.so", "d/b.so"}
  Basename <- MCBasename
  Fold <- MCFold
  LoadAddr <- MCLoadAddr
  File <- ElfOne
  NumLibs = 3
  NoName = NoName
INVARIANTS
  OneSlotPerDependency
  ReachesOnly
PROPERTIES
  LibTerminates
  ImplementsClosure
CHECK_DEADLOCK FALSE
