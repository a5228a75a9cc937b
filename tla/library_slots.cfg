SPECIFICATION LibSpec
CONSTANTS
  Name = {"a.so", "b.so", "d/b.so"}
  Basename <- MCBasename
  Fold <- MCFold
  LoadAddr <- MCLoadAddr
  File <- ElfOne
  NumLibs = 6
  NoName = NoName
INVARIANTS
  SlotAlwaysFound
CHECK_DEADLOCK FALSE
