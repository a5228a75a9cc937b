SPECIFICATION Spec
CONSTANTS
  Name = {"p.so", "d.so"}
  Basename <- MCBasename
  Fold <- MCFold
  LoadAddr <- MCLoadAddr
  File <- MCFile
  NumLibs = 3
  NoName = NoName
  SymName = {"TI_A", "TI_B", "TI_C", "main"}
  Typeinfo <- MCTypeinfo
  Demangled <- MCDemangled
  Filters <- MCFilters
  Memories <- MCMemories
  Depth <- MCDepth
  IndentSize = 16
INVARIANTS
  TypeOK
  PrimaryWins
  EveryPrimaryClassPrinted
  LookupSound
  NestingBounded
  WarnsOnlyWithCause
  PrintsHierarchy
PROPERTIES
  GraphTerminates
CHECK_DEADLOCK FALSE
