SPECIFICATION Spec
CONSTANTS
  Char <- MCChar
  Prefix <- MCPrefix
  Mangled <- MCMangled
  CplusDemangle <- MCCplusDemangle
  ElfFile <- MCElfFile
  MaxDepends = 2
  SymSize = 16
  NUL = NUL
  Junk = Junk
  None = None
INVARIANTS
  TypeOK
  WritesInBuffer
  RewritesEveryClosing
  DependsAreNeeded
  SymbolsGiven
  SoundFileLoads
PROPERTIES
  ElfTerminates
CHECK_DEADLOCK FALSE
