SPECIFICATION Spec
CONSTANTS
  Word = 64
  SymName = {"__ZTI1A", "_ZTI1A", "_ZTI1B", "__ZTVsi", "_ZTVsi", "_ZTVvmi", ""}
  Unprefixed <- MCUnprefixed
  Typeinfo = {"_ZTI1A", "_ZTI1B"}
  VtableKind <- MCVtableKind
  Image <- MCImage
  None = None
INVARIANTS
  TypeOK
  GivesLocalSymbols
  KindIsWhatDyldStores
  SoundImageAnswered
CHECK_DEADLOCK FALSE
