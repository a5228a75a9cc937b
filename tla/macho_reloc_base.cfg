SPECIFICATION Spec
CONSTANTS
  Word = 64
  SymName = {"__ZTI1A", "_ZTI1A", "_ZTI1B", "__ZTVsi", "_ZTVsi", "_ZTVvmi", ""}
  Unprefixed <- MCUnprefixed
  Typeinfo = {"_ZTI1A", "_ZTI1B"}
  VtableKind <- MCVtableKind
  Image <- MCAllImage
  None = None
INVARIANT
  KindAtAnyBase
CHECK_DEADLOCK FALSE
