SPECIFICATION Spec
CONSTANTS
  WordModulus = 4096
  WordSize = 2
  Name = {".text", ".rodata", ".data", ".bss", "stack", "heap"}
  Byte <- MCByte
  ZeroByte = 0
  LoadWord <- MCLoadWord
  StoreWord <- MCStoreWord
  kExeVersion = 1
  SymbolName = {"_start", "f", "w", "l"}
  FileName = {"a", "b", "c", "d"}
  HalfModulus = 64
  ImmediateModulus = 256
  ImmediateUse <- MCImmediateUse
  TextBase = 16
  RodataBase = 28
  DataBase = 40
  BssBase = 52
  kRegionSize = 12
  Entry = "_start"
  KeepLocalSymbols = TRUE
  CommandLines <- MCCommandLines
  NoExecutable = NoExecutable
INVARIANT ContributionsDisjoint
INVARIANT RightDefinition
INVARIANT FieldsArePatched
INVARIANT SectionsSurvive
INVARIANT RefusedForItsEntry
INVARIANT LinesNameTheirSource
CHECK_DEADLOCK FALSE
