SPECIFICATION Spec
CONSTANTS
  WordModulus = 65536
  WordSize = 8
  Name = {".text", ".rodata", ".data", ".bss", "stack", "heap"}
  Byte <- MCByte
  ZeroByte = 0
  LoadWord <- MCLoadWord
  StoreWord <- MCStoreWord
  kExeVersion = 1
  SymbolName = {"a", "b", "c", "d", "e", "f", "k", "t", "u", "w", "x", ".Ls"}
  FileName = {"main"}
  HalfModulus = 256
  ImmediateModulus = 64
  ImmediateUse <- MCImmediateUse
  RegisterCount = 4
  Undecodable = Undecodable
  ByteModulus = 4
  LocalName = {".Ls"}
  NoSymbol = NoSymbol
  EvaluateBinary <- MCEvaluateBinary
  EvaluateUnary <- MCEvaluateUnary
  kMaxIterations = 8
  Unknown = Unknown
  BranchTaken <- MCBranchTaken
  NoFlags = {}
  Builds <- MCBuilds
  File = "main"
  StackDepth = 3
  MemoryWords = 4
  Fuel = 20
  NoObject = NoObject
INVARIANT SameBehaviour
INVARIANT LivenessIsExact
INVARIANT StatsBalance
INVARIANT StopsEarlyAtFixedPoint
INVARIANT SemaSuffices
INVARIANT LabelsDenoteTheirBytes
INVARIANT RelocationsFollowReferences
INVARIANT DebugEntriesDecode
CHECK_DEADLOCK FALSE
