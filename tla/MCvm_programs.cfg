SPECIFICATION Spec
CONSTANTS
  WordModulus = 256
  WordSize = 2
  Name = {"text", "data", "stack", "heap"}
  Byte = {0, 1, 2, 3, 4, 5, 6, 7, 8, 9, 10, 11, 12, 13, 14, 15}
  ZeroByte = 0
  LoadWord <- MCLoadWord
  StoreWord <- MCStoreWord
  kExeVersion = 1
  StackTop <- MCStackTop
  StackSize = 4
  HeapBase <- MCHeapBase
  HeapSize = 6
  MaxTransfer = 2
  Register <- MCRegister
  Flags <- MCFlags
  NoFlags = {}
  Decode <- MCDecode
  Undecodable = Undecodable
  EvaluateBinary <- MCEvaluateBinary
  EvaluateUnary <- MCEvaluateUnary
  BranchTaken <- MCBranchTaken
  Programs <- SweptPrograms
  Images <- ProgramImages
  Inputs <- MCInputs
  Budgets = {0, 3}
  MaxInstructions = 8
  MaxLoads = 1
  NoImage = NoImage
  NoTrace = NoTrace
INVARIANT TypeOK
INVARIANT ExecutesImageCode
PROPERTY StackErrorsAreNamed
PROPERTY FaultsArePrecise
PROPERTY RunReportIsHonest
