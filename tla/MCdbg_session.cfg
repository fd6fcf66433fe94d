SPECIFICATION FairDebugSpec
CONSTANTS
  WordModulus = 256
  WordSize = 2
  Name = {"text", "data", "stack", "heap"}
  Byte = {0, 1, 2, 3, 4, 5, 6, 7, 8, 9, 10, 11, 12, 13, 14, 15}
  ZeroByte = 0
  LoadWord <- MCLoadWord
  StoreWord <- MCStoreWord
  kExeVersion = 1
  StackTop <- MCStackTop
  StackSize = 8
  HeapBase <- MCHeapBase
  HeapSize = 6
  MaxTransfer = 2
  Register <- MCRegister
  Flags <- MCFlags
  NoFlags = {}
  Decode <- MCDecode
  Undecodable = Undecodable
  EvaluateBinary <- MCEvaluateBinary
  EvaluateUnary <- MCEvaluateUnary
  BranchTaken <- MCBranchTaken
  Programs <- DebuggedPrograms
  Images <- ProgramImages
  Inputs <- MCInputs
  Budgets = {8}
  MaxInstructions = 13
  MaxLoads = 1
  NoImage = NoImage
  NoTrace = NoTrace
  BreakAddresses <- MCBreakAddresses
  WatchAddresses <- MCWatchAddresses
  MaxIds = 2
  MaxFrames = 32
  Lost = Lost
INVARIANT NoChangeOverlooked
INVARIANT SteppingStaysInFrame
INVARIANT BacktraceShowsCalls
PROPERTY NextStopsAtReturn
PROPERTY ContinueMakesProgress
PROPERTY BreakpointsAreShown
PROPERTY CommandsReturn
