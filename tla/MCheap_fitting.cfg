SPECIFICATION Spec
CONSTANTS
  WordModulus = 256
  WordSize = 2
  Name = {"text", "data", "stack", "heap"}
  Byte = {0, 1, 2, 3, 4, 5, 6, 7, 8, 9, 10, 11, 12, 13, 14, 15}
  ZeroByte = 0
  LoadWord <- MCLoadWord
  StoreWord <- MCStoreWord
  HeapBase = 32
  HeapSize = 10
  Others <- MCOthers
  Sizes <- FittingSizes
INVARIANT AnswersAreUsable
PROPERTY KeepsPromise
