SPECIFICATION ImpatientSpec
CONSTANTS
  c1 = c1
  c2 = c2
  Clients = {c1, c2}
  Requests <- MCRequests
  kMaxSourceBytes = 4
  kMaxOutputBytes = 5
  kMaxPlaygroundBudget = 10
  kDefaultPlaygroundBudget = 8
  kMaxRequestBytes = 7
  ChunkBytes = 3
  NoProgram = NoProgram
  Nobody = Nobody
INVARIANT RunsUntilInterrupted
CHECK_DEADLOCK FALSE
