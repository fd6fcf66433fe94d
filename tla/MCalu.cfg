SPECIFICATION Spec
CONSTANTS
  WordBits = 4
  BitAnd <- MCAnd
  BitOr <- MCOr
  BitXor <- MCXor
  NoComparison = NoComparison
INVARIANT BranchesCompareSigned
INVARIANT FlagsReportOverflow
INVARIANT DivisionIsExact
INVARIANT ShiftsCompose
