CONSTANTS
  NStabs = 6
  AddrMax = 3
  ULIM = 1
SPECIFICATION MCSpec
INVARIANTS
  ReadsInside
  FindsContainer
  EmptyWithoutMatch
  TableReadsInside
  FailsWithoutFile
  FunctionFound
PROPERTY Answers
CHECK_DEADLOCK FALSE
