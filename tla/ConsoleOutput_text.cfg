CONSTANTS
  x = x
  TAB = TAB
  SPACE = SPACE
  Chars <- MCChars
  LIMIT = 2
  MaxChars = 2
SPECIFICATION FairSpec
INVARIANT EverythingPrinted
PROPERTY PutcReturns
CHECK_DEADLOCK FALSE
