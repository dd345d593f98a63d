CONSTANTS
  CONSBUFSIZE = 3
  Chars <- MCChars
  MouseActive = TRUE
  TypeAhead = 4
  MaxStored = 7
SPECIFICATION FairLedgerSpec
INVARIANT Conservation
PROPERTIES ImplementsConsQueue DeliveredUnlessLost
