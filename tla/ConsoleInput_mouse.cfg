CONSTANTS
  CONSBUFSIZE = 3
  Chars <- MCChars
  MouseActive = TRUE
  TypeAhead = 2
SPECIFICATION FairSpec
PROPERTY KeyDelivered
