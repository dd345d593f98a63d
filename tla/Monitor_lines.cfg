CONSTANTS
  MAXARGS = 3
  Lines <- MCLines
  CommandNames <- MCCommandNames
  Depth = 2
  MaxPanics = 3
SPECIFICATION Spec
INVARIANTS
  TypeOK
  ArgvHoldsArguments
  EveryLineAnswered
  PanicSaidOnce
PROPERTY BackToPrompt
