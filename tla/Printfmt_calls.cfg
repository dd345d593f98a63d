CONSTANTS
  Characters <- MCCharacters
  Word = 16
  Strings <- MCStrings
  Glyph <- MCGlyph
  Messages <- MCMessages
  Calls <- MCCalls
  Sinks <- MCSinks
SPECIFICATION Spec
INVARIANTS PrintsMeaning IndexesInside BufferHoldsPrefix
PROPERTY Returns
CHECK_DEADLOCK FALSE
