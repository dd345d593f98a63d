CONSTANTS
  Characters <- DocCharacters
  Word <- DocWord
  Strings <- MCStrings
  Glyph <- DocGlyph
  Messages <- MCMessages
  Calls <- DocCalls
  Sinks <- DocSinks
SPECIFICATION DocSpec
INVARIANT PrintsAsDocumented
CHECK_DEADLOCK FALSE
