CONSTANTS
  CRT_ROWS = 3
  CRT_COLS = 2
  BUFLEN = 4
  Glyphs <- MCGlyphs
  Typed <- MCTyped
SPECIFICATION Spec
INVARIANT EchoMatchesBuffer
PROPERTY ImplementsLineEditor
