CONSTANTS
  CRT_ROWS = 2
  CRT_COLS = 3
  Glyphs <- MCGlyphs
  MaxGone = 4
SPECIFICATION HistorySpec
INVARIANT CursorOnScreen
PROPERTY ImplementsPaper
