CONSTANTS
  Top = 16
  Half = 1024
  Contents <- MCContents
SPECIFICATION StringsSpec
INVARIANTS MoveCopies SetFills DirectionClear ReadersRight CopiesRight StrtolRight
CHECK_DEADLOCK FALSE
