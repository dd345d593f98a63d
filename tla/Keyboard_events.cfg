CONSTANTS
  Keys <- MCKeys
  Make <- MCMake
  Break <- MCBreak
  Layout <- MCLayout
  MaxHeld = 3
  MaxEvents = 2
SPECIFICATION Spec
INVARIANT NoStuckModifier
PROPERTIES OnlyChordResets ImplementsKeyEvents
