CONSTANTS
  MaxRow = 4
  Five = 3
  MaxMoves = 8
  Patterns <- Config
SPECIFICATION Game
INVARIANT EndExact
PROPERTY PlaysFree
CHECK_DEADLOCK FALSE
