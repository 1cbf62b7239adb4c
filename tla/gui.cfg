SPECIFICATION Spec
CONSTANTS
  w1 = w1
  w2 = w2
  w3 = w3
  b1 = b1
  b2 = b2
  b3 = b3
  Windows <- MCWindows
  Bricks <- MCBricks
  NULL = null
  MAX_HOT_KEYS = 2
SYMMETRY SameBlocks
INVARIANTS TypeOK NoDangling ListsShown OneFocus
PROPERTY KeepsWindows
\* A program that deletes the window it uses may crash.
CHECK_DEADLOCK FALSE
