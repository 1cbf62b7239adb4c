SPECIFICATION Spec
CONSTANTS
  Worker = {w1, w2}
  Main = main
  NULL = null
  TickInCreate = FALSE
INVARIANT TplPaired
CHECK_DEADLOCK FALSE
