\* A tick may also land between any two stores of create_thread.
SPECIFICATION Spec
CONSTANTS
  Worker = {w1, w2, w3}
  Main = main
  NULL = null
  TickInCreate = TRUE
INVARIANTS
  StackSafe
  NoStackLeak
  WorkerUnlocked
\* The program stops at a fault.
CHECK_DEADLOCK FALSE
