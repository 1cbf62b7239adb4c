\* Every interleaving of ticks with three threads and Main, but for ticks
\* inside create_thread.
SPECIFICATION FairSpec
CONSTANTS
  Worker = {w1, w2, w3}
  Main = main
  NULL = null
  TickInCreate = FALSE
INVARIANTS
  SchedulerReady
  NoFault
  RingIsCircle
PROPERTIES
  JoinWaits
  TakesTurns
  JoinReturns
  NoStarvation
\* Every thread has been created and the application has nothing left to call.
CHECK_DEADLOCK FALSE
