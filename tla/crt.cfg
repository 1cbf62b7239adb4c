SPECIFICATION Spec
CONSTANTS
  Growth = 2
  MaxHandlers = 8
INVARIANTS TableHolds LastFirst
\* The program ends.
CHECK_DEADLOCK FALSE
