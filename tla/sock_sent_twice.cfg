SPECIFICATION Spec
CONSTANTS
  s1 = s1
  s2 = s2
  s3 = s3
  Fds <- MCFds
  Memory <- MCMemory
  NULL = null
  ErrorFds <- MCErrorFds
  MaxSends = 2
SYMMETRY Blocks
INVARIANTS SentOnce
\* The program may have used all the memory and closed all its sockets.
CHECK_DEADLOCK FALSE
