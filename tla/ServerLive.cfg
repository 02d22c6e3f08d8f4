\* Two connections share one command thread; each may have a command, a stream
\* publishes a Book, and the destructor may run at any time.
CONSTANTS
  Sessions = {c1, c2}
  Ids = {1}
  MaxQueued = 1
  MaxPending = 1
  CommandThreads = 1
  MaxCommands = 1
  MaxBooks = 1
  MaxHeartbeats = 0
SPECIFICATION Spec
PROPERTIES ShutdownEnds DroppedIsForgotten
\* The destructor ends everything.
CHECK_DEADLOCK FALSE
