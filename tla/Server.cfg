\* One connection and two streams: Books are dropped with one frame queued, the
\* connection with two, or with two commands pending; a Watch may replace
\* another, and either stream may end meanwhile.
CONSTANTS
  Sessions = {c1}
  Ids = {s1, s2}
  MaxQueued = 1
  MaxPending = 2
  CommandThreads = 1
  MaxCommands = 3
  MaxBooks = 1
  MaxHeartbeats = 1
SYMMETRY Symmetry
SPECIFICATION Spec
INVARIANTS GapsShow AnsweredInOrder NoStrayBooks ForgottenForGood
\* The destructor ends everything.
CHECK_DEADLOCK FALSE
