\* Two venues; delays of one tick, then two, then three at most; connections
\* may drop twice, which starts the delays over.
CONSTANTS
  Managed = {0, 1}
  Initial = 1
  MaxDelay = 3
  MaxDrops = 2
SPECIFICATION SupervisorSpec
PROPERTIES RetriesSpaced Reconnects
\* The supervisor ends once stopped, and stays in a Connect() that hangs.
CHECK_DEADLOCK FALSE
