\* Two venues: one hangs while the other is down.  No connection drops.
CONSTANTS
  Managed = {0, 1}
  Initial = 1
  MaxDelay = 3
  MaxDrops = 0
SPECIFICATION SupervisorSpec
PROPERTIES EveryVenueReconnects
\* The supervisor ends once stopped, and stays in a Connect() that hangs.
CHECK_DEADLOCK FALSE
