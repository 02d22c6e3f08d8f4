\* Three recordings of the pair, five messages or gaps, two seconds: a second
\* file starts and ends in the same seconds as the first. One failure.
\* One stream and two clients, which may watch it twice each; four messages or
\* gaps, so a gap opens and ends, and an update follows the new snapshot.
CONSTANTS
  QueueCapacity = 2
  MaxWriters = 3
  MaxEntries = 5
  MaxTime = 1
  MaxFaults = 1
  Ids = {l1}
  Watchers = {w1, w2}
  MaxMessages = 4
  MaxCalls = 3
SPECIFICATION ReceiversSpec
INVARIANTS FilesAreStretches NothingLost WatchersHaveBook WatchedAsWanted
PROPERTIES RecordingsKept
\* Everything may have been received, nothing has to be recorded again, and
\* messages and calls are bounded.
CHECK_DEADLOCK FALSE
