\* Three frames through one slot, two texts, one connect that may fail before
\* another: the network thread meets the stop at a full queue, in a read, with a
\* text posted, queued or half written, and the parser may fail at any frame.
CONSTANTS
  Capacity = 1
  Values = 3
  Texts = 2
  Attempts = 2
SPECIFICATION FeedSpec
INVARIANTS NothingLost ReadIsQueued
PROPERTIES IsChannel DisconnectEnds SendsGoOut
\* Everything may end: the feed is disconnected and the parser has returned.
CHECK_DEADLOCK FALSE
