\* One subscription and three faults: a gap opens while the last one is still
\* being closed. One frame slot, so the network thread blocks on a dead parser.
CONSTANTS
  s1 = s1
  i1 = i1
  i2 = i2
  shallow = shallow
  deep = deep
  Symbols <- OneSymbol
  Receivers <- OneId
  Depths <- OneDepth
  HasChecksum = TRUE
  Recordings <- Ones
  QueueCapacity = 1
  MaxSeq = 1
  MaxFaults = 3
SPECIFICATION Spec
PROPERTIES LifeCycleEnds GapEnds
\* The destructor ends everything.
CHECK_DEADLOCK FALSE
