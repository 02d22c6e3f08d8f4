\* One subscription; a checksum mismatch and a dropped connection.
CONSTANTS
  s1 = s1
  i1 = i1
  i2 = i2
  shallow = shallow
  deep = deep
  Symbols <- OneSymbol
  Receivers <- OneId
  Depths <- OneDepth
  HasChecksum = TRUE
  Recordings <- Ones
  QueueCapacity = 2
  MaxSeq = 1
  MaxFaults = 2
SPECIFICATION Safety
PROPERTIES BreaksAreTold
\* The destructor ends everything.
CHECK_DEADLOCK FALSE
