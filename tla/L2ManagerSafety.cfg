\* Two ids that both record one pair at either of two depths, checksums; two
\* frame slots, a snapshot and two updates per stream, two faults: a mismatch
\* or a bad frame on top of a dropped connection, during any Subscribe().
CONSTANTS
  s1 = s1
  i1 = i1
  i2 = i2
  shallow = shallow
  deep = deep
  Symbols <- OneSymbol
  Receivers <- TwoIds
  Depths <- TwoDepths
  HasChecksum = TRUE
  Recordings <- TwoRecordings
  QueueCapacity = 2
  MaxSeq = 2
  MaxFaults = 2
SYMMETRY Symmetry
SPECIFICATION Safety
INVARIANTS RoutedOncePerPair FullyConnectedOrNot CheckedBookIsReceivers VenueFollowsSubscriptions
PROPERTIES KeepsContract AnswersHold
\* The destructor ends everything.
CHECK_DEADLOCK FALSE
