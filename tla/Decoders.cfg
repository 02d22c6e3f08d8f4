\* Coinbase: one product that is wanted and one that is not, four frames, and
\* a frame lost, damaged, repeated or overtaken, or a heartbeat that skips.
\* Kraken: two prices, of one and of two digits, one more than the depth of
\* the book and of its checksum.
CONSTANTS
  Products = {"a"}
  Others = {"z"}
  MaxFrames = 4
  MaxFaults = 1
  MaxInt = 2147483647
  NanoDigits = 1
  Prices = {9, 10}
  Quantities = {2, 10}
  Depths = {0, 1}
  ChecksumDepth = 1
  Decimals <- MCDecimals
  Times <- MCTimes
SPECIFICATION DecodersSpec
INVARIANTS EmittedUnbroken NothingPastLostHeartbeat BookIsVenues ChecksumsMatch ReplayIsBook DecodedAsMeant
\* Coinbase sends no more, or Kraken's decoder threw.
CHECK_DEADLOCK FALSE
