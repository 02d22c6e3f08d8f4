\* Three commands of two clients, two of which may be a Start, with ids for
\* both and then none; one change of a venue's listing.
CONSTANTS
  MaxCounter = 2
  MaxCalls = 3
  Venues = {0, 1}
  Sinks = {0, 1}
  MaxInt = 1000
  KrakenDepths = {1}
  MaxSymbolLength = 2
  Clients = {c1, c2}
  Symbols <- MCSymbols
  AskedDepths = {0, 1}
  StrayIds = {512}
  Catalogue <- MCCatalogue
  Precision <- MCPrecision
  Lifetime = 1
  MaxCommands = 3
  MaxChanges = 1
SYMMETRY Symmetry
SPECIFICATION CommandsSpec
INVARIANTS IdsInOrder IdsReachTheirManager ListingsHold PairsCanStart
PROPERTIES RepliesHold PairsFresh
\* The commands are bounded.
CHECK_DEADLOCK FALSE
