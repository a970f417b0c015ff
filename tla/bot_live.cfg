SPECIFICATION FairSpec
CONSTANTS
  b1 = b1
  b2 = b2
  Bots <- OneBot
  OrderIds <- Ids3
  InitQuote = 4
  InitBase = 0
  QuoteListedFirst = FALSE
  OtherLocks <- NoLocks
  MaxTimeouts = 1
  AttemptsNumber = 2
  MinSum = 2
  MaxSignals = 2
PROPERTIES
  BuyWatchEnds
  CreatingEnds
CHECK_DEADLOCK FALSE
