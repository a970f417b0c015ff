SPECIFICATION MarketSpec
CONSTANTS
  b1 = b1
  b2 = b2
  Bots <- TwoBots
  OrderIds <- Ids3
  InitQuote = 2
  InitBase = 0
  QuoteListedFirst = FALSE
  OtherLocks <- BaseLocks
  MaxTimeouts = 0
  AttemptsNumber = 1
  MinSum = 1
  MaxSignals = 1
PROPERTIES
  StoppedOrStuck
CHECK_DEADLOCK FALSE
