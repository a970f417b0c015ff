SPECIFICATION FairSpec
CONSTANTS
  b1 = b1
  b2 = b2
  Bots <- OneBot
  OrderIds <- Ids3
  InitQuote = 2
  InitBase = 0
  QuoteListedFirst = FALSE
  OtherLocks <- NoLocks
  MaxTimeouts = 0
  AttemptsNumber = 2
  MinSum = 2
  MaxSignals = 1
PROPERTIES
  StartRetries
CHECK_DEADLOCK FALSE
