SPECIFICATION Spec
CONSTANTS
  b1 = b1
  b2 = b2
  Bots <- OneBot
  OrderIds <- Ids4
  InitQuote = 4
  InitBase = 0
  QuoteListedFirst = FALSE
  OtherLocks <- NoLocks
  MaxTimeouts = 1
  AttemptsNumber = 2
  MinSum = 2
  MaxSignals = 3
INVARIANTS
  AtMostTwoAfterStop
PROPERTIES
  FollowsTheCycle
CHECK_DEADLOCK FALSE
