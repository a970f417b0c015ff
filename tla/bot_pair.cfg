SPECIFICATION Spec
CONSTANTS
  b1 = b1
  b2 = b2
  Bots <- TwoBots
  OrderIds <- Ids3
  InitQuote = 2
  InitBase = 0
  QuoteListedFirst = TRUE
  OtherLocks <- NoLocks
  MaxTimeouts = 1
  AttemptsNumber = 2
  MinSum = 1
  MaxSignals = 1
SYMMETRY BotSymmetry
INVARIANTS
  TypeOK
  NoNilDereference
  ConfirmedOrderTracked
  WatchedOrderConfirmed
  UnsoldBaseHasACause
CHECK_DEADLOCK FALSE
