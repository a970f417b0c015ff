SPECIFICATION Spec
CONSTANTS
  Digits = 2
  TickSizes <- Ticks
  StepSizes <- Steps
  Books <- SomeBooks
  InitQuotes <- Quotes
  MaxTrades = 2
INVARIANTS
  TypeOK
  BuyNearOffers
  BuySpendsMinSum
  SellsAllButDust
  SellsAboveBuy
  OrdersFitFilters
PROPERTIES
  TradesGain
CHECK_DEADLOCK FALSE
