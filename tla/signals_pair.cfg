SPECIFICATION FairSpec
CONSTANTS
  b1 = b1
  b2 = b2
  Bots <- TwoBots
  Forecasts <- Rising
  BatchSize = 2
  MaxSignals = 4
  MaxFailures = 1
  MaxKills = 1
INVARIANTS
  TypeOK
  RowsInOrder
  SignalsAccounted
  BatchBounded
  HeaderOnTop
PROPERTIES
  BatchesAreFlushed
CHECK_DEADLOCK FALSE
