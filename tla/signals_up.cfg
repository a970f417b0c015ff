SPECIFICATION Spec
CONSTANTS
  b1 = b1
  b2 = b2
  Bots <- OneBot
  Forecasts <- Directions
  BatchSize = 2
  MaxSignals = 4
  MaxFailures = 1
  MaxKills = 1
INVARIANTS
  UpIsUp
CHECK_DEADLOCK FALSE
