SPECIFICATION ConsoleSpec
CONSTANTS
  h1 = h1
  h2 = h2
  n1 = n1
  n2 = n2
  Handlers <- TwoHandlers
  Names <- TwoNames
  Unknown = n1
  MaxAgents = 4
  MaxRuns = 4
  MaxRequests = 4
  MaxLate = 3
INVARIANTS
  ConsoleTypeOK
  OverlapNeedsAbandoning
PROPERTIES
  RepeatsChangeNothing
  PromptReturns
CHECK_DEADLOCK FALSE
