SPECIFICATION FairSpec
CONSTANTS
  h1 = h1
  h2 = h2
  h3 = h3
  n1 = n1
  n2 = n2
  Handlers <- ThreeHandlers
  Names <- TwoNames
  MaxAgents = 5
  MaxRuns = 5
  MaxRequests = 5
INVARIANTS
  TypeOK
  CancelMatchesContext
  StoppedIsBeingDeleted
  OneMachinePerBot
  DeletedMachinesStop
PROPERTIES
  NamesAreNotReused
  RequestsEnd
CHECK_DEADLOCK FALSE
