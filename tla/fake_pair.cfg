SPECIFICATION Spec
CONSTANTS
  c1 = c1
  c2 = c2
  Clients <- TwoClients
  MaxOrders = 3
  Prices <- OneOrTwo
  Amounts <- One
  InitQuote = 2
  LeastSum = 1
SYMMETRY ClientSymmetry
INVARIANTS
  TypeOK
  MissedOnlyBehindACancel
  OverdraftNeedsOverlap
PROPERTIES
  OrdersLeaveForAReason
CHECK_DEADLOCK FALSE
