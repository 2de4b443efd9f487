SPECIFICATION FairSpec
CONSTANTS
  NumSockets = 2
  Ids = {d1, d2, d3, d4}
  READ_BUDGET = 2
  MaxClients = 2
  MaxArrivals = 3
  MaxTime = 3
  Span = 2
INVARIANTS
  SInv
  IdsExact
  TimersArmed
PROPERTIES
  AllRead
