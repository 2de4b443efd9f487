SPECIFICATION RespondFairSpec
CONSTANTS
  Sids = {0, 4}
  Requests <- MCRequests
  MAX_BODY = 2
  MaxFaults = 1
INVARIANTS
  ResponseIsRight
  OwedExactly
PROPERTIES
  Answered
CHECK_DEADLOCK FALSE
