\* A redial that cannot register its socket leaves its slot empty.
SPECIFICATION Spec
CONSTANTS
  MaxSlots = 4
  DialRetries = 1
  NumWorkers = 1
  NumConns = 2
  DialConc = 2
  EchoConc = 2
  WarmupPerConn = 1
  EchoTimes = 3
  EchoLimited = FALSE
  RunRate = FALSE
  Batch = 2
  RateTicks = 2
  DialErrors = {"register"}
  MaxFaults = 2
INVARIANTS
  IdleSlotsOccupied
