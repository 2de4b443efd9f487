\* A redial before BenchMultiplex fails at once, with -dr 1: the client waits forever.
SPECIFICATION FairSpec
CONSTANTS
  MaxSlots = 2
  DialRetries = 1
  NumWorkers = 1
  NumConns = 2
  DialConc = 2
  EchoConc = 2
  WarmupPerConn = 1
  EchoTimes = 3
  EchoLimited = FALSE
  RunRate = TRUE
  Batch = 2
  RateTicks = 1
  DialErrors = {"bind", "send"}
  MaxFaults = 3
PROPERTIES
  RatePrepEnds
CHECK_DEADLOCK FALSE
