\* One worker, with more ticks than batches may be in flight, which may die after
\* errors to register a socket.
SPECIFICATION FairSpec
CONSTANTS
  MaxSlots = 3
  DialRetries = 2
  NumWorkers = 1
  NumConns = 1
  DialConc = 2
  EchoConc = 2
  WarmupPerConn = 1
  EchoTimes = 3
  EchoLimited = FALSE
  RunRate = TRUE
  Batch = 2
  RateTicks = 5
  DialErrors = {"bind", "register", "send"}
  MaxFaults = 3
INVARIANTS
  RateWindow
PROPERTIES
  Completes
