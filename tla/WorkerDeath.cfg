\* Two workers, of which one panics: the other keeps the channel of outcomes open.
SPECIFICATION FairSpec
CONSTANTS
  MaxSlots = 2
  DialRetries = 1
  NumWorkers = 2
  NumConns = 2
  DialConc = 2
  EchoConc = 2
  WarmupPerConn = 1
  EchoTimes = 2
  EchoLimited = FALSE
  RunRate = FALSE
  Batch = 1
  RateTicks = 1
  DialErrors = {"register"}
  MaxFaults = 2
PROPERTIES
  DeathNoticed
CHECK_DEADLOCK FALSE
