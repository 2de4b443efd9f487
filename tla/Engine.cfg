\* Two workers with one and two connections through every benchmark, which they
\* share; two faults.
SPECIFICATION Spec
CONSTANTS
  MaxSlots = 2
  DialRetries = 2
  NumWorkers = 2
  NumConns = 3
  DialConc = 1
  EchoConc = 2
  WarmupPerConn = 1
  EchoTimes = 2
  EchoLimited = TRUE
  RunRate = TRUE
  Batch = 1
  RateTicks = 1
  DialErrors = {"bind", "send"}
  MaxFaults = 2
INVARIANTS
  EInv
  EchoExact
  DialsExact
  BudgetSpent
  DrawsPartition
PROPERTIES
  DialsOnlyBroken
  RunsInRounds
