SPECIFICATION LifecycleFairSpec
CONSTANTS
  N = 3
  Setups <- MCSetups
  ServerStartRetries = 1
  MaxFailures = 2
INVARIANTS
  UpIsBound
  OnlyMeasured
  NothingLeftRunning
  ReportIsWhole
PROPERTY
  Ends
