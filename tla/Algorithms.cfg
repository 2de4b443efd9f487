\* Up to three requests of two workers and three samples; three frameworks; up to
\* five CPUs.
SPECIFICATION Spec
CONSTANTS
  Workers = {1, 2}
  Costs = {1, 2, 4}
  Errors = {"reset", "timeout"}
  MaxOps = 3
  Used = {0, 2}
  Sample = {0, 3}
  MaxSamples = 3
  N = 3
  Measured <- MCMeasured
  Scale = 24
  Machines <- MCMachines
  Asked = {0, 1, 2, 3, 4}
INVARIANTS
  CountsEveryRequest
  PercentilesExact
  FirstSampleLeftOut
  RowsInOrder
  ShownAsMeasured
  OnlyBestIsWhole
  BothGetCpus
  CoresWhole
  Balanced
  DockerAsAsked
CHECK_DEADLOCK FALSE
