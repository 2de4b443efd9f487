SPECIFICATION SamplingFairSpec
CONSTANTS
  ATTEMPTS = 2
  Failures = 2
  Interval = 1
  Benchmarks = 2
  MaxClock = 4
  MaxMishaps = 2
INVARIANTS
  OwnUnlessLost
  IntervalUnlessFailed
PROPERTIES
  SamplesKept
  Finishes
