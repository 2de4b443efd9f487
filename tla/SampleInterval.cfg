\* A sampler on one machine, whose reads may fail now and then.
SPECIFICATION SamplingSpec
CONSTANTS
  ATTEMPTS = 1
  Failures = 2
  Interval = 1
  Benchmarks = 1
  MaxClock = 5
  MaxMishaps = 1
INVARIANTS
  SampleIsOfInterval
