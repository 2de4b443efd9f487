\* One slot through several dials; the keepalive time is a second and a half.
SPECIFICATION FairSpec
CONSTANTS
  NumSlots = 1
  MaxTime = 7
  Span = 2
  Second = 2
  IdleTimeout = 12
  DialTimeout = 2
  MaxTimers = 3
  MaxFaults = 1
INVARIANTS
  TimersArmed
  NothingUnflushed
  QuietIsPinged
PROPERTIES
  AttemptsEnd
