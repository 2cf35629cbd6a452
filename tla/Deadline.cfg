SPECIFICATION FairSpec
CONSTANTS
  Waiters = {w1, w2}
  SemValueMax = 1
  Readings <- MCReadings
  Timeouts <- MCTimeouts
CHECK_DEADLOCK FALSE
INVARIANT DeadlineExact
PROPERTIES NotEarly ImplementsSemaphore LateCallsReturn
