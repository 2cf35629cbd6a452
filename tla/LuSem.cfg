SPECIFICATION FairSpec
CONSTANTS
  Threads = {p1, p2}
  InitialCount = 1
  MaxSpins = 1
  MaxSignals = 3
  SemValueMax = 3
CHECK_DEADLOCK FALSE
INVARIANTS TokensConserved PostsSucceed
PROPERTIES ImplementsSemaphore TokensWake TimedWaitReturns
