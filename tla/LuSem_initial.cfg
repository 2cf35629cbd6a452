SPECIFICATION Spec
CONSTANTS
  Threads = {p1, p2}
  InitialCount = 1
  MaxSpins = 1
  MaxSignals = 1
  SemValueMax = 3
CHECK_DEADLOCK FALSE
INVARIANT NoExtraTokens
