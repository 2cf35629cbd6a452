SPECIFICATION MonitorsSpec
CONSTANTS
  Threads = {t1, t2, t3}
  RoundMod = 2
  Waiters = {t1, t2, t3}
  Signallers = {s1}
  None = None
CHECK_DEADLOCK FALSE
INVARIANTS LeftCounts NobodyLeftAsleep
PROPERTIES NoStragglers ImplementsBarrier ReleasedLeave BroadcastReleases SignalsRelease
