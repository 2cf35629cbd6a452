SPECIFICATION FairSpec
CONSTANTS
  Impls = {"thpool", "lfthpool"}
  N = 2
  QueueSize = 2
  Clients = {c1, c2}
  Failures = {"pool", "arrays", "lock", "notify", "notify_empty", "spawn"}
  None = None
CHECK_DEADLOCK FALSE
INVARIANTS WorkersOnLivePool NothingLeaks FaultsConfined
PROPERTY CallsReturn
