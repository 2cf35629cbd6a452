SPECIFICATION Spec
CONSTANTS
  Impls = {"thpool"}
  N = 2
  QueueSize = 1
  Clients = {c1}
  Failures = {"spawn"}
  None = None
CHECK_DEADLOCK FALSE
INVARIANT FailedCreateIsSafe
