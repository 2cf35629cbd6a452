SPECIFICATION Spec
CONSTANTS
  Workers = {w1, w2}
  c1 = c1
  c2 = c2
  c3 = c3
  Clients = {c1, c2, c3}
  Tasks = {t1, t2, t3}
  QueueSize = 2
  MaxTry = 0
  QueueErrors = TRUE
  Calls <- CallsSafety
  None = None
CHECK_DEADLOCK FALSE
INVARIANTS TypeOK CountExact NodesOwned
PROPERTIES WaitSeesCounted OneLateTask ImplementsTaskPool
