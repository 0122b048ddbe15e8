SPECIFICATION MCSpec
CONSTANTS
  c1 = c1  c2 = c2
  Pids = {c1, c2}
  Workers = 2
  Daemon = TRUE
  MaxSignals = 2
  MaxDeaths = 2
  None = None
  k1 = k1  q1 = q1  q2 = q2  q3 = q3
  PollTasks = {k1}
  Conns = {q1, q2, q3}
  PoolSize = 1
  MaxReloads = 2
INVARIANTS Accounted StopLeavesNothing
PROPERTIES WorkersReplaced HupReachesChildren TermEnds ChildrenFollow ServesOn
CHECK_DEADLOCK FALSE
