\* The notification falls between the waiter's check and its registration (expected violation).
CONSTANTS
  r1 = r1
  r2 = r2
  q1 = q1
  q2 = q2
  s1 = s1
  w1 = w1
  Runs = {r1}
  Queued = {}
  Sessions = {s1}
  Waiters = {w1}
  Droppable = {}
  Parallel = 1
  MaxIter = 2
  Preserved = {1, 2}
  KeepLast = 2
  MaxCalls = 1
  Aborts = FALSE
SPECIFICATION Spec
PROPERTY WaitReturns
CHECK_DEADLOCK FALSE
