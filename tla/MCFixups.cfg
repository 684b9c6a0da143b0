CONSTANTS
  Threads = {t1, t2}
  Objects = {o1, o2, o3}
  None = None
  MaxDepth = 2
  MaxInits = 4
  Callers = {c1, c2}
  Sockets = {s1}
  Lists = {l1}
  Failures = {"ECONNREFUSED", "EAGAIN"}
  MaxCalls = 6
SPECIFICATION FixupsSpec
CHECK_DEADLOCK FALSE
INVARIANTS MutexSound 
PROPERTY DestroyReturns
