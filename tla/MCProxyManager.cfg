\* One socket, two backends, two connections, a limit of one.
SPECIFICATION Spec
CONSTANTS
  Sockets = {s1}
  Backends = {1, 2}
  Objects = {1, 2}
  Conns = {c1, c2}
  MaxConns = 1
CONSTANTS
  s1 = s1
  c1 = c1
  c2 = c2
INVARIANTS ConnsBounded CancelReachesConns
PROPERTIES ShutdownReturns RemovedConnsEnd
CHECK_DEADLOCK FALSE
