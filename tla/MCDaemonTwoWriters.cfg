\* Two runs of the daemon: do they ever save at the same time?
SPECIFICATION Spec
CONSTANTS
  Procs = {p1, p2}
  p1 = p1
  p2 = p2
INVARIANT OneWriter
CHECK_DEADLOCK FALSE
