\* Two runs of the daemon; each may fail, be stopped or be killed.
SPECIFICATION Spec
CONSTANTS
  Procs = {p1, p2}
  p1 = p1
  p2 = p2
INVARIANTS ServingIsReachable NothingInTheWay BesideHolderOnlyExit
PROPERTIES StopExits TakesOver
CHECK_DEADLOCK FALSE
