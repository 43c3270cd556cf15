\* Two clients, room for one session, two session objects alive at a time.
SPECIFICATION Spec
CONSTANTS
  Clients = {c1, c2}
  Slots = {1, 2}
  MaxSessions = 1
  Idle = 1
CONSTANTS
  c1 = c1
  c2 = c2
INVARIANTS SessionsBounded SessionsConsistent
PROPERTIES ShutdownCompletes IdleExpires
CHECK_DEADLOCK FALSE
