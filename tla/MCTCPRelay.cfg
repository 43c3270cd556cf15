\* Two clients, room for one; a peer sends at most one chunk in a direction.
SPECIFICATION Spec
CONSTANTS
  Conns = {c1, c2}
  MaxConns = 1
  MaxBytes = 1
INVARIANTS ConnsBounded HalfCloseIsClean
PROPERTIES Delivered RelayEnds
CHECK_DEADLOCK FALSE
