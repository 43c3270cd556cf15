\* No debounce, and one shorter than the interval, as by default.
SPECIFICATION Spec
CONSTANTS
  Debounces = {0, 1}
  Interval = 3
  EventCap = 2
  MaxChanges = 3
INVARIANT NoLostWakeup
PROPERTY HealsOrStops
CHECK_DEADLOCK FALSE
