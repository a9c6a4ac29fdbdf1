CONSTANTS
  Addresses = {a1}
  Paths = {p1}
  MaxRequests = 2
  Window = 2
  MaxTime = 4
  MaxHits = 3
  Engines = {"memory", "redis"}
SPECIFICATION RateSpec
INVARIANT
  BoundPerWindow
PROPERTIES
  RefusedOnlyOverLimit
  RefusedOnlyWhenBusy
CHECK_DEADLOCK FALSE
