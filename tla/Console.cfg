SPECIFICATION Spec
CONSTANTS
  u1 = u1
  u2 = u2
  a1 = a1
  a2 = a2
  Starts <- MCStarts
  Accounts = {u1, u2}
  AppIds = {a1, a2}
  Filters = {"all", "active"}
  Searches = {"", "x"}
  None = None
  MaxClicks = 3
  MaxCalls = 2
PROPERTIES SessionSettles
INVARIANTS TypeOK ShownIsSelected OneAccount OneOrder
CHECK_DEADLOCK FALSE
