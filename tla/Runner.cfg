CONSTANT
  MaxAttempts = 4
SPECIFICATION Spec
INVARIANTS
  ProbesBounded
  ChildrenTold
PROPERTIES
  DeathEndsService
  StartSettles
CHECK_DEADLOCK FALSE
