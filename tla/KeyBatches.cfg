CONSTANTS
  Requests = {r1, r2}
  Resellers = {s1}
  Developer = Developer
  k1 = k1
  k2 = k2
  Keys = {k1, k2}
  MaskKeys <- TwoMasks
  Counts = {1, 2}
  Days <- DaySet
  LifetimeDays = 2
  Grants <- GrantSet
  MaxGranted = 3
  Stores = {"memory", "sql"}
SPECIFICATION Spec
INVARIANTS
  TypeOK
  KeysArePaid
  OnlyFailuresForfeit
PROPERTY
  BatchEnds
