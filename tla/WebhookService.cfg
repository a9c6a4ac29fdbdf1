CONSTANTS
  Events = {e1, e2, e3, e4, e5}
  Hooked = {e1, e2, e3, e4}
  Capacity = 2
  NoJob = NoJob
SPECIFICATION Spec
PROPERTIES
  KeepsContract
  EveryEventEnds
