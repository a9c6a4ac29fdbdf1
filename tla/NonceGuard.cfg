CONSTANTS
  Requests = {r1, r2}
  n1 = n1
  n2 = n2
  Nonces = {n1, n2}
  Packets <- PacketSet
  Skew = 2
  MaxDelay = 2
  MaxTime = 8
  Engines = {"memory", "redis"}
SPECIFICATION Spec
PROPERTIES
  OncePerLife
  CheckedBeforeLapse
