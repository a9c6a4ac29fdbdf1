SPECIFICATION TokenSpec
CONSTANTS
  None = None
  r1 = r1  r2 = r2  a1 = a1  a2 = a2  l1 = l1  l2 = l2  u1 = u1  v1 = v1
  h1 = h1  h2 = h2  n1 = n1  n2 = n2  n3 = n3
  Requests = {r1}
  Apps = {a1, a2}  Licenses = {l1, l2}  Users = {u1}  VarKeys = {v1}
  Hwids = {h1}  Nonces = {n1, n2}
  Packets <- TokenPackets
  LicenseApp <- TwoApps  Duration <- OneUnit  MaxHwids <- OneUnit
  TierLevel <- OneUnit  UserApp <- OneUser
  AdminStatuses = {"unactivated", "active"}  MinTiers = {1, 2}
  MaxSessions = 3  MaxTime = 1  SessionTTL = 0  TokenTTL = 1
  SqlStore = TRUE  RedisCache = TRUE
  MaxEdits = 2
INVARIANTS TypeOK SessionsBacked
PROPERTIES GatedVariables DeletedStaysDeleted
