SPECIFICATION RaceSpec
CONSTANTS
  None = None
  r1 = r1  r2 = r2  a1 = a1  a2 = a2  l1 = l1  l2 = l2  u1 = u1  v1 = v1
  h1 = h1  h2 = h2  n1 = n1  n2 = n2  n3 = n3
  Requests = {r1, r2}
  Apps = {a1}  Licenses = {l1}  Users = {}  VarKeys = {}
  Hwids = {h1, h2}  Nonces = {n1, n2, n3}
  Packets <- RacePackets
  LicenseApp <- OneApp  Duration <- OneUnit  MaxHwids <- OneUnit
  TierLevel <- OneUnit  UserApp <- OneUser
  AdminStatuses = {"paused", "active", "unactivated"}  MinTiers = {}
  MaxSessions = 3  MaxTime = 2  SessionTTL = 1  TokenTTL = 2
  SqlStore = FALSE  RedisCache = FALSE
  MaxEdits = 2
SYMMETRY Symmetric
INVARIANTS FreshCopy TimedLicenseExpires
PROPERTIES LockHolds DeviceHolds ExpiryHolds DeletedStaysDeleted
