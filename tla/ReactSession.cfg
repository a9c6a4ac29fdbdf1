SPECIFICATION Spec
CONSTANTS
  Prints = {p1, p2}
  Calls = {c1, c2}
  MaxClients = 2
  None = None
INVARIANTS TypeOK GrantsReachTheirClient ProviderFollowsClient OneIdentity ExampleIsQuiet
PROPERTIES LoadingEnds
CHECK_DEADLOCK FALSE
