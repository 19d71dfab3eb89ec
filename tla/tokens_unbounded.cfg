SPECIFICATION ObservedSpec
CONSTANTS
  User = {u1}
  Token = {t1, t2}
  Conn = {c1}
  NoConn = NoConn
  Nobody = Nobody
  NoRequest = NoRequest
  InitialOwners <- NoRegistrations
  MaxDeviceTokensPerUser = 1
INVARIANTS
  TokensBounded
