SPECIFICATION ObservedSpec
CONSTANTS
  User = {u1, u2}
  Token = {t1}
  Conn = {c1, c2, c3}
  NoConn = NoConn
  Nobody = Nobody
  NoRequest = NoRequest
  InitialOwners <- AnyOwners
  MaxDeviceTokensPerUser = 1
SYMMETRY Symmetry
INVARIANTS
  TypeOK
  AnswersHold
PROPERTIES
  ChangesHandsOnRequest
