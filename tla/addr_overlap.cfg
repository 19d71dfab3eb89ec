SPECIFICATION Spec
CONSTANTS
  u1 = u1
  a1 = a1
  a2 = a2
  l1 = l1
  NoConn = NoConn
  Unborn = Unborn
  Gone = Gone
  Omitted = Omitted
  NoRequest = NoRequest
  User = {u1, u2}
  AddressId = {a1, a2, a3}
  Label = {l1}
  Conn = {c1, c2}
  Inputs <- PlacementsAndStrangers
  InitialTables <- AnyStart
  MaxAddresses = 1
SYMMETRY ConnSymmetry
INVARIANTS
  TypeOK
  AtMostOneDefault
  AddressesBoundedByPool
  NothingLeftBehind
PROPERTIES
  DefaultSurvivesMoves
  KeepsPromise
