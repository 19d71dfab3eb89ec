SPECIFICATION Spec
CONSTANTS
  u1 = u1
  a1 = a1
  a2 = a2
  l1 = l1
  NoConn = NoConn
  Unborn = Unborn
  Gone = Gone
  Omitted = Omitted
  NoRequest = NoRequest
  User = {u1}
  AddressId = {a1, a2}
  Label = {l1, l2}
  Conn = {c1, c2}
  Inputs <- Edits
  InitialTables <- TwoAddresses
  MaxAddresses = 2
PROPERTIES
  EditsOnlyWhatWasSent
