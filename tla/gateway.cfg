SPECIFICATION Spec
CONSTANTS
  k1 = k1
  k2 = k2
  u1 = u1
  u2 = u2
  q1 = q1
  q2 = q2
  NoUser = NoUser
  Nothing = Nothing
  Req <- MCReq
  Key <- MCKey
  User <- MCUser
  Sends <- MCSends
INVARIANTS
  TypeOK
  FitsWhatIsStored
PROPERTIES
  ActsForHolder
  FreshKeysWork
  RefusedWithCause
