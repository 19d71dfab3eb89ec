SPECIFICATION ObservedSpec
CONSTANTS
  User = {u1, u2}
  Caller = {u1}
  Email = {e1, e2}
  Field = {birthDate}
  Role = {rider}
  Conn = {c1, c2}
  NoRow = NoRow
  Unborn = Unborn
  Gone = Gone
  NoRequest = NoRequest
  Requests <- RequestsOfCallers
SYMMETRY Symmetry
INVARIANTS
  TypeOK
  AccountsMirrorAuth
  NoOrphans
PROPERTIES
  RowsAreWhatWasSent
  MeIsTrue
  WritesAreTrue
