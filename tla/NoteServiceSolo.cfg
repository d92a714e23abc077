CONSTANTS
  u1 = u1  u2 = u2  n1 = n1  n2 = n2  c1 = c1  c2 = c2  c3 = c3
  Empty = empty  piece = piece  NoNote = NoNote  NoBase = NoBase  NoUser = NoUser
  External = External  Local = Local
  User = {u1}
  Path = {n1, n2}
  Content = {empty, c1, c2}
  Pieces = {empty}
  Op = {"save", "create", "delete", "restore"}
  Names <- TwoNames
  Stamp <- Tracked
  MaxRequests = 3
  MaxEdits = 1
  MaxFaults = 0
SPECIFICATION Spec
INVARIANTS EditsSnapshotted
PROPERTIES ImplementsRegister
CHECK_DEADLOCK FALSE

