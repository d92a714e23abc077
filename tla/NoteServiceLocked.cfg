CONSTANTS
  u1 = u1  u2 = u2  n1 = n1  n2 = n2  c1 = c1  c2 = c2  c3 = c3
  Empty = empty  piece = piece  NoNote = NoNote  NoBase = NoBase  NoUser = NoUser
  External = External  Local = Local
  User = {u1, u2}
  Path = {n1}
  Content = {empty, piece, c1, c2}
  Pieces = {empty, piece}
  Op = {"save", "delete", "restore"}
  Names <- OneName
  Stamp <- AsSent
  MaxRequests = 3
  MaxEdits = 0
  MaxFaults = 1
SPECIFICATION StartedSpec
INVARIANTS TypeOK MutationsSerialized Agreement NoLostUpdate TrashIsLastContent StaleOnlyWhenTruncated
PROPERTIES DeletedStaysRestorable SignedContents ImplementsRegister EveryRequestAnswered
CHECK_DEADLOCK FALSE
