CONSTANTS
  u1 = u1  n1 = n1  n2 = n2  c1 = c1  c2 = c2  w1 = w1
  Empty = empty  piece = piece  NoNote = NoNote  NoBase = NoBase  NoUser = NoUser
  External = External  Local = Local  Loop = Loop
  User = {u1}
  Path = {n1}
  Content = {empty, piece, c1}
  Pieces = {empty, piece}
  Callback = {w1}
  Op = {"save", "delete"}
  Names <- OneName
  Stamp <- AsSent
  MaxRequests = 1
  MaxEdits = 1
  MaxFaults = 1
SPECIFICATION FairSyncSpec
INVARIANTS SyncTypeOK IndexConverges HistoryConverges
PROPERTIES SettlesDown
CHECK_DEADLOCK FALSE
