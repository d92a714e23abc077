CONSTANTS
  u1 = u1  u2 = u2  a1 = a1  a2 = a2  b1 = b1  b2 = b2  b3 = b3
  None = None
  User = {u1, u2}
  Admin = {a1}
  Backend = {b1, b2}
  Op = {"save", "record", "restore", "trash"}
  MaxFailures = 2
  MaxUnsaved = 1
SPECIFICATION FairSpec
INVARIANTS TypeOK RecordsThroughAttached StoredMatchesRunning ReadLocksHeld
PROPERTIES AllReturnWithoutRestores
CHECK_DEADLOCK FALSE
