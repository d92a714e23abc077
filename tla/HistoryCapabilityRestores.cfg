CONSTANTS
  u1 = u1  u2 = u2  a1 = a1  a2 = a2  b1 = b1  b2 = b2  b3 = b3
  None = None
  User = {u1, u2}
  Admin = {a1}
  Backend = {b1, b2}
  Op = {"save", "restore"}
  MaxFailures = 0
  MaxUnsaved = 0
SPECIFICATION FairSpec
PROPERTIES ToggleReturns
CHECK_DEADLOCK FALSE
