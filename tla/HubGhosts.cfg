CONSTANTS
  c1 = c1  c2 = c2  u1 = u1  u2 = u2  p1 = p1  p2 = p2
  Client = {c1, c2}
  Path = {p1, p2}
  User = {u1, u2, nobody}
  Nobody = nobody
  NoPath = NoPath  Topic = {p2}
  UserOf <- TwoUsers
  Allowed <- Sees
  SendCap = 1  InboxCap = 1  BroadcastCap = 1
  MaxMessages = 2
  MaxEvents = 2
SPECIFICATION Spec
INVARIANTS NoGhosts
CHECK_DEADLOCK FALSE
