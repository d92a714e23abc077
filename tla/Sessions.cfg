CONSTANTS
  t1 = t1  t2 = t2  p1 = p1  p2 = p2  ann = ann  root = root  team = team
  Nothing = Nothing  CodeKey = CodeKey
  Thread = {t1, t2}
  User = {ann, root}
  Group = {team}
  Path = {p1, p2}
  Jti = {0, 1, 2}
  CustomRole = {"lead"}
  SvcId = {"idp"}
  Provider = {"oidc"}
  Code = {"code"}
  RuleList <- Rules
  StaticRole <- Root
  InitialStores <- Stores
  CustomPerms <- Perms
  Assigned = {"lead"}
  Ceilings = {"viewer"}
  Attempts = 1
  MaxRequests = 2
  MaxEdits = 1
SPECIFICATION Spec
INVARIANTS SessionsTypeOK MemoryMatchesFile EditsKept RevokedStayOut ReportedIsEnforced
CHECK_DEADLOCK FALSE
