CONSTANTS
  n1 = n1  n2 = n2  c1 = c1  c2 = c2
  NoNote = NoNote  Local = Local  NoPath = NoPath  Missing = Missing  NoEntry = NoEntry
  Path = {n1}
  Content = {c1, c2}
  Actor = {Local}
  Purgeable = {}
  LegacyPurged = {}
  ScanMaxWalk = 3
  MaxEdits = 3
  MaxRecords = 3
  MaxTroubles = 0
SPECIFICATION Spec
INVARIANTS RedeletedShowsUpAgain
CHECK_DEADLOCK FALSE
