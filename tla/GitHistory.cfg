CONSTANTS
  n1 = n1  n2 = n2  c1 = c1  c2 = c2
  NoNote = NoNote  Local = Local  NoPath = NoPath  Missing = Missing  NoEntry = NoEntry
  Path = {n1, n2}
  Content = {c1, c2}
  Actor = {Local}
  Purgeable = {n1, n2}
  LegacyPurged = {}
  ScanMaxWalk = 3
  MaxEdits = 3
  MaxRecords = 3
  MaxTroubles = 2
SPECIFICATION Spec
INVARIANTS TypeOK EntriesRestorable NothingRidesAlong
PROPERTIES RecordCaptures RebuildKeepsDeletions ImplementsHistory
SYMMETRY Alike
CHECK_DEADLOCK FALSE
