SPECIFICATION Spec
CONSTANTS
  Worker = {w1, w2}
  Note <- MCNote
  File <- MCFile
  NoPath = NoPath
  NoDoc = NoDoc
  Name <- MCName
  NameKey <- MCNameKey
  Base <- MCBase
  Rank <- MCRank
  Content = {"c1", "c2"}
  Token = {"alp", "alpha"}
  Aliases <- MCAliases
  Links <- MCLinks
  Tf <- MCTf
  Extends <- MCExtends
  Target <- MCTarget
  Query <- MCQuery
  Limit = {1}
  Overfetch = 2
SYMMETRY MCSymmetry
INVARIANTS IndexesAgree LinksLive SearchComplete
