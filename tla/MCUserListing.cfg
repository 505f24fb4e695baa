CONSTANTS
  None = None
  Name <- MCName
  EmptyName = ""
  Email <- MCHasAt
  HasAt <- MCHasAt
  EmailKey <- MCEmailKey
  StatusText <- MCStatusText
  Instant = {0, 1}
  Seed <- MCSeed
  Newcomer <- MCNewcomer
  Change <- MCChange
  Offered <- MCOffered
  SearchText <- MCSearchText
  Matching <- MCMatching
  SortText <- MCSortText
  Folded <- MCFolded
  TextRank <- MCTextRank
  DefaultLimit = 1
  MaxLimit = 2
  LastId = 4
SPECIFICATION FairSpec
INVARIANTS
  TypeOK
  PageFitsTotal
  QuietTraversalIsExact
  CreatesDontDisturb
PROPERTIES
  TraversalEnds
