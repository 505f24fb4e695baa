CONSTANTS
  t1 = t1
  t2 = t2
  t3 = t3
  None = None
  Task = {t1, t2, t3}
  Name <- MCName
  EmptyName = ""
  Email <- MCEmail
  HasAt <- MCHasAt
  EmailKey <- MCEmailKey
  StatusText <- MCStatusText
  Seed <- MCSeed
  Offered <- OfferedApart
  PoolSize = 1
  LastId = 3
  LastTime = 0
SPECIFICATION FairApartSpec
PROPERTIES
  ImplementsStore
  EveryRequestAnswered
