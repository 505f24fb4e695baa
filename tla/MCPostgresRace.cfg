CONSTANTS
  t1 = t1
  t2 = t2
  None = None
  Task = {t1, t2}
  Name <- MCName
  EmptyName = ""
  Email <- MCEmail
  HasAt <- MCHasAt
  EmailKey <- MCEmailKey
  StatusText <- MCStatusText
  Seed <- MCSeed
  Offered <- OfferedToMany
  PoolSize = 2
  LastId = 4
  LastTime = 2
SPECIFICATION Spec
INVARIANTS
  TypeOK
  ConnectionsAccountedFor
  CreatedBeforeUpdated
  AnswerMatchesEffect
PROPERTIES
  FieldsChangeAsAsked
SYMMETRY Symmetry
