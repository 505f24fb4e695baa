CONSTANTS
  t1 = t1
  t2 = t2
  None = None
  Task = {t1, t2}
  Name <- MCName
  EmptyName = ""
  Email <- MCEmail
  HasAt <- MCHasAt
  EmailKey <- MCEmailKey
  StatusText <- MCStatusText
  Seed <- MCSeed
  HttpCall <- MCHttpCall
  LongName = {"Ann..."}
  Deliverable <- MCDeliverable
  Normalised <- MCNormalised
  Absent = Absent
  Junk = Junk
  Offered <- MCOffered
  LastId = 5
SPECIFICATION FairSpec
INVARIANTS
  TypeOK
  UniqueEmails
  Inv
  LockIsFree
  HttpNeverMalformed
PROPERTIES
  ActiveNeverDeleted
  ImplementsStore
  EveryRequestAnswered
