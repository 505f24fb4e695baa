CONSTANTS
  None = None
  r1 = r1
  r2 = r2
  Request = {r1, r2}
  Inbound = {"sent"}
  Generated = {"new1", "new2"}
SPECIFICATION FairSpec
INVARIANTS
  TypeOK
  IdsNeverCross
  AccessLineTellsAnswer
  ErrorLoggedOnce
  AnswerTellsOutcome
PROPERTIES
  EveryRequestEnds
