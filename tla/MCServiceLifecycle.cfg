CONSTANTS
  None = None
  c1 = c1
  c2 = c2
  Caller = {c1, c2}
  Secret <- MCSecret
  Blank = {""}
  Placeholder = {"change-me"}
  Long = {"strong", "rotated"}
  Subject = {"", "ann", "partner"}
  EmptySubject = ""
  Claim <- MCClaim
  Deployed <- MCDeployed
  Foreign <- MCForeign
  Minted <- MCMinted
  Asked = {"me", "delete"}
  LastTime = 2
  MaxTokens = 1
SPECIFICATION FairSpec
INVARIANTS
  TypeOK
  NothingUnearned
  FreshTokenIsHonoured
  PoolThereWhenNeeded
PROPERTIES
  ProductionNeverMints
  CallsEnd
  StartAndStopEnd
