CONSTANTS
  None = None
  NoText = NoText
  Call = {c1, c2}
  Body <- MCBody
  Offered <- MCOffered
  ContentType <- MCContentType
  ChunkSize = {4, 12, 28}
  MaxBytes = 7
  Value <- MCValue
  Depth <- MCDepth
  extra_keys <- MCExtraKeys
  partial_keys <- MCPartialKeys
  Lower <- MCLower
  Short <- MCShort
SPECIFICATION Spec
SYMMETRY Symmetry
INVARIANTS
  TypeOK
  StreamUntouched
  BuffersHoldTheBeginning
  BufferWithinOneChunk
  LineTellsBody
  NothingSensitiveLogged
  LineWithinLimit
