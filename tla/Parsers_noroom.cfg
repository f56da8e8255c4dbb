SPECIFICATION Spec
CONSTANTS
  ListId <- MCListId
  PairName <- MCNames
  Buffer <- NoRoom
  Exported <- MCExported
  MaxElements = 3
INVARIANTS
  NotInvalid
