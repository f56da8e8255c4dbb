SPECIFICATION Spec
CONSTANTS
  ListId <- MCListId
  PairName <- MCNames
  Buffer <- TwoSpares
  Exported <- MCExported
  MaxElements = 3
INVARIANTS
  ParsedWhatWasPacked
