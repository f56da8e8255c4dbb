SPECIFICATION FairSpec
CONSTANTS
  ListId <- MCListId
  PairName <- MCNames
  Buffer <- OneOfEach
  Exported <- MCExported
  MaxElements = 3
INVARIANTS
  TypeOK
  InStep
  ParsedWhatWasPacked
  InvalidIffUnreadable
PROPERTIES
  ParseEnds
