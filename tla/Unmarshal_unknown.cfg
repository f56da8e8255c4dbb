SPECIFICATION Spec
CONSTANTS
  Map = Map
  Interface = Interface
  Other = Other
  Struct = {"Config"}
  Field <- MCField
  ListId <- MCListId
  PairName <- MCNames
  Buffer <- UnknownLists
  Exported = {}
  MaxElements = 8
INVARIANTS
  FieldsAsPacked
