SPECIFICATION Spec
CONSTANTS
  Map = Map
  Interface = Interface
  Other = Other
  Struct = {"Pool", "Config", "Partial", "NumberName", "StringConfig", "PointerConfig", "StructExtra"}
  Field <- MCField
  ListId <- MCListId
  PairName <- MCNames
  Buffer <- KnownLists
  Exported = {}
  MaxElements = 8
INVARIANTS
  TypeOK
  FieldsAsPackedIfTaken
