CHECK_DEADLOCK FALSE
SPECIFICATION Spec
CONSTANTS
  Missing = Missing
  Component <- MCComponent
  Path <- MCPath
  Base <- MCBase
  TypeId <- MCTypeId
  ValidUTF8 <- MCValid
  Response <- MCResponses
  MinStats <- MCMinStats
INVARIANTS
  TypeOK
  EveryVdevOnce
  LabelsDiffer
  OneStateHolds
