CHECK_DEADLOCK FALSE
SPECIFICATION FairSpec
CONSTANTS
  SP = SP
  NL = NL
  Word <- MCWord
  Int32 <- MCInt32
  UInt64 <- MCUInt64
  Counter = {"writes", "nwritten", "reads"}
  File <- MCFile
INVARIANTS
  TypeOK
  RowsAreLines
  CountersAsWritten
  RefusesOnlyDamaged
PROPERTIES
  KStatEnds
