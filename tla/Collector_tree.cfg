SPECIFICATION FairSpec
CONSTANTS
  None = None
  Pool <- TreePool
  Dataset <- TreeDataset
  Component <- TreeComponent
  Parent <- TreeParent
  Leaf <- TreeLeaf
  PoolOf <- TreePoolOf
  Mountable <- NoneMountable
  MaxObjset = 5
  Hash <- MCHash
  InitNs <- TreeInitNs
  InitLast = 4
  RespSize = 2
  ConfigsSize <- UnitConfigs
  StatsSize <- UnitStats
  PropsSize <- UnitProps
  CmdWrittenOnENOMEM = TRUE
INVARIANTS
  TypeOK
  ReportedOnce
  CleanScrapeIsComplete
PROPERTIES
  ImplementsScrapeSafely
  ScrapeEnds
