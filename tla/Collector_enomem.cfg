SPECIFICATION Spec
CONSTANTS
  None = None
  Pool <- RetryPool
  Dataset <- RetryDataset
  Component <- RetryComponent
  Parent <- RetryParent
  Leaf <- RetryLeaf
  PoolOf <- RetryPoolOf
  Mountable <- NoneMountable
  MaxObjset = 5
  Hash <- MCHash
  InitNs <- RetryInitNs
  InitLast = 4
  RespSize = 2
  ConfigsSize <- UnitConfigs
  StatsSize <- UnitStats
  PropsSize <- LargeProps
  CmdWrittenOnENOMEM = TRUE
INVARIANTS
  CleanScrapeIsComplete
