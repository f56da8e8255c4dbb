SPECIFICATION FairSpec
CONSTANTS
  None = None
  Pool <- RetryPool
  Dataset <- RetryDataset
  Component <- RetryComponent
  Parent <- RetryParent
  Leaf <- RetryLeaf
  PoolOf <- RetryPoolOf
  Mountable <- RetryDataset
  MaxObjset = 6
  Hash <- MCHash
  InitNs <- RetryInitNs
  InitLast = 4
  RespSize = 2
  ConfigsSize <- LargeConfigs
  StatsSize <- LargeStats
  PropsSize <- LargeProps
  CmdWrittenOnENOMEM = FALSE
INVARIANTS
  ReportedOnce
  CleanScrapeIsComplete
  OwnCounters
PROPERTIES
  ImplementsScrape
