CONSTANTS
  u1 = u1
  v1 = v1
  v2 = v2
  Urls <- OneUrl
  Targets <- AsVideoOrFeed
  Videos <- TwoVideos
  Priorities <- OnePriority
  Procs <- ServerOnly
  Roles <- LoopOnly
  MaxAttempts = 2
  MaxParallel = 1
  DbFaults = TRUE
  MaxJobs = 1
  MaxStarts = 2
  MaxBatches = 2
SPECIFICATION BatchFairSpec
INVARIANTS
  BatchTypeOK
  UnfinishedHasJob
  DoneItemsAccountedFor
PROPERTIES
  DoneItemsStay
  EveryBatchSettles
