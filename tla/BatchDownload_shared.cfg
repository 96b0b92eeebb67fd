CONSTANTS
  u1 = u1
  v1 = v1
  v2 = v2
  Urls <- OneUrl
  Targets <- AsEitherFeed
  Videos <- OneVideo
  Priorities <- OnePriority
  Procs <- ServerOnly
  Roles <- LoopOnly
  MaxAttempts = 2
  MaxParallel = 2
  DbFaults = FALSE
  MaxJobs = 2
  MaxStarts = 2
  MaxBatches = 2
SPECIFICATION BatchSpec
INVARIANTS
  CompletedHasNoPending
  UnfinishedIsShared
