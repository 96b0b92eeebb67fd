CONSTANTS
  u1 = u1
  u2 = u2
  Urls <- OneUrl
  Priorities <- OnePriority
  Procs <- ServerAndCli
  Roles <- SyncOnly
  MaxAttempts = 2
  MaxParallel = 1
  DbFaults = FALSE
  MaxJobs = 1
  MaxStarts = 2
SPECIFICATION Spec
PROPERTIES
  OnlyInterruptedJobsReset
