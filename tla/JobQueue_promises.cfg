CONSTANTS
  u1 = u1
  u2 = u2
  Urls <- TwoUrls
  Priorities <- TwoPriorities
  Procs <- ServerOnly
  Roles <- LoopOnly
  MaxAttempts = 2
  MaxParallel = 1
  DbFaults = TRUE
  MaxJobs = 2
  MaxStarts = 2
SPECIFICATION FairSpec
PROPERTIES
  EveryJobSettles
  ImplementsLifecycle
