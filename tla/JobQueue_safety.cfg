CONSTANTS
  u1 = u1
  u2 = u2
  Urls <- TwoUrls
  Priorities <- OnePriority
  Procs <- ServerOnly
  Roles <- BothRoles
  MaxAttempts = 2
  MaxParallel = 1
  DbFaults = TRUE
  MaxJobs = 3
  MaxStarts = 2
SPECIFICATION Spec
SYMMETRY UrlSymmetry
INVARIANTS
  TypeOK
  ClaimsMatchTasks
  AttemptBudget
  DeadLettersMatchJobs
  DuplicatesComeFromPause
  InFlightBound
