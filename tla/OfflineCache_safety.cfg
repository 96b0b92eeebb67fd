CONSTANTS
  a = a
  b = b
  l = l
  main = main
  kids = kids
  Videos <- AllVideos
  Local <- OnlyLocal
  Profiles <- TwoProfiles
  DefaultProfile = main
  Size <- LargeSize
  Duration <- MixedDuration
  Fallback = 2
  Rate = 1
  Target = 2
  PlanBatch = 2
  MaxCandidates = 3
  Limit = 11
  Reserve = 1
  EvictBatch = 2
  CandidateLimit = 3
  ProtectLiked = TRUE
  ByScore = FALSE
  Score <- SameScore
  Merging = TRUE
  Undeletable <- NoVideos
  MaxFeedback = 1
  MaxCrashes = 0
  MaxFlaky = 0
SPECIFICATION Spec
INVARIANTS
  TypeOK
  CatalogueMatchesDisk
PROPERTIES
  RunsAreFrugal
  EvictionSparesTheWanted
