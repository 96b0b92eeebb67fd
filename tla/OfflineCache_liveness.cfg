CONSTANTS
  a = a
  b = b
  l = l
  main = main
  kids = kids
  Videos <- RemoteVideos
  Local <- NoVideos
  Profiles <- OneProfile
  DefaultProfile = main
  Size <- SameSize
  Duration <- SameDuration
  Fallback = 2
  Rate = 1
  Target = 4
  PlanBatch = 1
  MaxCandidates = 3
  Limit = 5
  Reserve = 0
  EvictBatch = 1
  CandidateLimit = 3
  ProtectLiked = TRUE
  ByScore = TRUE
  Score <- HighScoreOfA
  Merging = FALSE
  Undeletable <- OnlyA
  MaxFeedback = 1
  MaxCrashes = 1
  MaxFlaky = 1
SPECIFICATION FairSpec
PROPERTIES
  StorageSettles
