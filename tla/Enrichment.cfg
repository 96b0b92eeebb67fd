CONSTANTS
  Videos = {"v1","v2","v3"}
  Thumbed = {"v2"}
  Rss = {"v2"}
  Local = {"v3"}
  Broken = {"v1"}
  Day = 5
  Garbled = Garbled
  Configs <- ThreeConfigs
  StartLimit = 1
  BackfillLimit = 2
  DiscoverLimit = 1
  BatchSize = 2
  Pages = {"p1"}
  MaxUnusual = 1
SPECIFICATION Spec
INVARIANTS
  TypeOK
  GateFollowsWindows
PROPERTIES
  OnlyRacesUndo
  ReadableGetEmbedded
CHECK_DEADLOCK FALSE
