CONSTANTS
  Default = "default"
  Kids = "kids"
  Vault = "vault"
  New = {"new"}
  Videos <- TwoVideos
  Channels <- TwoChannels
  Unknown = "Unknown"
  HomeChannel <- OnePerChannel
  Unsafe = {}
  Clients <- TwoClients
  v1 = v1
  v2 = v2
  A = A
  B = B
  tv = tv
  phone = phone
  MaxActs = 3
  MaxLoads = 2
SYMMETRY Places
SPECIFICATION Spec
INVARIANTS
  TypeOK
  OpinionsHaveReason
  HiddenStaysHidden
  PartialRulesShowNoMore
  QuietPageIsCurrent
PROPERTIES
  OthersKeepTheirView
CHECK_DEADLOCK FALSE
