CONSTANTS
  Server = "server"
  Clis <- OneCli
  OldVersions = {1, 4, 8}
  MaxRows = 1
  MaxEvents = 2
SPECIFICATION BackupSpec
INVARIANTS
  TypeOK
  BackupIsSnapshot
  UpIsCurrentAfterRestore
PROPERTIES
  RestoreBringsBack
  EventuallyCurrent
CHECK_DEADLOCK FALSE
