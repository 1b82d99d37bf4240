CONSTANTS
  Total = 4
  MaxPush = 2
  Limit = 2
  MaxRead = 2
  MaxFails = 2
  Names = {"a", "b"}
  ConnIds = {1, 2}
  Chunks = 2
  MaxJobs = 1
  Specs <- Varied
  MaxVersions = 3
  MaxOpens = 2
  Starts <- FewSaves
SPECIFICATION PartSpec
INVARIANTS
  TypeOK
  NoByteVanishes
  StreamInv
  TransfersKeepFiles
  EditsAreTrue
  SyncedIsTrue
PROPERTIES
  ImplementsDelivery
  NoSilentOverwrite
  NothingHangs
CHECK_DEADLOCK FALSE
