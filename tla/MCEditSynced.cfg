CONSTANTS
  Total = 1
  MaxPush = 1
  Limit = 1
  MaxRead = 1
  MaxFails = 0
  Names = {"a", "b"}
  ConnIds = {1, 2}
  Chunks = 2
  MaxJobs = 1
  Specs <- Varied
  MaxVersions = 3
  MaxOpens = 2
  Starts <- FewSaves
SPECIFICATION PartSpec
INVARIANTS
  SyncedWentUp
CHECK_DEADLOCK FALSE
