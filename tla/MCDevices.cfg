CONSTANTS
  Sizes = {s1, s2}
  MaxCalls = 2
  MaxOutput = 1
  Room = 1
  MaxWrites = 2
  MaxInput = 2
  i1 = i1
  i2 = i2
  c1 = c1
  c2 = c2
  NoOne = NoOne
  Ids = {i1, i2}
  Devices <- FiveDevices
  Imports <- TwoFiles
  CommandIds = {c1, c2}
  Texts = {"ls", "rm"}
  Budgets <- Scenarios
  Corrupt = Corrupt
  Files <- SomeFiles
  Stores <- SomeStores
  DefaultUsers = {"me", "no user"}
SPECIFICATION PartSpec
INVARIANTS
  ShellIsAsAsked
  OutputIsKept
  ReapedIsLeftAlone
  StoresAgree
  SecretsStayPut
  ImportedAsWritten
  RoundTrip
PROPERTIES
  ErrorsAreOfThePort
  NothingHangs
CHECK_DEADLOCK FALSE
