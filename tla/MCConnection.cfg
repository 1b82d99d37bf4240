CONSTANTS
  jumpHop = jumpHop
  targetHop = targetHop
  Prompts <- BothHops
  Budget = 3
  MaxTime = 8
  Punctual = TRUE
  MaxRounds = 2
  MaxPhases = 2
  Agents = 2
  MaxPrompts = 2
  NoKey = NoKey
  c1 = c1
  c2 = c2
  h1 = h1
  h2 = h2
  k1 = k1
  inst1 = inst1
  inst2 = inst2
  Configs <- Swappable
  Initial <- Both
  Capacity = 1
  MaxChanges = 2
  MaxConns = 1
  Chunk = 2
  Limit = 2
  Bytes = 4
  Uploads = 1
  SocksRequests <- TellingRequests
  Displays <- SomeDisplays
  Files <- SomeFiles
  Channels = {1, 2}
  MaxChannels = 1
SPECIFICATION PartSpec
INVARIANTS
  Accounting
  NotTooSoon
  SecretsFit
  AskedAndPutAway
  ServerAgrees
  TunnelIsAsAsked
  RelayKeepsPace
  ProxyAnswers
  ScreenIsGuarded
PROPERTIES
  WrongKeyAsksNothing
  Converges
  CutOnlyWhenStalled
  NothingHangs
CHECK_DEADLOCK FALSE
