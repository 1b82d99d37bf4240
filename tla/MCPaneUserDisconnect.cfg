CONSTANTS
  d1 = d1
  d2 = d2
  Devices <- OneDevice
  AutoReconnect <- OneDevice
  NoDevice = NoDevice
  MaxSessions = 2
  MaxAttempts = 1
SPECIFICATION PairSpec
INVARIANTS
  DisconnectIsExpected
CHECK_DEADLOCK FALSE
