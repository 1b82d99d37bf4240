CONSTANTS
  d1 = d1
  d2 = d2
  Devices <- TwoDevices
  AutoReconnect <- OneDevice
  NoDevice = NoDevice
  MaxSessions = 4
  MaxAttempts = 2
SPECIFICATION PartSpec
INVARIANTS
  SessionsHeld
  ShowsTheTruth
  RetriesHold
PROPERTIES
  ReleasedEnd
CONSTRAINT SmallBacklog
CHECK_DEADLOCK FALSE
