CONSTANTS
  a = a
  b = b
  c1 = c1
  c2 = c2
  h1 = h1
  h2 = h2
  k1 = k1
  k2 = k2
  NoKey = NoKey
  Instances <- TwoInstances
  Hosts <- TwoHosts
  Keys <- TwoKeys
  MaxReads = 2
  Limits <- Troubles
  Conns <- TwoConns
  Route <- Jumped
  MaxPrompts = 3
SPECIFICATION PartSpec
SYMMETRY KeysAlike
INVARIANTS
  NoTrustLost
  KnownWasAccepted
  TrustIsMeant
  PromptsAreOpen
CHECK_DEADLOCK FALSE
