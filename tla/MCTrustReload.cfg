CONSTANTS
  a = a
  b = b
  c1 = c1
  c2 = c2
  h1 = h1
  h2 = h2
  k1 = k1
  k2 = k2
  NoKey = NoKey
  Instances <- OneInstance
  Hosts <- TwoHosts
  Keys <- OneKey
  MaxReads = 2
  Limits <- ReloadOnly
  Conns <- TwoConns
  Route <- Jumped
  MaxPrompts = 0
SPECIFICATION StoreSpec
INVARIANTS
  TrustStays
CHECK_DEADLOCK FALSE
