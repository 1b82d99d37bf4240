CONSTANTS
  a = a
  b = b
  c1 = c1
  c2 = c2
  h1 = h1
  h2 = h2
  k1 = k1
  k2 = k2
  NoKey = NoKey
  Instances <- TwoInstances
  Hosts <- TwoHosts
  Keys <- OneKey
  MaxReads = 2
  Limits <- ChangesOnly
  Conns <- TwoConns
  Route <- Jumped
  MaxPrompts = 0
SPECIFICATION StoreSpec
PROPERTIES
  FreshDataReached
CHECK_DEADLOCK FALSE
