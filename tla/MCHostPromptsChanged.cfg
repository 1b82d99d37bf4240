CONSTANTS
  a = a
  b = b
  c1 = c1
  c2 = c2
  h1 = h1
  h2 = h2
  k1 = k1
  k2 = k2
  NoKey = NoKey
  Instances <- OneInstance
  Hosts <- TwoHosts
  Keys <- TwoKeys
  MaxReads = 2
  Limits <- Troubles
  Conns <- TwoConns
  Route <- Jumped
  MaxPrompts = 2
SPECIFICATION PromptsSpec
SYMMETRY KeysAlike
INVARIANTS
  ChangedIsLoud
CHECK_DEADLOCK FALSE
