CONSTANTS
  h1 = h1  h2 = h2  k1 = k1  k2 = k2  c1 = c1
  Handler = {h1}
  Key = {k1}
  Card = {c1}
  Expiry = 2
  Skew = 0
  MaxCrashes = 0
SPECIFICATION AckLiveSpec
PROPERTIES ExpiryTerminalizes
CHECK_DEADLOCK FALSE
