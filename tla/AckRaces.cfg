CONSTANTS
  h1 = h1  h2 = h2  k1 = k1  k2 = k2  c1 = c1
  Handler = {h1, h2}
  Key = {k1, k2}
  Card = {c1}
  Expiry = 2
  Skew = 0
  MaxCrashes = 0
SPECIFICATION AckSpec
SYMMETRY Alike
INVARIANTS AckTypeOK StartedIsAcknowledged AnswerIsFinal SettledIsTrue
PROPERTIES DecisionIsFinal AuthorityAtUse
CHECK_DEADLOCK FALSE
