CONSTANTS
  None = None  p1 = p1  p2 = p2  w1 = w1  r1 = r1  t1 = t1  t2 = t2
  c1 = c1  c2 = c2  k1 = k1  k2 = k2
  Existing <- TwoPoints
  Writers = {w1}
  Readers = {r1}
  Retirers = {t1, t2}
  Past = t2
  Histories <- Beginnings
  Chunks = {c1, c2}
  Packs = {k1, k2}
  Holds <- HoldsOf
  Needs <- NeedsOf
  FirstPacks <- OnePack
  LeaseTime = 2
  MaxProofs = 3
  MaxRevision = 3
  MaxWork = 3
  MaxRequests = 1
  Catalogs = {{p1}}
  MaxCatalogs = 2
SPECIFICATION Spec
INVARIANTS  LastGoodSurvives  PredecessorRecoverable
PROPERTIES ProofIsTrue  StoppedIsFrozen
CHECK_DEADLOCK FALSE
