CONSTANTS
  r1 = r1  r2 = r2  w1 = w1  w2 = w2  hostA = hostA  hostB = hostB
  Run = {r1}
  External = {}
  NSteps = 2
  Holder = {w1, w2}
  Worker = {w1, w2}
  TargetOf <- SharedTarget
  Idempotent <- AllIdempotent
  LeaseSeconds = 1
  Overlap = TRUE
  SameSecond = TRUE
  Refusals = TRUE
SPECIFICATION Spec
INVARIANTS  EffectAtMostOnce SucceededIsVerified
