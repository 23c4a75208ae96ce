CONSTANTS
  r1 = r1  r2 = r2  w1 = w1  h1 = h1  h2 = h2  x1 = x1  sweep = sweep
  hostA = hostA  hostB = hostB
  Run = {r1}
  External = {r1}
  NSteps = 1
  Holder = {w1, x1}
  Worker = {w1}
  X = x1
  Handler = {sweep, h1}
  Sweeper = sweep
  TargetOf <- OwnTarget
  Idempotent <- AllIdempotent
  LeaseSeconds = 2
  CheckInSeconds = 1
  Overlap = TRUE
  SameSecond = TRUE
  Refusals = FALSE
SPECIFICATION XSpec
INVARIANTS  SucceededIsVerified
PROPERTY AmbiguityIsFinal
