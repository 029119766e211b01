SPECIFICATION Spec
CONSTANTS
  Tokens = {t1}
  Requests = {r1, r2}
  NoRequest = NoRequest
  Keys = {k1, k2}
  NoKey = NoKey
  TTL = 4
  ClaimTTL = 3
  OpTimeout = 2
  Retention = 4
  MaxRetries = 0
  MaxDelay = 3
  MaxBirth = 0
  MaxTime = 6
SYMMETRY Symmetry
PROPERTIES
  ConsumedIsFinal
CHECK_DEADLOCK FALSE
