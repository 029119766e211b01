SPECIFICATION Spec
CONSTANTS
  Tokens = {t1}
  Requests = {r1, r2}
  NoRequest = NoRequest
  Keys = {k1, k2}
  NoKey = NoKey
  TTL = 4
  ClaimTTL = 3
  OpTimeout = 2
  Retention = 4
  MaxRetries = 1
  MaxDelay = 3
  MaxBirth = 0
  MaxTime = 6
SYMMETRY Symmetry
INVARIANTS
  NeverBurnedUnread
CHECK_DEADLOCK FALSE
