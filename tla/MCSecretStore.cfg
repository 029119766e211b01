SPECIFICATION Spec
CONSTANTS
  Tokens = {t1}
  Requests = {r1, r2, r3}
  NoRequest = NoRequest
  Keys = {k1, k2}
  NoKey = NoKey
  TTL = 4
  ClaimTTL = 3
  OpTimeout = 2
  Retention = 4
  MaxRetries = 0
  MaxDelay = 3
  MaxBirth = 0
  MaxTime = 6
SYMMETRY Symmetry
INVARIANTS
  TypeOK
  AtMostOneReveal
  BurnedIsErased
  NotLostEarly
PROPERTIES
  OnlyHolderBurns
  ImplementsOneTimeSecret
CHECK_DEADLOCK FALSE
