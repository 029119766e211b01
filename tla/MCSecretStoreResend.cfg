SPECIFICATION FairSpec
CONSTANTS
  Tokens = {t1}
  Requests = {r1, r2}
  NoRequest = NoRequest
  Keys = {k1, k2}
  NoKey = NoKey
  TTL = 3
  ClaimTTL = 2
  OpTimeout = 1
  Retention = 1
  MaxRetries = 1
  MaxDelay = 2
  MaxBirth = 0
  MaxTime = 5
INVARIANTS
  AtMostOneReveal
  BoundedLife
PROPERTIES
  NoResurrection
  RevealWindow
  ClaimBlocksBriefly
  EveryCallEnds
  EventuallyErased
CHECK_DEADLOCK FALSE
