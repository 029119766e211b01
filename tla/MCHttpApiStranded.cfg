SPECIFICATION Spec
CONSTANTS
  r1 = r1
  r2 = r2
  Requests = {r1, r2}
  SessionIds = {r1, r2}
  NoSession = NoSession
  l1 = l1
  Letters = {l1}
  Endpoints <- MCEndpoints
  Limit = 1
  Window = 2
  SessionTTL = 2
  ExpiresAt = 3
  ClaimTTL = 1
  OpTimeout = 1
  MaxRetries = 1
  MaxResent = 1
  MaxTime = 4
PROPERTIES ValidTokenAllowsReading
CHECK_DEADLOCK FALSE
