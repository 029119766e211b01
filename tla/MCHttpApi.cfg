SPECIFICATION Spec
CONSTANTS
  r1 = r1
  r2 = r2
  r3 = r3
  Requests = {r1, r2, r3}
  SessionIds = {r1, r2, r3}
  NoSession = NoSession
  l1 = l1
  l2 = l2
  Letters = {l1, l2}
  Endpoints <- MCEndpoints
  Limit = 2
  Window = 2
  SessionTTL = 1
  ExpiresAt = 2
  ClaimTTL = 1
  OpTimeout = 1
  MaxRetries = 1
  MaxResent = 1
  MaxTime = 2
SYMMETRY Symmetry
INVARIANTS TypeOK YesPerWindow
PROPERTIES RefusedForCause SessionOpensItsLetter NoReopening
CHECK_DEADLOCK FALSE
