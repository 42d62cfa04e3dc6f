\* Two threads, two calls (and retries under one id); no symmetry under liveness.
CONSTANTS
  Thread = {t1, t2}
  Call = {c1, c2}
  IdSpace = 2
  MaxId = 2
  NoThread = NoThread
  NoCall = NoCall

SPECIFICATION FairSpec

PROPERTIES
  ClaimedIsResolved
  SyncReturns

CHECK_DEADLOCK FALSE
