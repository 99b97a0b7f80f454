SPECIFICATION Spec
CONSTANTS
  d1 = d1
  d2 = d2
  r1 = r1
  r2 = r2
  Digests = {d1, d2}
  Requests = {r1, r2}
  Inputs <- Singletons
  Foreign = {d1, d2}
  Cap = 1
  QueueCap = 1
  QueueTTL = 1
  RetryAfter = 1
  PauseAfter = 1
  PauseFailures = 2
  OverlayCap = 1
  TTL <- MCTTL
  WaitBudget = 1
  CancelAt = {"loading", "waiting", "deciding"}
INVARIANTS ResourceBounds OneJudgePerSpan FailedWriteGrantsNoPass
PROPERTIES StartsAreDue QueueServed
SYMMETRY Symmetry
