SPECIFICATION FairSpec
CONSTANTS
  d1 = d1
  d2 = d2
  r1 = r1
  Digests = {d1, d2}
  Requests = {r1}
  Inputs <- AnyInputs
  Foreign = {}
  Cap = 1
  QueueCap = 1
  QueueTTL = 1
  RetryAfter = 1
  PauseAfter = 1
  PauseFailures = 2
  OverlayCap = 1
  TTL <- MCLongTTL
  WaitBudget = 1
  CancelAt = {"loading", "waiting"}
INVARIANT TypeOK
PROPERTIES WaitEnds QueueDrainsUnlessPaused
