\* A batch of three calls that trips at the first failure, and a call of another
\* session, on a budget of one.
SPECIFICATION FairSpec
CONSTANTS
  p1 = p1
  p2 = p2
  p3 = p3
  p4 = p4
  b1 = b1
  b2 = b2
  Calls = {p1, p2, p3, p4}
  Batches = {b1, b2}
  BatchOf <- MCBatchOf
  Permits = 2
  Limit = 1
  MaxSpawns = 1
  MaxRetries = 1
INVARIANTS GuardsCounted NodeTracksSpawn BreakerHonoured
PROPERTIES LifecycleIsFinal RefusalsExplained BudgetKept CallsEnd
\* A batch comes to its end.
CHECK_DEADLOCK FALSE
