\* The executor's timeout leaves the node of a sub-agent behind.
SPECIFICATION Spec
CONSTANTS
  p1 = p1
  p2 = p2
  p3 = p3
  p4 = p4
  b1 = b1
  b2 = b2
  Calls = {p1}
  Batches = {b1}
  BatchOf <- MCBatchOf
  Permits = 2
  Limit = 0
  MaxSpawns = 1
  MaxRetries = 2
INVARIANTS NothingAccumulates
CHECK_DEADLOCK FALSE
