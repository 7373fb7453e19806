SPECIFICATION MCSpec
CONSTANTS
  Workers = {w1, w2}
  First = w1
  Closer = closer
  Hashes = {h1, h2}
  None = None
  MaxRecords = 2
  MaxAge = 0
  MaxUid = 2
  MaxRollouts = 1
  MaxFaults = 1
INVARIANT OneSpecOnly
PROPERTIES NothingRelearned EventuallyPersisted
CHECK_DEADLOCK FALSE
