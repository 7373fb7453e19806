SPECIFICATION FairSpec
CONSTANTS
  Nil = Nil
  Names <- FourNames
  Hashes = {"h1", "h2"}
  Broken = {"h2"}
  Specs <- RollAndScale
  FaultKinds = {"edit", "evict", "fail", "restart", "unready"}
  MaxFaults = 2
  MaxLag = 1
INVARIANT SlotExclusive
PROPERTY EventuallyConverged
CHECK_DEADLOCK FALSE
