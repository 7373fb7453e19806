SPECIFICATION MCSpec
CONSTANTS
  Nil = Nil
  Names <- FiveNames
  Hashes = {"h1", "h2"}
  Broken = {}
  Specs <- AllSpecs
  StaleSpecs <- RollAndScale
  StaleNames <- FourNames
  RollSpecs <- ThreeSlots
  RollFrom <- FirstImage
  FaultKinds = {"edit", "stale", "evict", "fail"}
  MaxFaults = 2
  MaxLag = 2
  ShortLag = 1
INVARIANTS ServedOnStale BudgetInRollout
PROPERTY DeleteThenCreate
CHECK_DEADLOCK FALSE
