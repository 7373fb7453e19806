SPECIFICATION Spec
CONSTANTS
  Nil = Nil
  Names <- FourNames
  Hashes = {"h1", "h2"}
  Broken = {}
  Specs <- RollAndScale
  FaultKinds = {"edit", "stale"}
  MaxFaults = 2
  MaxLag = 2
INVARIANT OldPodsPruned
CHECK_DEADLOCK FALSE
