SPECIFICATION MCSpec
CONSTANTS
  warmupAfterScale = 2
  minSamplesToLearn = 2
  fullConfidenceWindow = 3
  numBuckets = 2
  Weight <- MCWeight
  Byte = 4
  hashLenSize = 1
  countSize = 1
  timeSize = 2
  replicasSize = 1
  floatSize = 1
  foldedSize = 1
  Error = Error
  Cards = {"A", "B", "C"}
  None = "none"
  MaxPolls = 8
  p1 = p1
  p2 = p2
  t1 = t1
  t2 = t2
  ErrNoData = ErrNoData
INVARIANTS
  MetricsTruthful DecisionSound LearnsSoundly DecodesOwnOnly AcceptsLastSteady
CHECK_DEADLOCK FALSE
