SPECIFICATION MCSpec
CONSTANTS
  defaultKneePerReplica = 2
  DefaultMinReplicas = 1
  SignBit = 8
  Workers = {w1, w2}
  Loads = {0, 5, 9}
  Ranges <- TwoRanges
  StepUp = 2
  StepDown = 1
  UpCooldown = 1
  DownCooldown = 2
  Knee = 2
  maxSampleAge = 1
  MaxLoadChanges = 1
  MaxEdits = 1
  None = None
  maxAge = 2
  maxRecords = 2
  MaxTime = 4
  MaxAdds = 4
INVARIANT ReadsNewest
PROPERTIES PacedWhenFollowed FleetSized
