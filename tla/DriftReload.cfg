SPECIFICATION MCSpec
CONSTANTS
  Peers = {p1}
  Cards = {"A", "B"}
  None = "none"
  MaxReplicas = 2
  Incarnations = {1, 2}
  StabilityWindow = 2
  Lingering = FALSE
  MaxUnavailable = 1
  MaxChanges = 1
  MaxFaults = 0
INVARIANT CacheSound
PROPERTY DriftSettles
