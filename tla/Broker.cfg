SPECIFICATION MCSpec
CONSTANTS
  Brokers = {b1, b2}
  MaxInFlight = 3
  MaxScalings = 3
  NoAnswer = NoAnswer
  Graces = {5, 9, 60, 120}
  Lag = 1
  Travel = 1
  MaxRequests = 2
  MaxFaults = 1
  Handlers = {r1, r2}
  MaxWrites = 2
  MaxServed = 3
  None = None
  MaxFrames = 2
  MaxBytes = 7
  MaxWrite = 3
INVARIANTS HeldAccounted WithinCap EndsInTime NoneRefused ReplyCurrent StreamFaithful EventsExact
PROPERTIES FleetSoftCap StreamReturns
