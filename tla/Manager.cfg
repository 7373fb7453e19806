SPECIFICATION MCSpec
CONSTANTS
  a = a  b = b  A = A  B = B
  Deploys = {a, b}
  Sets = {A, B}
  SetOf <- MCSetOf
  Workers = {w1, w2}
  Clients = {c1, c2, c3, c4, c5}
  None = None
  MaxChanges = 2
  Keys = {k1, k2}
  MaxSwitches = 3
  Replicas = {r1, r2}
  MaxFaults = 2
INVARIANT OneOpenPerSet
PROPERTIES ClientsSettle KeysServed WebhookTrusted ImplementsAgreement
CHECK_DEADLOCK FALSE
