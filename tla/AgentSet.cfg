SPECIFICATION FairSpec
CONSTANTS
  a = a
  b = b
  Agents = {a, b}
  Settings <- MCSettings
  None = None
INVARIANT QuietDone
PROPERTY SetSettles
CHECK_DEADLOCK FALSE
