SPECIFICATION FairSpec
CONSTANTS
  a = a
  b = b
  test = test
  Agents = {a, b}
  Resources = {test}
  Requests = {1, 2, 3}
  Call <- ThreeCalls
  Capacities = {1}
  TTLs = {1}
  MaxTime = 1
  MaxPending = 1
  Faults = FALSE
PROPERTY SlotNotLeftIdle
CHECK_DEADLOCK FALSE
