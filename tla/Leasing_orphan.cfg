SPECIFICATION FairSpec
CONSTANTS
  a = a
  b = b
  test = test
  Agents = {a, b}
  Resources = {test}
  Requests = {1, 2}
  Call <- TwoCalls
  Capacities = {1, 2}
  TTLs = {1}
  MaxTime = 1
  MaxPending = 1
  Faults = TRUE
PROPERTY NotLeftBehindTheGone
CHECK_DEADLOCK FALSE
