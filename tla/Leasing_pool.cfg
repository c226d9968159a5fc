SPECIFICATION Spec
CONSTANTS
  a = a
  b = b
  test = test
  Agents = {a, b}
  Resources = {test}
  Requests = {1, 2}
  Call <- TwoCalls
  Capacities = {1, 2}
  TTLs = {1, 2}
  MaxTime = 3
  MaxPending = 1
  Faults = TRUE
INVARIANTS TypeOK NoLostWakeup WithdrawnIsTold AnswersAreTrue
PROPERTIES GrantsWithinCapacity ImplementsSlotPool
CHECK_DEADLOCK FALSE
