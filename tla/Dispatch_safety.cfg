SPECIFICATION Spec
CONSTANTS
  w1 = w1
  w2 = w2
  test = test
  Workers = {w1, w2}
  Patient = {}
  Beating = {w2}
  Tasks = {1}
  Awaited = {1}
  Commands = {test}
  CommandOf <- OneTask
  Capacity = 1
  Mishaps = {"silence", "reload", "fault", "crash"}
INVARIANTS TypeOK RunsAreOwned RequestersAreWoken
PROPERTY FinishedStays
CHECK_DEADLOCK FALSE
