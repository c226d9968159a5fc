SPECIFICATION FairSpec
CONSTANTS
  w1 = w1
  w2 = w2
  test = test
  Workers = {w1, w2}
  Patient = {w2}
  Beating = {w2}
  Tasks = {1}
  Awaited = {}
  Commands = {test}
  CommandOf <- OneTask
  Capacity = 1
  Mishaps = {"kill", "leave", "evict", "cancel"}
INVARIANT WorkersAreWoken
PROPERTIES AbandonedIsRequeued EveryTaskFinishes
CHECK_DEADLOCK FALSE
