SPECIFICATION FairSpec
CONSTANTS
  w1 = w1
  w2 = w2
  test = test
  Workers = {w1}
  Patient = {}
  Beating = {}
  Tasks = {1}
  Awaited = {}
  Commands = {test}
  CommandOf <- OneTask
  Capacity = 1
  Mishaps = {"kill"}
PROPERTY NothingIsStranded
CHECK_DEADLOCK FALSE
