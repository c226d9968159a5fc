SPECIFICATION Spec
CONSTANTS
  w1 = w1
  w2 = w2
  test = test
  Workers = {w1, w2}
  Patient = {}
  Beating = {w1, w2}
  Tasks = {1}
  Awaited = {}
  Commands = {test}
  CommandOf <- OneTask
  Capacity = 1
  Mishaps = {"cancel"}
PROPERTY RunningIsLeftToFinish
CHECK_DEADLOCK FALSE
