SPECIFICATION FairSpec
CONSTANTS
  Clients = {1, 2}
  Program <- Programs
  Limit = 2
  MaxSignals = 1
PROPERTY AnsweredInGrace
CHECK_DEADLOCK FALSE
