SPECIFICATION FairSpec
CONSTANTS
  Clients = {1, 2}
  Program <- Programs
  Limit = 2
  MaxSignals = 2
PROPERTY SecondSignalKills
CHECK_DEADLOCK FALSE
