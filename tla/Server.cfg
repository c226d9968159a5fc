SPECIFICATION FairSpec
CONSTANTS
  Clients = {1, 2}
  Program <- Programs
  Limit = 2
  MaxSignals = 1
INVARIANTS TypeOK NoLateCall
CHECK_DEADLOCK FALSE
PROPERTY ShutdownReturns GoneIsNoticed CallsEnd
