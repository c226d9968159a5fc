SPECIFICATION FairSpec
CONSTANTS
  Names = {"cpu", "gpu"}
  Contents <- Files
  First <- Start
  StableChecks = 3
  MaxEdits = 2
  MaxAsks = 1
  MaxUpsets = 1

PROPERTY SettledIsRunning
CHECK_DEADLOCK FALSE
