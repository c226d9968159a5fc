SPECIFICATION FairSpec
CONSTANTS
  Names = {"cpu", "gpu"}
  Contents <- Files
  First <- Start
  StableChecks = 3
  MaxEdits = 3
  MaxAsks = 1
  MaxUpsets = 1
INVARIANTS TypeOK ResourcesFollow
PROPERTY SettledIsApplied
CHECK_DEADLOCK FALSE
