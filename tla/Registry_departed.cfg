SPECIFICATION FairSpec
CONSTANTS
  p1 = p1
  p2 = p2
  builder = builder
  Procs = {p1}
  NameOf <- SameName
  Asks = {"acquire", "renew"}
  MaxIds = 2
PROPERTIES NameIsFreed DepartedHoldNothing
CHECK_DEADLOCK FALSE
