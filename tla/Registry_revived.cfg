SPECIFICATION Spec
CONSTANTS
  p1 = p1
  p2 = p2
  builder = builder
  Procs = {p1, p2}
  NameOf <- SameName
  Asks = {"heartbeat"}
  MaxIds = 2
PROPERTY RetiredStays
CHECK_DEADLOCK FALSE
