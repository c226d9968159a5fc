SPECIFICATION FairSpec
CONSTANTS
  Operator = operator
  NameOf <- Names
  BridgeName = "telegram"
  Letters <- Post
  MaxMessages = 2
  InboxLimit = 2
  MaxMishaps = 1
INVARIANTS TypeOK NotLost LogCountsAgree
PROPERTY BridgeHears
CHECK_DEADLOCK FALSE
