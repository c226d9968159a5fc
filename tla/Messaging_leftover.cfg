SPECIFICATION FairSpec
CONSTANTS
  Operator = operator
  NameOf <- Names
  BridgeName = "telegram"
  Letters <- Post
  MaxMessages = 2
  InboxLimit = 2
  MaxMishaps = 1
PROPERTY EverythingIsTried
CHECK_DEADLOCK FALSE
