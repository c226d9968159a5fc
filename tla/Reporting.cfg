SPECIFICATION FairReporting
CONSTANTS
  NameOf <- Names
  BridgeName = "telegram"
  MaxMessages = 2
  Letters = {}
  Operator = operator
  InboxLimit = 2
  MaxMishaps = 1
  MaxRequests = 2
  Updates <- Bot
INVARIANTS ForgottenIsHandled CollectorIsWoken
PROPERTY BatchIsWorkedThrough
CHECK_DEADLOCK FALSE
