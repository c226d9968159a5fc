SPECIFICATION FairSpec
CONSTANTS
  Agents = {"a", "b"}
  Pulls = {1}
  Threads = {1, 2, 3}
  CommentWindow = 2
  ReviewWindow = 3
  ThreadWindow = 2
  CheckWindow = 2
  ReplyWindow = 2
  Logins <- TwoLogins
  HubFirst <- ClosedDraft
  SeesFirst <- OnlyPersonal
  Askers = {"b"}
  EditsOf <- Edited
  MaxEdits = 1
  MaxUpsets = 1
  MaxWatches = 2
  Upsets = {"outage", "access", "revoke", "signout", "crash", "hangup", "replaced", "fault"}
INVARIANTS TypeOK SubscribersKnow OutageIsToldOnce
PROPERTY SeenIsObserved WaitersAreWoken
CHECK_DEADLOCK FALSE
