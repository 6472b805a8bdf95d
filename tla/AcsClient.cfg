SPECIFICATION FairSpec
CONSTANTS
  u1 = u1
  u2 = u2
  Users = {u1, u2}
  Methods = {"Send", "SendMessage", "Watch"}
  MaxAttempts = 2
  MaxConns = 3
  Failures = {"metadata", "NewClient", "NewConnection"}
CHECK_DEADLOCK FALSE
INVARIANTS
  OpenIsCached
PROPERTIES
  OnlyFailedIsClosed
  SendsReturn
