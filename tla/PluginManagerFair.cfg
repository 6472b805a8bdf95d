SPECIFICATION FairSpec
CONSTANTS
  Names = {n1}
  Revs = {r1,r2}
  Slots = {s1, s2}
  Pids = {p1, p2}
  n1 = n1
  r1 = r1
  r2 = r2
  s1 = s1
  s2 = s2
  p1 = p1
  p2 = p2
  None = None
  Corrupt = Corrupt
  Actions = {"INSTALL", "REMOVE"}
  LocalRev <- AllLocal
  SpacedRequests = TRUE
  Uds = FALSE
  Shutdowns = FALSE
  MaxRestarts = 0
  MaxScans = 0
CHECK_DEADLOCK FALSE
PROPERTIES
  RequestsFinish
  CrashesAreNoticed
