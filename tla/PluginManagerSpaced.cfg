SPECIFICATION Spec
CONSTANTS
  Names = {n1}
  Revs = {r1, r2}
  Slots = {s1, s2, s3}
  Pids = {p1, p2}
  n1 = n1
  r1 = r1
  r2 = r2
  s1 = s1
  s2 = s2
  s3 = s3
  p1 = p1
  p2 = p2
  None = None
  Corrupt = Corrupt
  Actions = {"INSTALL", "REMOVE"}
  LocalRev <- NoLocal
  SpacedRequests = TRUE
  Uds = FALSE
  Shutdowns = TRUE
  MaxRestarts = 0
  MaxScans = 0
CHECK_DEADLOCK FALSE
SYMMETRY Symmetry
INVARIANTS
  ReadyBeforeReplacing
  AtMostOneProcess
  NoOrphanProcess
  OnlyManagedIsMonitored
  RunningPluginIsDurable
  ReportsAreTrue
