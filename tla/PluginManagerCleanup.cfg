SPECIFICATION Spec
CONSTANTS
  Names = {n1}
  Revs = {r1, r2}
  Slots = {s1}
  Pids = {p1, p2}
  n1 = n1
  r1 = r1
  r2 = r2
  s1 = s1
  p1 = p1
  p2 = p2
  None = None
  Corrupt = Corrupt
  Actions = {"INSTALL", "REMOVE"}
  LocalRev <- NoLocal
  SpacedRequests = TRUE
  Uds = FALSE
  Shutdowns = FALSE
  MaxRestarts = 0
  MaxScans = 1
CHECK_DEADLOCK FALSE
SYMMETRY Symmetry
PROPERTIES
  CleanupKeepsManagedPlugins
