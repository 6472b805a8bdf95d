SPECIFICATION Spec
CONSTANTS
  Names = {n1}
  Revs = {r1}
  Slots = {s1, s2}
  Pids = {p1}
  n1 = n1
  r1 = r1
  s1 = s1
  s2 = s2
  p1 = p1
  None = None
  Corrupt = Corrupt
  Actions = {"INSTALL", "REMOVE", "APPLY", "OTHER"}
  LocalRev <- NoLocal
  SpacedRequests = FALSE
  Uds = TRUE
  Shutdowns = TRUE
  MaxRestarts = 1
  MaxScans = 1
CHECK_DEADLOCK FALSE
SYMMETRY Symmetry
INVARIANTS
  TypeOK
  OneRequestPerPlugin
  NoHalfInstalledPlugin
