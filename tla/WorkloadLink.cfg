SPECIFICATION Spec
CONSTANTS
  MaxRefreshes = 3
  MaxExtStarts = 2
INVARIANT LinkLeadsToDirectory
CHECK_DEADLOCK FALSE
