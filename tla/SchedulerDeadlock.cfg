SPECIFICATION FairSpec
CONSTANTS
  i1 = i1
  Ids = {i1}
  c1 = c1
  Configs = {c1}
  t1 = t1
  Clients = {t1}
  None = None
  Calls = {"ScheduleJob", "UnscheduleJob"}
  MayEnd = TRUE
  Cancels = FALSE
  Exclusive = TRUE
CHECK_DEADLOCK FALSE
PROPERTIES
  CallsReturn
