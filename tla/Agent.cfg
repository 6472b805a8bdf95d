SPECIFICATION AgentSpec
CONSTANTS
  i1 = i1
  i2 = i2
  Ids = {i1, i2}
  c1 = c1
  c2 = c2
  Configs = {c1, c2}
  t1 = t1
  t2 = t2
  Clients = {t1, t2}
  None = None
  Calls = {"ScheduleJob", "UnscheduleJob", "Stop"}
  MayEnd = TRUE
  Cancels = TRUE
  Exclusive = FALSE
  CorePluginName = core
  OtherNames = {p}
  Revisions = {1, 2}
  Version = 1
  MaxAcsMessages = 1
  MaxAgentRestarts = 1
  Commands = {vm}
  VmEvent = vm
  GetOption = go
  UnknownCommand = unk
  Conns = {k1, k2}
  Plugins = {p}
  Metrics = {m1, m2, m3}
  ListSize = 3
  NoMetric = nometric
  Recorders = {r1, r2}
  MaxRecords = 2
  MaxRecorded = 4
  Idempotent = FALSE
  MaxWishes = 3
  MaxReboots = 2
  MaxRefreshes = 2
  MaxExtStarts = 2
  Collectors = {tcp, udp}
  DefaultInterval = 1
  Overrides <- OverrideOne
  MaxRunTimeout = 1
  ResultMultiplier = 1
  Stalls = FALSE
  QueueCapacity = 1
  ConnectAttempts = 2
  MaxFailures = 2
  MaxDue = 3
  MaxNtStarts = 1
  MaxNtRefreshes = 1
CHECK_DEADLOCK FALSE
INVARIANTS
  NoSendOnClosed
  CoreIsLocal
  RunningIsRegistered
  EachMetricOnce
  NeverBoth
  LinkLeadsToCredentials
  ReportedOnce
PROPERTIES
  DynamicTakesPrecedence
  RingIsWindow
