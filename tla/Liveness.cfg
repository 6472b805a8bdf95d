SPECIFICATION Spec
CONSTANTS
  None = None
  i1 = i1
  i2 = i2
  Ids = {i1, i2}
  c1 = c1
  c2 = c2
  Configs = {c1, c2}
  Calls = {"ScheduleJob", "UnscheduleJob", "Stop"}
  t1 = t1
  t2 = t2
  sshca = sshca
  longpoll = longpoll
  EventsOf <- OneEach
  s1 = s1
  Subs = {s1}
  Dispatcher = Dispatcher
  MaxEntries = 1
  Allow = {"remove"}
  MaxVersion = 3
  MaxAttempts = 3
  OlFlags = {"enable-oslogin", "enable-oslogin-certificates"}
  MaxOlChanges = 1
  MaxOlRestarts = 1
  MaxOlFaults = 1
  e1 = e1
  e2 = e2
  EarlyModules <- EarlyOrder
  LateModules = {l1, l2}
  NoNetworkRequired = {e1, l1}
  NetworkEnabled = FALSE
  MaxStarts = 1
  o1 = o1
  Operations = {o1}
  Pre = pre
  Post = post
  PreCopies = 1
  PostCopies = 2
  MaxIDCacheSize = 1
CHECK_DEADLOCK FALSE
PROPERTIES
  CallsReturn
  RemovesReturn
  RemovedAreCancelled
  RunEnds
  StopEndsAgent
  ChangesArrive
  FilesFollowMetadata
  StopEndsPlugin
  FrozenDisksThaw
