SPECIFICATION CorePluginSpec
CONSTANTS
  sshca = sshca
  readEvent = readEvent
  writeEvent = writeEvent
  s1 = s1
  t1 = t1
  Dispatcher = Dispatcher
  None = None
  Watchers = {sshca}
  EventsOf <- TwoEvents
  Subs = {s1}
  Clients = {t1}
  MaxEntries = 2
  Allow = {"remove", "cancel", "subscribe", "end"}
  e1 = e1
  e2 = e2
  EarlyModules <- EarlyOrder
  LateModules = {l1, l2}
  NoNetworkRequired = {e1, l1}
  NetworkEnabled = FALSE
  MaxStarts = 1
  Keys = {k1, k2}
  Entries = {d1}
  NoEntry = NoEntry
  MaxMdChanges = 3
  MaxModRestarts = 1
  MaxReads = 2
  MaxPipeErrors = 1
  MayRemove = TRUE
  Users = {u1, u2}
  SshKeySet = {sk1, sk2}
  LocalUsers = {}
  DeprovisionRemove = FALSE
  MaxKeyChanges = 3
  MaxKeyRestarts = 1
  MaxKeyFaults = 1
  KeyTypes = {rsa, ed25519}
  MaxInstances = 2
  MaxFbStarts = 3
  MaxJobs = 2
  MaxCredsFetches = 2
  MaxMtlsRestarts = 1
  NumNics = 2
  Vlans = {v}
  Addrs = {a}
  DhclientInstalled = TRUE
  IPForwarding = TRUE
  NamePrefix = FALSE
  MaxNetChanges = 1
  MaxNetRestarts = 1
  MaxNetFaults = 1
CHECK_DEADLOCK FALSE
INVARIANTS
  RemovedAreTold
  ReadyMeansInitialized
  KnownKeysAreAnswered
  OneAnswerAtATime
  RecordedUsersHaveTheirKeys
  HostKeysAreStable
  ClientIsVerified
  OneManagerConfigures
