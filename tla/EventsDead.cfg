SPECIFICATION FairSpec
CONSTANTS
  metadata = metadata
  sshca = sshca
  longpoll = longpoll
  read = read
  s1 = s1
  t1 = t1
  Dispatcher = Dispatcher
  None = None
  Watchers = {sshca}
  EventsOf <- OneEach
  Subs = {s1}
  Clients = {t1}
  MaxEntries = 2
  Allow = {"remove", "re-add"}
CHECK_DEADLOCK FALSE
PROPERTIES
  RemovesReturn
