SPECIFICATION Spec
CONSTANTS
  NumNics = 2
  Vlans = {v}
  Addrs = {a}
  DhclientInstalled = TRUE
  IPForwarding = TRUE
  NamePrefix = FALSE
  MaxNetChanges = 2
  MaxNetRestarts = 1
  MaxNetFaults = 1
INVARIANT BadNicIsInvalid
CHECK_DEADLOCK FALSE
