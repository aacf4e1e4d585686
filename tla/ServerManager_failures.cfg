SPECIFICATION FairSpec
CONSTANTS
  e1 = e1  e2 = e2  e3 = e3
  h1 = h1  h2 = h2  h3 = h3
  Executor = {e1, e2}
  Host = {h1, h2}
  HostOf <- TwoHosts
  InitialMembers = {e1, e2}
  ServerKind = "vLLM"
  NumPorts = 1
  WaitRetries = 1
  MaxAttempts = 2
  FaultKinds = {"lose"}
  MaxFaults = 1
  MaxPid = 4
INVARIANTS TypeOK
PROPERTIES OrphansHaveACause LifecycleSpec CallsReturn
CHECK_DEADLOCK FALSE
