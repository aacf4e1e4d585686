SPECIFICATION Spec
CONSTANTS
  e1 = e1  e2 = e2  e3 = e3
  h1 = h1  h2 = h2  h3 = h3
  Executor = {e1, e2, e3}
  Host = {h1, h2, h3}
  HostOf <- SharedHost
  InitialMembers = {e1, e2}
  ServerKind = "vLLM"
  NumPorts = 1
  WaitRetries = 1
  MaxAttempts = 1
  FaultKinds = {"join", "leave"}
  MaxFaults = 3
  MaxPid = 2
PROPERTIES EveryServerRecorded
CHECK_DEADLOCK FALSE
