SPECIFICATION Spec
CONSTANTS
  e1 = e1  e2 = e2  e3 = e3
  h1 = h1  h2 = h2  h3 = h3
  Executor = {e1, e2, e3}
  Host = {e1, e2, e3}
  HostOf <- OnePerHost
  InitialMembers = {e1, e2}
  ServerKind = "Triton"
  NumPorts = 3
  WaitRetries = 1
  MaxAttempts = 1
  FaultKinds = {"join", "leave", "recycle"}
  MaxFaults = 1
  MaxPid = 4
SYMMETRY Interchangeable
INVARIANTS TableWhole
PROPERTIES StopIsComplete HealthyIsOwnOrOrphan
CHECK_DEADLOCK FALSE
