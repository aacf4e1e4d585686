SPECIFICATION FairSpec
CONSTANTS
  c1 = c1  c2 = c2  c3 = c3
  GpuCount = 11
  MaxInstances = 2
  HostStates <- ElevenGpus
  Unmatched <- SecondOfGpu0
  MaxCalls = 2
  Container = {c1, c2, c3}
  EnvOf <- Settings
  CountOf <- Counts
  Docker <- InDocker
  ConfThrows = TRUE
INVARIANTS TypeOK DiscoveryMatchesHardware SeesWhatItAskedFor MultiGpuHasConsent
PROPERTIES AssignmentSpec DiscoveryTerminates
CHECK_DEADLOCK FALSE
