SPECIFICATION Spec
CONSTANTS
  c1 = c1  c2 = c2  c3 = c3
  GpuCount = 2
  MaxInstances = 2
  AllowedLists <- Pairs
  Container = {c1, c2, c3}
  EnvOf <- Settings
  CountOf <- Counts
INVARIANTS TypeOK AnnouncedIsApart OwnSettingDecides
PROPERTY AssignmentSpec
CHECK_DEADLOCK FALSE
