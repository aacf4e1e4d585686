SPECIFICATION Spec
CONSTANTS
  c1 = c1  c2 = c2
  GpuCount = 2
  MaxInstances = 2
  Container = {c1, c2}
  MaxDevices = 2
SYMMETRY Interchangeable
INVARIANTS VisibleIsAssigned
PROPERTY AssignmentSpec
CHECK_DEADLOCK FALSE
