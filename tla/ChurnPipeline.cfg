SPECIFICATION Spec
CONSTANTS
  Null = Null
  AddOn = {"OnlineSecurity", "StreamingTV"}
  Cent = 6
  Files <- AllFiles
  DupTimes = {1, 2}
  Types = {"decimal", "double"}
  Days <- SomeDays
  Ages <- SomeAges
  MaxRuns = 2
INVARIANTS Reconstituted RowsPerCustomer CalendarFindsSeniors ChargesFollowCreation
CHECK_DEADLOCK FALSE
