SPECIFICATION Spec
CONSTANTS
  Null = Null  Raised = Raised  NoTask = NoTask
  Task = {t1, t2}
  Char <- Characters
  Batches <- AllBatches
  MaxIOFailures = 1
INVARIANTS FallBackIsInvisible LoadedOnceBeforeUse
CHECK_DEADLOCK FALSE
