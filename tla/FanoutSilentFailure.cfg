SPECIFICATION Spec
CONSTANTS
  NTasks = 1
  Workers = {w1, w2}
  Parallelism = 1
  Outcomes = {"completed", "finding", "failed"}
  MaxChains = 1
  MaxCrashes = 0
  MaxRedeliveries = 0
  MaxRaises = 1
  MaxUnhandled = 0
  Requests = {}
  AmbiguousPublish = FALSE
INVARIANTS
  CompletedHidesNoFailure
CHECK_DEADLOCK FALSE
