SPECIFICATION Spec
CONSTANTS
  NTasks = 1
  Workers = {w1, w2}
  Parallelism = 1
  Outcomes = {"completed"}
  MaxChains = 2
  MaxCrashes = 0
  MaxRedeliveries = 1
  MaxRaises = 1
  MaxUnhandled = 0
  Requests = {}
  AmbiguousPublish = FALSE
PROPERTIES
  CommittedSuccessKept
CHECK_DEADLOCK FALSE
