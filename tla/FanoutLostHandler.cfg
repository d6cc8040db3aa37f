SPECIFICATION FairSpec
CONSTANTS
  NTasks = 1
  Workers = {w1, w2}
  Parallelism = 1
  Outcomes = {"completed"}
  MaxChains = 1
  MaxCrashes = 0
  MaxRedeliveries = 0
  MaxRaises = 0
  MaxUnhandled = 1
  Requests = {}
  AmbiguousPublish = FALSE
PROPERTIES
  JobSettles
CHECK_DEADLOCK FALSE
