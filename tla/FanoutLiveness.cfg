SPECIFICATION FairSpec
CONSTANTS
  NTasks = 2
  Workers = {w1, w2}
  Parallelism = 1
  Outcomes = {"failed"}
  MaxChains = 2
  MaxCrashes = 1
  MaxRedeliveries = 0
  MaxRaises = 1
  MaxUnhandled = 0
  Requests = {r1, r2}
  AmbiguousPublish = FALSE
INVARIANTS
  BoundedParallelism
  SettledJob
  JobExecutionAgree
  LiveJobIsUnderWay
PROPERTIES
  JobSettles
CHECK_DEADLOCK FALSE
