SPECIFICATION FairSpec
CONSTANTS
  NTasks = 1
  Workers = {w1, w2}
  RunJob = run
  GateJob = gate
  FailedRetries = {}
  FullRetries = {retry}
  HealJobs = {heal}
  Cancels = {}
  Outcomes = {"completed"}
  Reviews = {}
  MaxGates = 0
  MaxFaults <- LivenessFaults
  MaxFaultsInAll = 1
INVARIANTS
  LiveJobsAreUnderWay
PROPERTIES
  JobsSettle
CHECK_DEADLOCK FALSE
