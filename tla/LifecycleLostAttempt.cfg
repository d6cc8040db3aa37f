SPECIFICATION Spec
CONSTANTS
  NTasks = 1
  Workers = {w1, w2}
  RunJob = run
  GateJob = gate
  FailedRetries = {}
  FullRetries = {retry}
  HealJobs = {}
  Cancels = {}
  Outcomes = {"completed"}
  Reviews = {}
  MaxGates = 0
  MaxFaults <- NoFaults
  MaxFaultsInAll = 0
PROPERTIES
  AttemptsAppendOnly
CHECK_DEADLOCK FALSE
