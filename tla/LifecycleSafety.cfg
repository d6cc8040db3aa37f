SPECIFICATION Spec
CONSTANTS
  NTasks = 1
  Workers = {w1, w2}
  RunJob = run
  GateJob = gate
  FailedRetries = {retry}
  FullRetries = {}
  HealJobs = {}
  Cancels = {r1}
  Outcomes = {"completed", "failed"}
  Reviews = {review}
  MaxGates = 1
  MaxFaults <- SafetyFaults
  MaxFaultsInAll = 2
SYMMETRY WorkerSymmetry
INVARIANTS
  ProgressInv
  StoppedHasNoLiveTask
  SettledJobsSettleExecution
PROPERTIES
  RunUndisturbed
  RetryDropsDecision
CHECK_DEADLOCK FALSE
