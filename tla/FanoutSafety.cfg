SPECIFICATION Spec
CONSTANTS
  NTasks = 3
  Workers = {w1, w2}
  Parallelism = 2
  Outcomes = {"completed", "failed"}
  MaxChains = 2
  MaxCrashes = 0
  MaxRedeliveries = 1
  MaxRaises = 1
  MaxUnhandled = 1
  Requests = {}
  AmbiguousPublish = TRUE
SYMMETRY ProcessSymmetry
INVARIANTS
  ProgressInv
  OneExecutor
  BatchBarrier
  ReducerAfterTasks
PROPERTIES
  FinishedStaysFinished
  ImplementsReduction
CHECK_DEADLOCK FALSE
