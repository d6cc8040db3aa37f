------------------------- MODULE MCExecutionLifecycle -------------------------
(* Model-checking instances of ExecutionLifecycle: bounds on the faults, and *)
(* the symmetry of the worker processes.                                     *)
EXTENDS ExecutionLifecycle, TLC

Faults(publish, redeliver, crash, raise, block) ==
  [publish |-> publish, redeliver |-> redeliver, crash |-> crash, raise |-> raise, block |-> block]

NoFaults        == Faults(0, 0, 0, 0, 0)
SafetyFaults    == Faults(0, 1, 0, 1, 1)
LivenessFaults  == Faults(1, 1, 1, 1, 1)

WorkerSymmetry == Permutations(Workers)
=============================================================================
