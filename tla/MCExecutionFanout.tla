-------------------------- MODULE MCExecutionFanout --------------------------
(* Model-checking instance of ExecutionFanout: workers are interchangeable, *)
(* and so are the cancel requests.                                          *)
EXTENDS ExecutionFanout, TLC

ProcessSymmetry == Permutations(Workers) \cup Permutations(Requests)
=============================================================================
