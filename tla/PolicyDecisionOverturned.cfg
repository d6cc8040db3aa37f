SPECIFICATION Spec
CONSTANTS
  Drafts = {d1}
  Candidates = {c1}
  Published = {p1}
  Contents = {x}
  Executions = {e1}
  Sessions = {s1}
  None = none
  MaxApprovals = 1
  MaxTime = 1
  MaxBlocks = 0
PROPERTIES
  DecisionIsFinal
CHECK_DEADLOCK FALSE
