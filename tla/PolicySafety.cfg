SPECIFICATION Spec
CONSTANTS
  Drafts = {d1}
  Candidates = {c1}
  Published = {p1, p2}
  Contents = {x, y}
  Executions = {e1}
  Sessions = {s1, s2}
  None = none
  MaxApprovals = 2
  MaxTime = 2
  MaxBlocks = 1
SYMMETRY GovernanceSymmetry
INVARIANTS
  TypeOK
  OneEnforced
  ChangesApproved
  PendingIsCurrent
  PublishedReviewed
PROPERTIES
  BoundVersionActive
  StableResolution
  DecisionStands
  ImplementsEnforcement
CHECK_DEADLOCK FALSE
