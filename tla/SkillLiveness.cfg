SPECIFICATION FairSpec
CONSTANTS
  c1 = c1
  c2 = c2
  c3 = c3
  w1 = w1
  w2 = w2
  a1 = a1
  a2 = a2
  project = project
  tenant = tenant
  key = key
  None = None
  Calls = {c1, c3}
  Outcomes = {"ok", "soft", "failed_result", "cancelled_result", "transient", "broken", "refused", "guardrail"}
  Workers = {w1, w2}
  Adapters = {a1, a2}
  Keys = {project, tenant}
  IdemKeys = {key}
  Worker <- MCWorker
  Adapter <- MCAdapter
  Fallback <- MCFallback
  Scopes <- MCScopes
  Idem <- MCIdem
  Profile <- MCProfile
  Limit <- MCLimit
  Attempts = 2
  Threshold = 1
  Recovery = 1
  Timeout = 2
  Grace = 1
  Modes = {"local", "redis"}
  LastStart = 0
  Horizon = 6
  MaxFaults = 1
  MaxCrashes = 1
INVARIANTS
  ReconciledRow
  WaitsAreBounded
PROPERTIES
  LeasesEnd
  CallsEnd
  ImplementsKeyedInvocation
CHECK_DEADLOCK FALSE
