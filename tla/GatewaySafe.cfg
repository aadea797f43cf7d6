SPECIFICATION FairSpec
CONSTANTS
  Attempts = {a1, a2, a3}
  Approvals = {p1}
  Policies = {r1}
  None = None
  Redispatchable = TRUE
  MaxDispatch = 2
  SessionsFail = FALSE
  RollbackRuns = FALSE
INVARIANTS
  DispatchBudget
PROPERTIES
  KeepsPromise
  EveryAttemptEnds
CHECK_DEADLOCK FALSE
