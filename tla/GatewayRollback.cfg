SPECIFICATION Spec
CONSTANTS
  Attempts = {a1, a2, a3}
  Approvals = {p1}
  Policies = {r1}
  None = None
  Redispatchable = FALSE
  MaxDispatch = 1
  SessionsFail = FALSE
  RollbackRuns = TRUE
SYMMETRY Symmetry
INVARIANTS
  EveryEntryIsDispatched
CHECK_DEADLOCK FALSE
