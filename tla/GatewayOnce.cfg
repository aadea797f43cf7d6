SPECIFICATION Spec
CONSTANTS
  Attempts = {a1, a2, a3, a4}
  Approvals = {p1}
  Policies = {r1, r2}
  None = None
  Redispatchable = FALSE
  MaxDispatch = 1
  SessionsFail = TRUE
  RollbackRuns = TRUE
SYMMETRY Symmetry
INVARIANTS
  AtMostOnce
  RefusedNeverRan
  ApprovedBeforeRun
  DoubtIsKept
  AnswerIsDurable
CHECK_DEADLOCK FALSE
