SPECIFICATION Spec
CONSTANTS
  c1 = c1
  c2 = c2
  None = None
  Jobs <- TwoCalls
  MaxTime = 3
  Timeout = 1
  Grace = 1
  Retention = 1
  Skew = 1
  Ahead = 1
  Restarts = 1
  Tended <- FirstCall
  Faults = {}
INVARIANTS
  EffectOnce
  OneContainer
  LedgerIsMemory
  ClosedIsOver
CHECK_DEADLOCK FALSE
