SPECIFICATION FairSpec
CONSTANTS
  call = call
  sweep = sweep
  v1 = v1
  v2 = v2
  None = None
  Callers <- OneCall
  Sweeper = sweep
  Visits <- TwoVisits
  Flows = {"code", "device"}
  GiveUp = 2
  MaxIssued = 3
  Decisions = 1
  Mishaps = 1
INVARIANTS
  NoReplay
  LandingIsTrue
PROPERTIES
  NewGrantStays
  DeadIsNoticed
CHECK_DEADLOCK FALSE
