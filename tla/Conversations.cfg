SPECIFICATION FairSpec
CONSTANTS
  MaxSteps = 2
  MaxStops = 1
  MaxCalls = 2
  MaxMishaps = 1
  Faults = {"failure", "crash", "unreachable", "unconfirmed"}
INVARIANTS
  OneTurnPerId
  ResumedOnce
  HeardIsRead
PROPERTIES
  WithdrawnNeverRuns
  EveryTurnEnds
CHECK_DEADLOCK FALSE
