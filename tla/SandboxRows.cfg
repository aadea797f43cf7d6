SPECIFICATION FairSpec
CONSTANTS
  c1 = c1
  c2 = c2
  None = None
  Jobs <- FirstCall
  MaxTime = 4
  Timeout = 1
  Grace = 1
  Retention = 2
  Skew = 1
  Ahead = 1
  Restarts = 1
  Tended <- FirstCall
  Faults = {"docker", "overlap"}
PROPERTIES
  RowsClose
CHECK_DEADLOCK FALSE
