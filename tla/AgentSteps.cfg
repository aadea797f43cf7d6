SPECIFICATION FairSpec
CONSTANTS
  a1 = a1
  a2 = a2
  a3 = a3
  NumTasks = 1
  Agents = {a1}
  AgentOf <- Alone
  After <- Unordered
  AgentLimit <- OneSlot
  WorkspaceLimit = 2
  MaxSteps = 2
  MaxAttempts = 2
  MaxTurns = 2
  MaxGates <- TwoGates
  SecondPolicy = TRUE
  Requests <- Everything
  Faults = {"lost_attempt", "lost_reply", "lost_finalize", "lost_kick", "lost_delivery", "unmarked_pause"}
PROPERTIES
  CallsAreAwaited
  StopEnds
CHECK_DEADLOCK FALSE
