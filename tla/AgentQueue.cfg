SPECIFICATION FairSpec
CONSTANTS
  a1 = a1
  a2 = a2
  a3 = a3
  NumTasks = 4
  Agents = {a1, a2, a3}
  AgentOf <- FirstTwo
  After <- LastAfterSecond
  AgentLimit <- OneSlot
  WorkspaceLimit = 2
  MaxSteps = 1
  MaxAttempts = 2
  MaxTurns = 0
  MaxGates <- NoGates
  SecondPolicy = FALSE
  Requests <- LastIsWithdrawn
  Faults = {}
INVARIANTS
  SlotsAreLimited
  TurnsInOrder
PROPERTIES
  NeverStranded
  KeepsSlots
CHECK_DEADLOCK FALSE
