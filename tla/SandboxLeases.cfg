SPECIFICATION Spec
CONSTANTS
  r1 = r1
  r2 = r2
  r3 = r3
  a1 = a1
  a2 = a2
  c1 = c1
  Runs = {r1, r2, r3}
  Agents = {a1, a2}
  Chats = {c1}
  AgentOf <- MCAgentOf
  ChatOf <- MCChatOf
  None = None
  Leaves = {2}
  Cap = 1
  Total = 1
  MaxJobs = 1
  MaxMishaps = 1
  MaxErrands = 1
SYMMETRY Symmetry
CHECK_DEADLOCK FALSE
INVARIANTS EvictedIsEmpty SpentWell RefusalIsJustified ChatHasOneWriter
PROPERTY TreesAreKept
