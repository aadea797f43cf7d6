SPECIFICATION FairSpec
CONSTANTS
  Requests = {r1, r2}
  Decidable = {r1}
  Sessions = {s1}
  MaxTasks = 1
  Ops = {"ask", "accept_agent", "accept_user", "decline", "clarify"}
  Faults = {"lost_step", "lost_activity", "lost_reply", "rejected_start", "lost_dispatch", "no_target"}
INVARIANT
  OneWriterUnstopped
PROPERTIES
  KeepsOutbox
  StoppedStaysStopped
  ResultsReturn
CHECK_DEADLOCK FALSE
