SPECIFICATION FairSpec
CONSTANTS
  t1 = t1
  t2 = t2
  issue = issue
  todo = todo
  Workers = {w1, w2}
  Events = {e1}
  Triggers = {t1, t2}
  Entities = {issue}
  Changes = {todo}
  Specs <- OneTrigger
  Entity <- OneIssue
  Change <- SameChange
  MaxDeliver = 2
  MaxPrepare = 2
  Faults = {"abandoned", "rejected_start", "lost_reply", "lost_attempt", "no_agent"}
INVARIANTS
  AckedIsStarted
PROPERTIES
  EveryEventSettles
  EveryTaskEnds
CHECK_DEADLOCK FALSE
