------------------------- MODULE MCTriggerDispatch -------------------------
(* Instances of TriggerDispatch for TLC: one transition of one external       *)
(* entity, reported by one event or two, and matched by one trigger or two.   *)
EXTENDS TriggerDispatch

CONSTANTS t1, t2, issue, todo

OneTrigger  == <<t1>>
TwoTriggers == <<t1, t2>>

OneIssue == [e \in Events |-> issue]
SameChange == [e \in Events |-> todo]

=============================================================================
