---------------------------- MODULE MCAgentTask ----------------------------
(* Instances of AgentTask for TLC: one task with all that people may ask of   *)
(* it, and four tasks that compete for the slots of an agent and a workspace. *)
EXTENDS AgentTask

CONSTANTS a1, a2, a3

OneSlot   == [a \in Agents |-> 1]
Alone     == [t \in Tasks |-> a1]
FirstTwo  == [t \in Tasks |-> IF t <= 2 THEN a1 ELSE IF t = 3 THEN a2 ELSE a3]
Unordered == [t \in Tasks |-> None]
LastAfterSecond == [t \in Tasks |-> IF t = 4 THEN 2 ELSE None]

NoGates  == [t \in Tasks |-> 0]
TwoGates == [t \in Tasks |-> 2]

Nothing    == [t \in Tasks |-> {}]
Everything == [t \in Tasks |-> PossibleRequests]
LastIsWithdrawn == [t \in Tasks |-> IF t = 4 THEN {"withdraw"} ELSE {}]

=============================================================================
