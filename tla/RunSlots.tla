------------------------------ MODULE RunSlots ------------------------------
(***************************************************************************)
(* What admission promises of the slots of agents and workspace, without   *)
(* the rows, transactions and workflows that keep it: a turn takes a slot  *)
(* when one is free and the turn before it is over, lays it down once, and *)
(* takes none after that.                                                  *)
(***************************************************************************)
EXTENDS Naturals, FiniteSets

CONSTANTS Tasks, AgentOf, After, AgentLimit, WorkspaceLimit

VARIABLES
  taken,  \* how many slots a task has taken so far
  held,   \* slots that are not laid down, each of a task and numbered there
  over    \* tasks that have ended

slotVars == <<taken, held, over>>

SlotsInit ==
  /\ taken = [t \in Tasks |-> 0]
  /\ held = {}
  /\ over = {}

HeldBy(agent) == {s \in held : AgentOf[s[1]] = agent}
Slot(t, n) == <<t, n>>
Newest(t) == Slot(t, taken[t])

\* The answer that a slot was taken may be lost: then another one is taken, as
\* long as none of them was laid down.
Take(t) ==
  /\ t \notin over
  /\ After[t] \in Tasks => After[t] \in over
  /\ Cardinality(HeldBy(AgentOf[t])) < AgentLimit[AgentOf[t]]
  /\ Cardinality(held) < WorkspaceLimit
  /\ \A n \in 1..taken[t] : Slot(t, n) \in held
  /\ taken' = [taken EXCEPT ![t] = @ + 1]
  /\ held' = held \cup {Newest(t)'}
  /\ UNCHANGED over

\* The newest slot is the one the turn knows of.
LayDown(t) ==
  /\ held' = held \ {Newest(t)}
  /\ UNCHANGED <<taken, over>>

\* A turn that ends may have laid its slot down, or never have had one.
End(t) ==
  /\ over' = over \cup {t}
  /\ held' \in {held, held \ {Newest(t)}}
  /\ UNCHANGED taken

SlotsNext == \E t \in Tasks : Take(t) \/ LayDown(t) \/ End(t)

SlotsSpec == SlotsInit /\ [][SlotsNext]_slotVars

=============================================================================
