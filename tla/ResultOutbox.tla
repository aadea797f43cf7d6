---------------------------- MODULE ResultOutbox ----------------------------
(***************************************************************************)
(* What an agent's turn is promised of the results it asked colleagues     *)
(* for, without the rows, locks, tasks and workflows that carry them: a    *)
(* result comes back as one turn of the same conversation, the turns are   *)
(* worked off one after the other in the order in which they were queued,  *)
(* and a stop drops what nobody had taken in hand before it.               *)
(***************************************************************************)
EXTENDS Naturals, Sequences

CONSTANT Results

VARIABLES
  stage,    \* how far the turn of each result has got
  order,    \* results in the order in which they were queued
  claimed,  \* results that a dispatcher has in hand
  stopped,  \* is the turn that asked to be stopped?
  busy      \* is the turn that asked still at work?

promiseVars == <<stage, order, claimed, stopped, busy>>

Stages == {"none", "queued", "sent", "working", "over", "dropped"}

PromiseInit ==
  /\ stage = [r \in Results |-> "none"]
  /\ order = <<>>
  /\ claimed = {}
  /\ stopped = FALSE /\ busy = TRUE

Moves(r, from, to) ==
  /\ stage[r] \in from
  /\ stage' = [stage EXCEPT ![r] = to]

\* The result is there, and gets the place behind all the others ...
Enter(r) ==
  /\ ~stopped
  /\ Moves(r, {"none"}, "queued")
  /\ order' = Append(order, r)
  /\ UNCHANGED <<claimed, stopped, busy>>

\* ... or nobody is left who would read it.
Forgo(r) ==
  /\ stopped /\ r \notin claimed
  /\ Moves(r, {"none", "queued"}, "dropped")
  /\ UNCHANGED <<order, claimed, stopped, busy>>

\* A dispatcher takes a result in hand, and may do so again and again.
Claim(r) ==
  /\ ~stopped
  /\ stage[r] \notin {"none", "dropped"}
  /\ claimed' = claimed \cup {r}
  /\ UNCHANGED <<stage, order, stopped, busy>>

Release(r) ==
  /\ claimed' = claimed \ {r}
  /\ UNCHANGED <<stage, order, stopped, busy>>

\* It is sent once, by whoever has it in hand, also after a stop.
Send(r) ==
  /\ r \in claimed
  /\ Moves(r, {"queued"}, "sent")
  /\ UNCHANGED <<order, claimed, stopped, busy>>

\* Is it the turn of this result?
Foremost(r) ==
  /\ ~busy
  /\ \A i, j \in DOMAIN order : order[j] = r /\ i < j => stage[order[i]] = "over"

Work(r) ==
  /\ stopped \/ Foremost(r)
  /\ Moves(r, {"sent"}, "working")
  /\ UNCHANGED <<order, claimed, stopped, busy>>

\* A turn ends when it was worked off, or, after a stop, without any work.
End(r) ==
  /\ \/ Moves(r, {"working"}, "over")
     \/ stopped /\ Moves(r, {"sent"}, "over")
  /\ UNCHANGED <<order, claimed, stopped, busy>>

Stop ==
  /\ busy /\ ~stopped
  /\ stopped' = TRUE
  /\ UNCHANGED <<stage, order, claimed, busy>>

Close ==
  /\ busy' = FALSE
  /\ UNCHANGED <<stage, order, claimed, stopped>>

PromiseNext ==
  \/ \E r \in Results :
       Enter(r) \/ Forgo(r) \/ Claim(r) \/ Release(r) \/ Send(r) \/ Work(r) \/ End(r)
  \/ Stop \/ Close

PromiseSpec == PromiseInit /\ [][PromiseNext]_promiseVars

=============================================================================
