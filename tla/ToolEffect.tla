----------------------------- MODULE ToolEffect -----------------------------
(***************************************************************************)
(* What the tool gateway promises of one durable invocation, without its   *)
(* attempts, locks, approvals or reviews: a call is open until it is run   *)
(* or refused, every run is announced before it starts, a run whose end    *)
(* nobody saw is repeated only when repeating it is harmless and only a    *)
(* bounded number of times, and a closed call stays closed.                *)
(***************************************************************************)
EXTENDS Naturals

CONSTANTS
  Repeatable,  \* may a run whose end nobody saw be repeated?
  Limit        \* how many runs a repeatable call may have

VARIABLES
  phase,    \* open, running, unproven, or how the call was closed
  runs,     \* runs announced
  entered   \* runs that started

effectVars == <<phase, runs, entered>>

Closed == {"completed", "failed", "denied", "rejected"}
Budget == IF Repeatable THEN Limit ELSE 1

EffectInit == phase = "open" /\ runs = 0 /\ entered = 0

\* A call that is not running is refused or given up: nothing runs.
Refuse ==
  /\ phase = "open"
  /\ phase' \in Closed \ {"completed"}
  /\ UNCHANGED <<runs, entered>>

Announce ==
  /\ phase = "open" /\ runs < Budget
  /\ phase' = "running"
  /\ runs' = runs + 1
  /\ UNCHANGED entered

\* At most one start for each announcement.
Begin ==
  /\ phase = "running" /\ entered < runs
  /\ entered' = entered + 1
  /\ UNCHANGED <<phase, runs>>

Conclude ==
  /\ phase = "running"
  /\ phase' \in {"completed", "failed"}
  /\ UNCHANGED <<runs, entered>>

\* Nobody saw the end: the call says so ...
Doubt ==
  /\ phase = "running"
  /\ phase' = "unproven"
  /\ UNCHANGED <<runs, entered>>

\* ... or, when a repeat is harmless, it is open again or given up for good.
Recover ==
  /\ phase \in {"running", "unproven"} /\ Repeatable
  /\ \/ phase' = "open" /\ runs < Budget
     \/ phase' = "failed"
  /\ UNCHANGED <<runs, entered>>

EffectNext == Refuse \/ Announce \/ Begin \/ Conclude \/ Doubt \/ Recover

EffectSpec == EffectInit /\ [][EffectNext]_effectVars

=============================================================================
