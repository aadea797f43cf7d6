---------------------------- MODULE ToolGateway ----------------------------
(***************************************************************************)
(* One durable tool invocation of jhin_tools.gateway.ToolGateway: the      *)
(* tool_call row, the attempts (Temporal activity attempts of the tool     *)
(* worker) that race to decide and run it, the people who decide its       *)
(* approvals and reviews, and what the environment may do to an attempt:   *)
(* kill it, cancel it, or break the one connection that both holds the     *)
(* advisory lock of the invocation and backs the attempt's session.        *)
(*                                                                         *)
(* An attempt runs `request`, `resolve_approved`, `resolve_rejected` or    *)
(* `resolve_review`.  Each database transaction of the code is one action. *)
(* The live grants, policy rules, validators and tool registry an attempt  *)
(* consults are not state of the gateway: what they answer is chosen anew  *)
(* at each decision, as the code re-reads them at each decision.           *)
(***************************************************************************)
EXTENDS Naturals, FiniteSets

CONSTANTS
  Attempts,        \* activity attempts, each runs one gateway call
  Approvals,       \* identities of approval rows
  Policies,        \* review policies; one review per policy and invocation
  None,            \* no approval, no review, no lock holder
  Redispatchable,  \* ToolDefinition.redispatch_is_safe
  MaxDispatch,     \* MAX_DISPATCH_ATTEMPTS
  SessionsFail,    \* may a live attempt lose its connection?
  RollbackRuns     \* may jhin-tool-calls-rollback run beside the workers?

ASSUME GatewayAssumption ==
  /\ Redispatchable \in BOOLEAN
  /\ SessionsFail \in BOOLEAN
  /\ RollbackRuns \in BOOLEAN
  /\ MaxDispatch \in Nat \ {0}
  /\ None \notin Attempts \cup Approvals \cup Policies

\* One way in per dispatch the budget allows, and the one that closes the row.
MaxEntries == MaxDispatch + 1

Kinds == {"request", "approved", "rejected", "review"}

Terminal == {"completed", "failed", "denied", "rejected"}

\* Wrong: a row whose executor was started still counts as not dispatched.
UndispatchedOrStarted == {"claimed", "executing"}

Undispatched == {"claimed"}
Unproven    == {"executing", "execution_unknown"}
Parked      == {"pending_approval", "pending_review"}
Statuses    == {"absent"} \cup Terminal \cup Undispatched \cup Unproven \cup Parked

ApprovalStatuses == {"none", "pending", "approved", "rejected"}
\* "declined" stands for changes_requested and escalated.
ReviewStatuses   == {"none", "pending", "skipped", "approved", "declined"}

Replies == {"none", "executed", "failed", "denied", "rejected", "unknown",
            "needs_approval", "needs_review", "mismatch", "error"}

\* Where an attempt stands between two transactions.
Idle   == {"idle", "done", "dead"}
Inside == {"look", "deny", "decide", "claimed", "ready", "unfenced", "dispatch",
           "enter", "run", "run_unfenced", "unsure", "cancelled"}
Places == Idle \cup {"wait"} \cup Inside

VARIABLES
  row,         \* the tool_call row: its status and the approval and review it references
  dispatches,  \* how many tool.call.dispatched audit events name the row
  approvals,   \* status of each approval row
  reviews,     \* status of each work_review row
  lock,        \* the attempt holding pg_advisory_lock(invocation)
  pc,          \* where each attempt stands
  kind,        \* which gateway call it runs
  target,      \* the approval or review it resolves
  session,     \* its connection: none, live, lost, or bare (reconnected, holds no lock)
  adopt,       \* adopt_claim: it found the row claimed
  entries,     \* how often it went through the front door
  reply,       \* the GatewayOutcome it returned last
  effects,     \* history: how often the executor was entered
  doubt        \* history: a dispatched executor stopped and nobody knows what it did

rowVars == <<row, dispatches>>
decisionVars == <<approvals, reviews>>
attemptVars == <<lock, pc, kind, target, session, adopt, entries, reply>>
historyVars == <<effects, doubt>>
vars == <<rowVars, decisionVars, attemptVars, historyVars>>

TypeOK ==
  /\ row \in [status: Statuses, approval: Approvals \cup {None}, review: Policies \cup {None}]
  /\ dispatches \in Nat
  /\ approvals \in [Approvals -> ApprovalStatuses]
  /\ reviews \in [Policies -> ReviewStatuses]
  /\ lock \in Attempts \cup {None}
  /\ pc \in [Attempts -> Places]
  /\ kind \in [Attempts -> Kinds]
  /\ target \in [Attempts -> Approvals \cup Policies \cup {None}]
  /\ session \in [Attempts -> {"none", "live", "lost", "bare"}]
  /\ adopt \in [Attempts -> BOOLEAN]
  /\ entries \in [Attempts -> Nat]
  /\ reply \in [Attempts -> Replies]
  /\ effects \in Nat
  /\ doubt \in BOOLEAN

Init ==
  /\ row = [status |-> "absent", approval |-> None, review |-> None]
  /\ dispatches = 0
  /\ approvals = [p \in Approvals |-> "none"]
  /\ reviews = [p \in Policies |-> "none"]
  /\ lock = None
  /\ pc = [a \in Attempts |-> "idle"]
  /\ kind = [a \in Attempts |-> "request"]
  /\ target = [a \in Attempts |-> None]
  /\ session = [a \in Attempts |-> "none"]
  /\ adopt = [a \in Attempts |-> FALSE]
  /\ entries = [a \in Attempts |-> 0]
  /\ reply = [a \in Attempts |-> "none"]
  /\ effects = 0
  /\ doubt = FALSE

-----------------------------------------------------------------------------
(* How a step leaves an attempt.                                           *)

Connected(a) == session[a] \in {"live", "bare"}
At(a, place) == pc[a] = place /\ Connected(a)

\* Wrong: leaving the lifecycle does not unlock it.
FreedNever(a) == lock

Freed(a) == IF lock = a THEN None ELSE lock

Goto(a, place) ==
  /\ pc' = [pc EXCEPT ![a] = place]
  /\ UNCHANGED <<lock, kind, target, session, adopt, entries, reply>>

Stop(a, place, r) ==
  /\ pc' = [pc EXCEPT ![a] = place]
  /\ reply' = [reply EXCEPT ![a] = r]
  /\ lock' = Freed(a)
  /\ session' = [session EXCEPT ![a] = "none"]
  /\ UNCHANGED <<kind, target, adopt, entries>>

\* _retry_while_unproven: an unproven outcome of a tool that may be run again
\* goes back through the front door, a bounded number of times.
RetriesUnproven(a, r) ==
  /\ r = "unknown"
  /\ kind[a] # "rejected"
  /\ Redispatchable
  /\ entries[a] < MaxEntries

Answer(a, r) ==
  \/ /\ RetriesUnproven(a, r)
     /\ pc' = [pc EXCEPT ![a] = "look"]
     /\ entries' = [entries EXCEPT ![a] = @ + 1]
     /\ reply' = [reply EXCEPT ![a] = r]
     /\ UNCHANGED <<lock, kind, target, session, adopt>>
  \/ /\ ~RetriesUnproven(a, r)
     /\ Stop(a, "done", r)

Raise(a) == Stop(a, "done", "error")

\* What _replayed_outcome answers for a row that is already terminal.
ReplayOf(status) == IF status = "completed" THEN "executed" ELSE status

Becomes(status) == row' = [row EXCEPT !.status = status]

-----------------------------------------------------------------------------
(* Entering and leaving the lifecycle lock.                                *)

\* The workflow, or Temporal retrying an attempt it believes dead, starts one.
\* A resolution reads its approval or review first and fails when it has none.
Start(a, k, x) ==
  /\ pc[a] = "idle"
  /\ \/ k = "request" /\ x = None
     \/ k \in {"approved", "rejected"} /\ x \in Approvals /\ approvals[x] # "none"
     \/ k = "review" /\ x \in Policies /\ reviews[x] # "none"
  /\ pc' = [pc EXCEPT ![a] = "wait"]
  /\ kind' = [kind EXCEPT ![a] = k]
  /\ target' = [target EXCEPT ![a] = x]
  /\ UNCHANGED <<rowVars, decisionVars, historyVars, lock, session, adopt, entries, reply>>

Acquire(a) ==
  /\ pc[a] = "wait"
  /\ lock = None
  /\ lock' = a
  /\ pc' = [pc EXCEPT ![a] = "look"]
  /\ session' = [session EXCEPT ![a] = "live"]
  /\ entries' = [entries EXCEPT ![a] = 1]
  /\ UNCHANGED <<rowVars, decisionVars, historyVars, kind, target, adopt, reply>>

-----------------------------------------------------------------------------
(* _reconcile_unproven_dispatch: what becomes of a dispatched row nobody    *)
(* answered for.  `onward` is where the attempt continues when the row is   *)
(* given back to it as a claim.                                            *)

\* Wrong: one dispatch more than the budget.
ReconcileOffByOne(a, onward) ==
  /\ row.status \in Unproven
  /\ Redispatchable /\ dispatches <= MaxDispatch
  /\ Becomes("claimed")
  /\ adopt' = [adopt EXCEPT ![a] = TRUE]
  /\ pc' = [pc EXCEPT ![a] = onward]
  /\ UNCHANGED <<lock, kind, target, session, entries, reply>>
  /\ UNCHANGED <<dispatches, decisionVars, historyVars>>

\* Wrong: the exhausted budget closes a call that must stay in doubt.
ReconcileExhausted(a, onward) ==
  /\ row.status \in Unproven
  /\ dispatches >= MaxDispatch
  /\ Becomes("failed")
  /\ Answer(a, "failed")
  /\ UNCHANGED <<dispatches, decisionVars, historyVars>>

Reconcile(a, onward) ==
  /\ row.status \in Unproven
  /\ \/ /\ Redispatchable /\ dispatches < MaxDispatch
        /\ Becomes("claimed")
        /\ adopt' = [adopt EXCEPT ![a] = TRUE]
        /\ pc' = [pc EXCEPT ![a] = onward]
        /\ UNCHANGED <<lock, kind, target, session, entries, reply>>
     \/ /\ Redispatchable /\ dispatches >= MaxDispatch
        /\ Becomes("failed")
        /\ Answer(a, "failed")
     \/ /\ ~Redispatchable
        /\ Becomes("execution_unknown")
        /\ Answer(a, "unknown")
  /\ UNCHANGED <<dispatches, decisionVars, historyVars>>

\* The same question asked after an attempt that already lost its footing: a
\* row given back as a claim has no caller to carry it on, so the call raises.
ReconcileAfterLoss(a) ==
  \/ Reconcile(a, "done") /\ ~(Redispatchable /\ dispatches < MaxDispatch)
  \/ /\ row.status \in Unproven
     /\ Redispatchable /\ dispatches < MaxDispatch
     /\ Becomes("claimed")
     /\ Raise(a)
     /\ UNCHANGED <<dispatches, decisionVars, historyVars>>

-----------------------------------------------------------------------------
(* request: the lookup.                                                    *)

LookupAbsent(a) ==
  /\ At(a, "look") /\ kind[a] = "request" /\ row.status = "absent"
  /\ adopt' = [adopt EXCEPT ![a] = FALSE]
  /\ \E place \in {"decide", "deny"} : pc' = [pc EXCEPT ![a] = place]
  /\ UNCHANGED <<rowVars, decisionVars, historyVars,
                 lock, kind, target, session, entries, reply>>

LookupClaimed(a) ==
  /\ At(a, "look") /\ kind[a] = "request" /\ row.status \in Undispatched
  /\ adopt' = [adopt EXCEPT ![a] = TRUE]
  /\ pc' = [pc EXCEPT ![a] = "decide"]
  /\ UNCHANGED <<rowVars, decisionVars, historyVars,
                 lock, kind, target, session, entries, reply>>

Replay(a) ==
  /\ \/ row.status \in Terminal /\ Answer(a, ReplayOf(row.status))
     \/ row.status = "pending_approval" /\ Answer(a, "needs_approval")
     \/ row.status = "pending_review" /\ Answer(a, "needs_review")
  /\ UNCHANGED <<rowVars, decisionVars, historyVars>>

LookupReplay(a) ==
  At(a, "look") /\ kind[a] = "request" /\ Replay(a)

LookupUnproven(a) ==
  At(a, "look") /\ kind[a] = "request" /\ Reconcile(a, "decide")

\* Wrong: closes a finished row too.
LookupUnvalidatedOverTerminal(a) ==
  /\ At(a, "look") /\ kind[a] = "request"
  /\ row.status \in Undispatched \cup Terminal
  /\ Becomes("denied") /\ Answer(a, "denied")
  /\ UNCHANGED <<dispatches, decisionVars, historyVars>>

\* The tool left the registry or its schema refuses the arguments: an existing
\* row is closed without a definition, or answered as somebody else's.
LookupUnvalidated(a) ==
  /\ At(a, "look") /\ kind[a] = "request" /\ row.status # "absent"
  /\ \/ row.status \in Undispatched /\ Becomes("denied") /\ Answer(a, "denied")
     \/ row.status \in Unproven /\ Redispatchable
          /\ Becomes("failed") /\ Answer(a, "failed")
     \/ row.status \in Unproven
          /\ Becomes("execution_unknown") /\ Stop(a, "done", "unknown")
     \/ row.status \notin Undispatched /\ UNCHANGED row /\ Answer(a, "mismatch")
  /\ UNCHANGED <<dispatches, decisionVars, historyVars>>

-----------------------------------------------------------------------------
(* The review gate: each required policy has exactly one review, opened    *)
(* pending or, without a reviewer to ask, skipped.                         *)

OpenReviews(required) ==
  {r \in [Policies -> ReviewStatuses] :
     \A p \in Policies : r[p] \in IF p \in required /\ reviews[p] = "none"
                                  THEN {"pending", "skipped"} ELSE {reviews[p]}}

Blocked(required, r) == \E p \in required : r[p] = "declined"
Waiting(required, r) == ~Blocked(required, r) /\ \E p \in required : r[p] = "pending"
Clear(required, r)   == \A p \in required : r[p] \in {"approved", "skipped"}

-----------------------------------------------------------------------------
(* request: the decision.                                                  *)

\* A fresh decision inserts its row; a re-entered one adopts the claim, and only
\* while the row is still a claim (_adopt_undispatched_claim).
Stages(a) == row.status = IF adopt[a] THEN "claimed" ELSE "absent"
Deciding(a) == At(a, "decide") /\ kind[a] = "request"

DenyRequest(a) ==
  /\ \/ At(a, "deny") /\ UNCHANGED reviews
     \/ Deciding(a) /\ \E required \in SUBSET Policies : reviews' \in OpenReviews(required)
  /\ Stages(a)
  /\ Becomes("denied")
  /\ Answer(a, "denied")
  /\ UNCHANGED <<dispatches, approvals, historyVars>>

ParkForReview(a) ==
  /\ Deciding(a) /\ Stages(a)
  /\ \E required \in SUBSET Policies :
       /\ reviews' \in OpenReviews(required)
       /\ Waiting(required, reviews')
       /\ \E p \in required :
            /\ reviews'[p] = "pending"
            /\ row' = [row EXCEPT !.status = "pending_review", !.review = p]
  /\ Answer(a, "needs_review")
  /\ UNCHANGED <<dispatches, approvals, historyVars>>

StageApproval(a) ==
  /\ Deciding(a) /\ Stages(a)
  /\ \E required \in SUBSET Policies :
       reviews' \in OpenReviews(required) /\ Clear(required, reviews')
  /\ \E p \in Approvals :
       /\ approvals[p] = "none"
       /\ approvals' = [approvals EXCEPT ![p] = "pending"]
       /\ row' = [row EXCEPT !.status = "pending_approval", !.approval = p]
  /\ Answer(a, "needs_approval")
  /\ UNCHANGED <<dispatches, historyVars>>

ClaimDirect(a) ==
  /\ Deciding(a) /\ Stages(a)
  /\ \E required \in SUBSET Policies :
       reviews' \in OpenReviews(required) /\ Clear(required, reviews')
  /\ Becomes("claimed")
  /\ Goto(a, "ready")
  /\ UNCHANGED <<dispatches, approvals, historyVars>>

\* The claim moved on between the lookup and the decision: the reload answers,
\* except a denial, whose insert collides with a row its input cannot match.
AdoptLost(a) ==
  /\ Deciding(a) /\ adopt[a] /\ row.status # "claimed"
  /\ \/ Replay(a)
     \/ ReconcileAfterLoss(a)
     \/ /\ row.status # "denied"
        /\ Answer(a, "mismatch")
        /\ UNCHANGED <<rowVars, decisionVars, historyVars>>

-----------------------------------------------------------------------------
(* resolve_approved, resolve_rejected and resolve_review: the load.  These   *)
(* read the pair without a row lock and later write the row they read.     *)

\* Wrong: the approval need not be decided.
LoadedUndecided(a) == row.approval = target[a] \/ row.review = target[a]

Loaded(a) ==
  CASE kind[a] = "approved" -> row.approval = target[a] /\ approvals[target[a]] = "approved"
    [] kind[a] = "rejected" -> row.approval = target[a] /\ approvals[target[a]] = "rejected"
    [] kind[a] = "review"   -> row.review = target[a]   /\ reviews[target[a]] # "pending"
    [] OTHER -> FALSE

Loading(a) == At(a, "look") /\ kind[a] # "request"

\* Wrong: so may a call whose executor was started.
ResolvableStarted(a) == Undispatched \cup Parked \cup {"executing"}

\* The statuses from which each resolution carries on to decide the call.
Resolvable(a) ==
  Undispatched \cup (IF kind[a] = "review" THEN {"pending_review"} ELSE {"pending_approval"})

LoadRefused(a) ==
  /\ Loading(a)
  /\ \/ ~Loaded(a)
     \/ row.status \notin Terminal \cup Unproven \cup Resolvable(a)
          /\ ~(kind[a] = "review" /\ row.status = "pending_approval")
  /\ Raise(a)
  /\ UNCHANGED <<rowVars, decisionVars, historyVars>>

LoadReplay(a) ==
  /\ Loading(a) /\ Loaded(a)
  /\ \/ row.status \in Terminal /\ Answer(a, ReplayOf(row.status))
     \/ kind[a] = "review" /\ row.status = "pending_approval" /\ Answer(a, "needs_approval")
  /\ UNCHANGED <<rowVars, decisionVars, historyVars>>

LoadResolvable(a) ==
  /\ Loading(a) /\ Loaded(a) /\ row.status \in Resolvable(a)
  /\ Goto(a, "decide")
  /\ UNCHANGED <<rowVars, decisionVars, historyVars>>

\* A rejected call that reached its executor is never run again.
LoadUnproven(a) ==
  /\ Loading(a) /\ Loaded(a)
  /\ \/ kind[a] # "rejected" /\ Reconcile(a, "decide")
     \/ /\ kind[a] = "rejected" /\ row.status \in Unproven
        /\ Becomes("execution_unknown")
        /\ Answer(a, "unknown")
        /\ UNCHANGED <<dispatches, decisionVars, historyVars>>

-----------------------------------------------------------------------------
(* resolve_*: the decision.  _finish_parked_call and the two assignments of  *)
(* row.status below overwrite the row whatever it has become since the load. *)

Resolving(a) == At(a, "decide") /\ kind[a] # "request"

\* A binding that no longer holds, or a live authorization that refuses.  For a
\* review the gate runs before the last of these refusals.
FinishParked(a) ==
  /\ Resolving(a)
  /\ \/ Becomes("failed") /\ Answer(a, "failed") /\ UNCHANGED reviews
     \/ /\ Becomes("denied") /\ Answer(a, "denied")
        /\ \/ UNCHANGED reviews
           \/ kind[a] = "review" /\ reviews[target[a]] = "approved"
                /\ \E required \in SUBSET Policies : reviews' \in OpenReviews(required)
  /\ UNCHANGED <<dispatches, approvals, historyVars>>

ResolveRejected(a) ==
  /\ Resolving(a) /\ kind[a] = "rejected"
  /\ Becomes("rejected")
  /\ Answer(a, "rejected")
  /\ UNCHANGED <<dispatches, decisionVars, historyVars>>

\* Another matched policy is still pending: the call waits on that review too.
RebindReview(a) ==
  /\ Resolving(a) /\ kind[a] = "review" /\ reviews[target[a]] = "approved"
  /\ \E required \in SUBSET Policies :
       /\ reviews' \in OpenReviews(required)
       /\ Waiting(required, reviews')
       /\ \E p \in required : reviews'[p] = "pending" /\ row' = [row EXCEPT !.review = p]
  /\ Answer(a, "needs_review")
  /\ UNCHANGED <<dispatches, approvals, historyVars>>

\* The reviewed call also needs a person's approval.
StageReviewed(a) ==
  /\ Resolving(a) /\ kind[a] = "review" /\ reviews[target[a]] = "approved"
  /\ \E required \in SUBSET Policies :
       reviews' \in OpenReviews(required) /\ Clear(required, reviews')
  /\ \E p \in Approvals :
       /\ approvals[p] = "none"
       /\ approvals' = [approvals EXCEPT ![p] = "pending"]
       /\ row' = [row EXCEPT !.status = "pending_approval", !.approval = p]
  /\ Answer(a, "needs_approval")
  /\ UNCHANGED <<dispatches, historyVars>>

\* _claim_parked_call and _claim_reviewed_call: a compare-and-set, then commit.
ClaimResolved(a) ==
  /\ Resolving(a)
  /\ \/ kind[a] = "approved" /\ UNCHANGED reviews
     \/ /\ kind[a] = "review" /\ reviews[target[a]] = "approved"
        /\ \E required \in SUBSET Policies :
             reviews' \in OpenReviews(required) /\ Clear(required, reviews')
  /\ row.status \in Resolvable(a)
  /\ Becomes("claimed")
  /\ Goto(a, "claimed")
  /\ UNCHANGED <<dispatches, approvals, historyVars>>

\* The compare-and-set failed: its transaction is rolled back and the row re-read.
ClaimLost(a) ==
  /\ Resolving(a) /\ kind[a] # "rejected"
  /\ row.status \notin Resolvable(a)
  /\ \/ /\ row.status \in Terminal
        /\ Answer(a, ReplayOf(row.status))
        /\ UNCHANGED <<rowVars, decisionVars, historyVars>>
     \/ Reconcile(a, "claimed")
     \/ /\ row.status \in Parked
        /\ Raise(a)
        /\ UNCHANGED <<rowVars, decisionVars, historyVars>>

\* session.refresh(row): the status read here decides whether _execute takes the
\* durable path.  Anything but `claimed` runs the executor without its fence.
Refresh(a) ==
  /\ At(a, "claimed")
  /\ Goto(a, IF row.status = "claimed" THEN "ready" ELSE "unfenced")
  /\ UNCHANGED <<rowVars, decisionVars, historyVars>>

\* resolve_approved checks the connection again, under lock, after the claim.
ConnectionChanged(a) ==
  /\ At(a, "ready") \/ At(a, "unfenced")
  /\ kind[a] = "approved"
  /\ Becomes("denied")
  /\ Answer(a, "denied")
  /\ UNCHANGED <<dispatches, decisionVars, historyVars>>

-----------------------------------------------------------------------------
(* _execute and _run_executor.                                             *)

ExecuteClaim(a) ==
  /\ At(a, "ready")
  /\ IF row.status = "claimed" THEN Goto(a, "dispatch") ELSE Raise(a)
  /\ UNCHANGED <<rowVars, decisionVars, historyVars>>

\* _mark_dispatched commits on a connection of its own, so an attempt whose
\* session is gone still reaches it.
MarkDispatched(a) ==
  /\ pc[a] = "dispatch" /\ row.status = "claimed"
  /\ Becomes("executing")
  /\ dispatches' = dispatches + 1
  /\ Goto(a, "enter")
  /\ UNCHANGED <<decisionVars, historyVars>>

DispatchLost(a) ==
  /\ pc[a] = "dispatch" /\ row.status # "claimed"
  /\ Goto(a, "unsure")
  /\ UNCHANGED <<rowVars, decisionVars, historyVars>>

EnterExecutor(a) ==
  /\ \/ At(a, "enter") /\ Goto(a, "run")
     \/ At(a, "unfenced") /\ Goto(a, "run_unfenced")
  /\ effects' = effects + 1
  /\ UNCHANGED <<rowVars, decisionVars, doubt>>

Running(a) == pc[a] \in {"run", "run_unfenced"}

\* Wrong: a failed call is given back, whatever its budget.
FinishRetryable(a) ==
  /\ Running(a) /\ Connected(a)
  /\ Becomes("claimed") /\ Answer(a, "failed")
  /\ UNCHANGED <<dispatches, decisionVars, historyVars>>

\* The executor returned, or failed before any external effect.
Finish(a) ==
  /\ Running(a) /\ Connected(a)
  /\ \/ Becomes("completed") /\ Answer(a, "executed")
     \/ Becomes("failed") /\ Answer(a, "failed")
  /\ UNCHANGED <<dispatches, decisionVars, historyVars>>

\* The outcome cannot be written: the session died while the executor ran.
FinishUnwritten(a) ==
  /\ Running(a) /\ ~Connected(a)
  /\ doubt' = (doubt \/ pc[a] = "run")
  /\ Raise(a)
  /\ UNCHANGED <<rowVars, decisionVars, effects>>

\* The executor raised after an effect it may have had.  Only the durable path
\* records uncertainty; its rollback may bring the session back on a connection
\* that no longer holds the lock.
Unclear(a) ==
  /\ pc[a] = "run"
  /\ doubt' = TRUE
  /\ pc' = [pc EXCEPT ![a] = "unsure"]
  /\ session' = [session EXCEPT ![a] = IF @ = "lost" THEN "bare" ELSE @]
  /\ UNCHANGED <<rowVars, decisionVars, effects, lock, kind, target, adopt, entries, reply>>

UnclearUnfenced(a) ==
  /\ At(a, "run_unfenced")
  /\ Becomes("failed")
  /\ Answer(a, "failed")
  /\ UNCHANGED <<dispatches, decisionVars, historyVars>>

\* The activity is cancelled while its executor runs: uncertainty is recorded on
\* the durable path, and the cancellation propagates.
Cancel(a) ==
  /\ Running(a) /\ Connected(a)
  /\ doubt' = (doubt \/ pc[a] = "run")
  /\ IF pc[a] = "run" THEN Goto(a, "cancelled") ELSE Raise(a)
  /\ UNCHANGED <<rowVars, decisionVars, effects>>

\* _persist_execution_unknown, under the row lock.
PersistUnknown(a) ==
  /\ At(a, "unsure") \/ At(a, "cancelled")
  /\ IF row.status = "executing" THEN Becomes("execution_unknown") ELSE UNCHANGED row
  /\ IF pc[a] = "cancelled" \/ row.status \notin Terminal \cup Unproven
     THEN Raise(a)
     ELSE Answer(a, IF row.status \in Terminal THEN ReplayOf(row.status) ELSE "unknown")
  /\ UNCHANGED <<dispatches, decisionVars, historyVars>>

-----------------------------------------------------------------------------
(* People and the environment.                                             *)

\* approvals.service.decide locks the row and decides a pending approval once.
DecideApproval(p) ==
  /\ approvals[p] = "pending"
  /\ \E decision \in {"approved", "rejected"} :
       approvals' = [approvals EXCEPT ![p] = decision]
  /\ UNCHANGED <<rowVars, reviews, attemptVars, historyVars>>

\* reviews.decide_review checks `pending` on a row it read without a lock, so a
\* second decider that read it in time overwrites the first one's decision.
DecideReview(p) ==
  /\ reviews[p] \in {"pending", "approved", "declined"}
  /\ \E decision \in {"approved", "declined"} :
       reviews' = [reviews EXCEPT ![p] = decision]
  /\ UNCHANGED <<rowVars, approvals, attemptVars, historyVars>>

\* The connection dies under a living attempt; PostgreSQL frees its lock.
LoseSession(a) ==
  /\ SessionsFail
  /\ pc[a] \in Inside /\ Connected(a)
  /\ session' = [session EXCEPT ![a] = "lost"]
  /\ lock' = Freed(a)
  /\ UNCHANGED <<rowVars, decisionVars, historyVars, pc, kind, target, adopt, entries, reply>>

\* The next statement on a dead session raises.
SessionError(a) ==
  /\ pc[a] \in Inside \ {"dispatch", "run", "run_unfenced"}
  /\ session[a] = "lost"
  /\ Raise(a)
  /\ UNCHANGED <<rowVars, decisionVars, historyVars>>

\* close_claimed_tool_calls: before an older image starts, every claim is closed
\* as a failure, on a connection of its own and outside every lifecycle lock.
CloseClaimed ==
  /\ RollbackRuns
  /\ row.status = "claimed"
  /\ Becomes("failed")
  /\ UNCHANGED <<dispatches, decisionVars, attemptVars, historyVars>>

\* The worker process dies.
Crash(a) ==
  /\ pc[a] \in Inside \cup {"wait"}
  /\ doubt' = (doubt \/ pc[a] = "run")
  /\ Stop(a, "dead", "none")
  /\ UNCHANGED <<rowVars, decisionVars, effects>>

-----------------------------------------------------------------------------

Lookup(a) ==
  \/ LookupAbsent(a) \/ LookupClaimed(a) \/ LookupReplay(a)
  \/ LookupUnproven(a) \/ LookupUnvalidated(a)

Decide(a) ==
  \/ DenyRequest(a) \/ ParkForReview(a) \/ StageApproval(a) \/ ClaimDirect(a) \/ AdoptLost(a)

Load(a) ==
  LoadRefused(a) \/ LoadReplay(a) \/ LoadResolvable(a) \/ LoadUnproven(a)

Resolve(a) ==
  \/ FinishParked(a) \/ ResolveRejected(a) \/ RebindReview(a) \/ StageReviewed(a)
  \/ ClaimResolved(a) \/ ClaimLost(a) \/ Refresh(a) \/ ConnectionChanged(a)

Execute(a) ==
  \/ ExecuteClaim(a) \/ MarkDispatched(a) \/ DispatchLost(a) \/ EnterExecutor(a)
  \/ Finish(a) \/ FinishUnwritten(a) \/ Unclear(a) \/ UnclearUnfenced(a)
  \/ PersistUnknown(a) \/ SessionError(a)

\* What an attempt does by itself once started.
Proceed(a) == Acquire(a) \/ Lookup(a) \/ Decide(a) \/ Load(a) \/ Resolve(a) \/ Execute(a)

Next ==
  \/ \E a \in Attempts :
       \/ \E k \in Kinds, x \in Approvals \cup Policies \cup {None} : Start(a, k, x)
       \/ Proceed(a) \/ Cancel(a) \/ LoseSession(a) \/ Crash(a)
  \/ \E p \in Approvals : DecideApproval(p)
  \/ \E p \in Policies : DecideReview(p)
  \/ CloseClaimed

Spec == Init /\ [][Next]_vars

-----------------------------------------------------------------------------
(* Properties.                                                             *)

\* An executor whose effect cannot be repeated is entered at most once, however
\* many attempts race, die, are cancelled or lose their connection: the dispatch
\* compare-and-set (_mark_dispatched) and the session tied to the lock.
AtMostOnce == ~Redispatchable => effects <= 1

\* No executor runs that the dispatch fence did not record first (_run_executor).
EveryEntryIsDispatched == effects <= dispatches

\* MAX_DISPATCH_ATTEMPTS bounds how often one invocation may ever be dispatched,
\* across retries, crashes and resolutions; a claim always has budget left.
DispatchBudget ==
  /\ dispatches <= MaxDispatch
  /\ row.status = "claimed" => dispatches < MaxDispatch

\* A refusal is the whole truth: a denied or rejected call had no effect
\* (_persist_denial, _finish_parked_call, _resolve_rejected_once).
RefusedNeverRan ==
  ~Redispatchable /\ row.status \in {"denied", "rejected"} => effects = 0

\* A call that waited on a person is claimed or run only under an approved
\* approval, even when a request re-enters the claim (_claim_parked_call).
ApprovedBeforeRun ==
  row.status \in {"claimed", "executing"} =>
    row.approval = None \/ approvals[row.approval] = "approved"

\* What may have happened is never recorded as not having happened: once an
\* executor stopped without an answer the row says so (_persist_execution_unknown).
DoubtIsKept == doubt /\ ~Redispatchable => row.status \in Unproven

\* Everything the gateway told its caller stays true of the row (_bound_result
\* puts it in the transcript): outcomes, refusals, and unprovable endings.
AnswerIsDurable ==
  \A a \in Attempts :
    /\ reply[a] = "executed" => row.status = "completed"
    /\ reply[a] \in {"failed", "denied", "rejected"} => row.status = reply[a]
    /\ reply[a] = "unknown" /\ ~Redispatchable => row.status = "execution_unknown"

\* Nothing keeps an attempt from ending: the lock is always freed and the retry
\* loop is bounded (_invocation_lifecycle_lock, _retry_while_unproven).
EveryAttemptEnds == \A a \in Attempts : pc[a] = "wait" ~> pc[a] \in {"done", "dead"}

\* Why AtMostOnce holds, for a tool whose effect cannot be repeated.
Live(a) == session[a] = "live"

\* Only the lock's holder can write the row unconditionally.
LiveHoldsLock == \A a \in Attempts : Live(a) => lock = a /\ pc[a] \in Inside

\* A reconnected session belongs to an attempt whose executor has stopped.
BareHasRun == \A a \in Attempts : session[a] = "bare" => pc[a] = "unsure" /\ effects >= 1

RunningHasRun == \A a \in Attempts : Running(a) => effects >= 1

\* Between its claim and its executor, the holder's row is moved only by a
\* detached attempt's fence or by the rollback command.
ClaimIsHeld ==
  \A a \in Attempts : Live(a) =>
    /\ pc[a] = "enter"    => row.status = "executing"
    /\ pc[a] = "claimed"  => row.status \in {"claimed", "executing", "failed"}
    /\ pc[a] = "unfenced" => row.status \in {"executing", "failed"}

\* Once the executor was entered, the row never again looks like a call to run,
\* and the holder of the lock is not on its way to run it.
EnteredOnce ==
  effects >= 1 =>
    /\ effects = 1
    /\ row.status \in Unproven \cup {"completed", "failed"}
    /\ \A a \in Attempts : Live(a) =>
         pc[a] \in {"look", "run", "run_unfenced", "unsure", "cancelled"}

OnceInv ==
  ~Redispatchable =>
    LiveHoldsLock /\ BareHasRun /\ RunningHasRun /\ ClaimIsHeld /\ EnteredOnce

\* The abstract promise this mechanism keeps, as long as nothing outside the
\* lifecycle lock writes the row (_run_executor, _reconcile_unproven_dispatch).
Effect == INSTANCE ToolEffect WITH
  Repeatable <- Redispatchable,
  Limit      <- MaxDispatch,
  phase      <- CASE row.status = "executing"         -> "running"
                  [] row.status = "execution_unknown" -> "unproven"
                  [] row.status \in Terminal          -> row.status
                  [] OTHER                            -> "open",
  runs       <- dispatches,
  entered    <- effects

KeepsPromise == Effect!EffectSpec

\* Each attempt keeps running unless something stops it: a statement returns, an
\* executor is bounded by its timeout, and PostgreSQL grants a free lock.
FairSpec == Spec /\ \A a \in Attempts : WF_vars(Proceed(a))

=============================================================================
