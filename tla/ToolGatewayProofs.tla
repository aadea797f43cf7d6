------------------------- MODULE ToolGatewayProofs --------------------------
(***************************************************************************)
(* What ToolGateway promises, for every number of attempts, approvals and  *)
(* policies: types; an executor whose effect cannot be repeated is entered *)
(* at most once, even when sessions are lost, workers die and the rollback *)
(* command races them; and what the gateway may be relied on for beyond    *)
(* that: a call runs under its approval, what it answered stays true of    *)
(* the row, doubt is kept, the dispatch budget holds, and the mechanism    *)
(* implements ToolEffect.                                                  *)
(*                                                                         *)
(* A repeatable tool whose attempt reconnects goes round the retry loop    *)
(* without the lifecycle lock.  The theorems on approvals and answers      *)
(* exclude that case (Exclusive); TLC refutes them there.                  *)
(***************************************************************************)
EXTENDS ToolGateway, TLAPS

USE GatewayAssumption

-----------------------------------------------------------------------------
(* Types.                                                                  *)

\* How each way of leaving a step keeps the types of an attempt's variables.
AttemptTypes ==
  /\ lock \in Attempts \cup {None}
  /\ pc \in [Attempts -> Places]
  /\ kind \in [Attempts -> Kinds]
  /\ target \in [Attempts -> Approvals \cup Policies \cup {None}]
  /\ session \in [Attempts -> {"none", "live", "lost", "bare"}]
  /\ adopt \in [Attempts -> BOOLEAN]
  /\ entries \in [Attempts -> Nat]
  /\ reply \in [Attempts -> Replies]

\* Moving an attempt to another place keeps the types (_request_once).
LEMMA GotoTypes ==
  ASSUME NEW a \in Attempts, NEW place \in Places, AttemptTypes, Goto(a, place)
  PROVE  AttemptTypes'
  BY DEF AttemptTypes, Goto

\* Ending an attempt keeps the types (_invocation_lifecycle_lock).
LEMMA StopTypes ==
  ASSUME NEW a \in Attempts, NEW place \in Places, NEW r \in Replies,
         AttemptTypes, Stop(a, place, r)
  PROVE  AttemptTypes'
  BY DEF AttemptTypes, Stop, Freed

\* Answering keeps the types, whether or not the attempt goes round again
\* (_retry_while_unproven).
LEMMA AnswerTypes ==
  ASSUME NEW a \in Attempts, NEW r \in Replies, AttemptTypes, Answer(a, r)
  PROVE  AttemptTypes'
<1>1. CASE RetriesUnproven(a, r)
  BY <1>1 DEF AttemptTypes, Answer, Places, Inside
<1>2. CASE ~RetriesUnproven(a, r)
  <2>1. Stop(a, "done", r)
    BY <1>2 DEF Answer
  <2>2. "done" \in Places
    BY DEF Places, Idle
  <2> QED BY <2>1, <2>2, StopTypes
<1> QED BY <1>1, <1>2

RowType == [status: Statuses, approval: Approvals \cup {None}, review: Policies \cup {None}]

\* Assigning a status keeps the row's type.
LEMMA BecomesType ==
  ASSUME row \in RowType, NEW s \in Statuses, Becomes(s)
  PROVE  row' \in RowType
  BY DEF RowType, Becomes

\* Everything but the attempts' own variables.
WorldTypes ==
  /\ row \in RowType
  /\ dispatches \in Nat
  /\ approvals \in [Approvals -> ApprovalStatuses]
  /\ reviews \in [Policies -> ReviewStatuses]
  /\ effects \in Nat
  /\ doubt \in BOOLEAN

\* The two halves are the type invariant.
LEMMA TypeSplit ==
  /\ TypeOK => WorldTypes /\ AttemptTypes
  /\ WorldTypes' /\ AttemptTypes' => TypeOK'
  BY DEF TypeOK, WorldTypes, AttemptTypes, RowType

-----------------------------------------------------------------------------
\* A reconciled dispatch keeps the types (_reconcile_unproven_dispatch).
LEMMA ReconcileTypes ==
  ASSUME NEW a \in Attempts, NEW onward \in Places, TypeOK, Reconcile(a, onward)
  PROVE  TypeOK'
<1>1. WorldTypes /\ AttemptTypes
  BY TypeSplit
<1>2. row' \in RowType
  BY <1>1, BecomesType
  DEF Reconcile, WorldTypes, Statuses, Terminal, Undispatched, Unproven
<1>3. WorldTypes'
  BY <1>1, <1>2 DEF Reconcile, WorldTypes, decisionVars, historyVars
<1>4. AttemptTypes'
  <2>1. CASE Answer(a, "failed") \/ Answer(a, "unknown")
    BY <1>1, <2>1, AnswerTypes DEF Replies
  <2>2. CASE /\ adopt' = [adopt EXCEPT ![a] = TRUE]
             /\ pc' = [pc EXCEPT ![a] = onward]
             /\ UNCHANGED <<lock, kind, target, session, entries, reply>>
    BY <1>1, <2>2 DEF AttemptTypes
  <2> QED BY <2>1, <2>2 DEF Reconcile
<1> QED BY <1>3, <1>4, TypeSplit

\* An answer copied from a terminal row is a reply (_replayed_outcome).
LEMMA ReplayType ==
  ASSUME NEW s \in Terminal
  PROVE  ReplayOf(s) \in Replies
  BY DEF ReplayOf, Terminal, Replies

\* A replay of a finished or parked row keeps the types.
LEMMA ReplayTypes ==
  ASSUME NEW a \in Attempts, AttemptTypes, Replay(a)
  PROVE  AttemptTypes'
<1>1. CASE row.status \in Terminal /\ Answer(a, ReplayOf(row.status))
  BY <1>1, ReplayType, AnswerTypes
<1>2. CASE Answer(a, "needs_approval") \/ Answer(a, "needs_review")
  BY <1>2, AnswerTypes DEF Replies
<1> QED BY <1>1, <1>2 DEF Replay

\* Opening the reviews a call requires keeps their types (open_review).
LEMMA OpenReviewsType ==
  ASSUME NEW required, NEW r \in OpenReviews(required)
  PROVE  r \in [Policies -> ReviewStatuses]
  BY DEF OpenReviews

-----------------------------------------------------------------------------
\* Every transaction of request, up to the claim, keeps the types.
LEMMA LookupTypes ==
  ASSUME NEW a \in Attempts, TypeOK, Lookup(a)
  PROVE  TypeOK'
<1>0. WorldTypes /\ AttemptTypes
  BY TypeSplit
<1>1. CASE LookupAbsent(a)
  BY <1>1 DEF LookupAbsent, TypeOK, Places, Inside, rowVars, decisionVars, historyVars
<1>2. CASE LookupClaimed(a)
  BY <1>2 DEF LookupClaimed, TypeOK, Places, Inside, rowVars, decisionVars, historyVars
<1>3. CASE LookupReplay(a)
  <2>1. AttemptTypes'
    BY <1>0, <1>3, ReplayTypes DEF LookupReplay
  <2>2. WorldTypes'
    BY <1>0, <1>3 DEF LookupReplay, Replay, WorldTypes, rowVars, decisionVars, historyVars
  <2> QED BY <2>1, <2>2, TypeSplit
<1>4. CASE LookupUnproven(a)
  BY <1>4, ReconcileTypes DEF LookupUnproven, Places, Inside
<1>5. CASE LookupUnvalidated(a)
  <2>1. AttemptTypes'
    <3>1. CASE \E r \in {"denied", "failed", "mismatch"} : Answer(a, r)
      BY <1>0, <3>1, AnswerTypes DEF Replies
    <3>2. CASE Stop(a, "done", "unknown")
      BY <1>0, <3>2, StopTypes DEF Replies, Places, Idle
    <3> QED BY <1>5, <3>1, <3>2 DEF LookupUnvalidated
  <2>2. row' \in RowType
    BY <1>0, <1>5, BecomesType DEF LookupUnvalidated, WorldTypes, Statuses, Terminal, Unproven
  <2>3. WorldTypes'
    BY <1>0, <1>5, <2>2 DEF LookupUnvalidated, WorldTypes, decisionVars, historyVars
  <2> QED BY <2>1, <2>3, TypeSplit
<1> QED BY <1>1, <1>2, <1>3, <1>4, <1>5 DEF Lookup

\* A reload after a lost claim keeps the types.
LEMMA ReconcileAfterLossTypes ==
  ASSUME NEW a \in Attempts, TypeOK, ReconcileAfterLoss(a)
  PROVE  TypeOK'
<1>0. WorldTypes /\ AttemptTypes
  BY TypeSplit
<1>1. CASE Reconcile(a, "done")
  BY <1>1, ReconcileTypes DEF Places, Idle
<1>2. CASE /\ Becomes("claimed") /\ Raise(a)
           /\ UNCHANGED <<dispatches, decisionVars, historyVars>>
  <2>1. AttemptTypes'
    BY <1>0, <1>2, StopTypes DEF Raise, Replies, Places, Idle
  <2>2. row' \in RowType
    BY <1>0, <1>2, BecomesType DEF WorldTypes, Statuses, Undispatched
  <2>3. WorldTypes'
    BY <1>0, <1>2, <2>2 DEF WorldTypes, decisionVars, historyVars
  <2> QED BY <2>1, <2>3, TypeSplit
<1> QED BY <1>1, <1>2 DEF ReconcileAfterLoss

\* Every decision of request keeps the types.
LEMMA DecideTypes ==
  ASSUME NEW a \in Attempts, TypeOK, Decide(a)
  PROVE  TypeOK'
<1>0. WorldTypes /\ AttemptTypes
  BY TypeSplit
<1>1. CASE DenyRequest(a)
  <2>1. AttemptTypes'
    BY <1>0, <1>1, AnswerTypes DEF DenyRequest, Replies
  <2>2. row' \in RowType
    BY <1>0, <1>1, BecomesType DEF DenyRequest, WorldTypes, Statuses, Terminal
  <2>3. reviews' \in [Policies -> ReviewStatuses]
    BY <1>0, <1>1, OpenReviewsType DEF DenyRequest, WorldTypes
  <2>4. WorldTypes'
    BY <1>0, <1>1, <2>2, <2>3 DEF DenyRequest, WorldTypes, historyVars
  <2> QED BY <2>1, <2>4, TypeSplit
<1>2. CASE ParkForReview(a)
  <2>1. AttemptTypes'
    BY <1>0, <1>2, AnswerTypes DEF ParkForReview, Replies
  <2>2. reviews' \in [Policies -> ReviewStatuses]
    BY <1>2, OpenReviewsType DEF ParkForReview
  <2>3. row' \in RowType
    BY <1>0, <1>2 DEF ParkForReview, WorldTypes, RowType, Statuses, Parked
  <2>4. WorldTypes'
    BY <1>0, <1>2, <2>2, <2>3 DEF ParkForReview, WorldTypes, historyVars
  <2> QED BY <2>1, <2>4, TypeSplit
<1>3. CASE StageApproval(a)
  <2>1. AttemptTypes'
    BY <1>0, <1>3, AnswerTypes DEF StageApproval, Replies
  <2>2. reviews' \in [Policies -> ReviewStatuses]
    BY <1>3, OpenReviewsType DEF StageApproval
  <2>3. row' \in RowType /\ approvals' \in [Approvals -> ApprovalStatuses]
    BY <1>0, <1>3 DEF StageApproval, WorldTypes, RowType, Statuses, Parked, ApprovalStatuses
  <2>4. WorldTypes'
    BY <1>0, <1>3, <2>2, <2>3 DEF StageApproval, WorldTypes, historyVars
  <2> QED BY <2>1, <2>4, TypeSplit
<1>4. CASE ClaimDirect(a)
  <2>1. AttemptTypes'
    BY <1>0, <1>4, GotoTypes DEF ClaimDirect, Places, Inside
  <2>2. row' \in RowType
    BY <1>0, <1>4, BecomesType DEF ClaimDirect, WorldTypes, Statuses, Undispatched
  <2>3. reviews' \in [Policies -> ReviewStatuses]
    BY <1>4, OpenReviewsType DEF ClaimDirect
  <2>4. WorldTypes'
    BY <1>0, <1>4, <2>2, <2>3 DEF ClaimDirect, WorldTypes, historyVars
  <2> QED BY <2>1, <2>4, TypeSplit
<1>5. CASE AdoptLost(a)
  <2>1. CASE ReconcileAfterLoss(a)
    BY <2>1, ReconcileAfterLossTypes
  <2>2. CASE Replay(a)
    <3>1. AttemptTypes'
      BY <1>0, <2>2, ReplayTypes
    <3>2. WorldTypes'
      BY <1>0, <2>2 DEF Replay, WorldTypes, rowVars, decisionVars, historyVars
    <3> QED BY <3>1, <3>2, TypeSplit
  <2>3. CASE Answer(a, "mismatch") /\ UNCHANGED <<rowVars, decisionVars, historyVars>>
    <3>1. AttemptTypes'
      BY <1>0, <2>3, AnswerTypes DEF Replies
    <3>2. WorldTypes'
      BY <1>0, <2>3 DEF WorldTypes, rowVars, decisionVars, historyVars
    <3> QED BY <3>1, <3>2, TypeSplit
  <2> QED BY <1>5, <2>1, <2>2, <2>3 DEF AdoptLost
<1> QED BY <1>1, <1>2, <1>3, <1>4, <1>5 DEF Decide

\* Every load of a resolution keeps the types.
LEMMA LoadTypes ==
  ASSUME NEW a \in Attempts, TypeOK, Load(a)
  PROVE  TypeOK'
<1>0. WorldTypes /\ AttemptTypes
  BY TypeSplit
<1>1. CASE LoadRefused(a)
  <2>1. AttemptTypes'
    BY <1>0, <1>1, StopTypes DEF LoadRefused, Raise, Replies, Places, Idle
  <2>2. WorldTypes'
    BY <1>0, <1>1 DEF LoadRefused, WorldTypes, rowVars, decisionVars, historyVars
  <2> QED BY <2>1, <2>2, TypeSplit
<1>2. CASE LoadReplay(a)
  <2>1. AttemptTypes'
    <3>1. CASE row.status \in Terminal /\ Answer(a, ReplayOf(row.status))
      BY <1>0, <3>1, ReplayType, AnswerTypes
    <3>2. CASE Answer(a, "needs_approval")
      BY <1>0, <3>2, AnswerTypes DEF Replies
    <3> QED BY <1>2, <3>1, <3>2 DEF LoadReplay
  <2>2. WorldTypes'
    BY <1>0, <1>2 DEF LoadReplay, WorldTypes, rowVars, decisionVars, historyVars
  <2> QED BY <2>1, <2>2, TypeSplit
<1>3. CASE LoadResolvable(a)
  <2>1. AttemptTypes'
    BY <1>0, <1>3, GotoTypes DEF LoadResolvable, Places, Inside
  <2>2. WorldTypes'
    BY <1>0, <1>3 DEF LoadResolvable, WorldTypes, rowVars, decisionVars, historyVars
  <2> QED BY <2>1, <2>2, TypeSplit
<1>4. CASE LoadUnproven(a)
  <2>1. CASE Reconcile(a, "decide")
    BY <2>1, ReconcileTypes DEF Places, Inside
  <2>2. CASE /\ Becomes("execution_unknown") /\ Answer(a, "unknown")
             /\ UNCHANGED <<dispatches, decisionVars, historyVars>>
    <3>1. AttemptTypes'
      BY <1>0, <2>2, AnswerTypes DEF Replies
    <3>2. row' \in RowType
      BY <1>0, <2>2, BecomesType DEF WorldTypes, Statuses, Unproven
    <3>3. WorldTypes'
      BY <1>0, <2>2, <3>2 DEF WorldTypes, decisionVars, historyVars
    <3> QED BY <3>1, <3>3, TypeSplit
  <2> QED BY <1>4, <2>1, <2>2 DEF LoadUnproven
<1> QED BY <1>1, <1>2, <1>3, <1>4 DEF Load

\* Every decision of a resolution keeps the types.
LEMMA ResolveTypes ==
  ASSUME NEW a \in Attempts, TypeOK, Resolve(a)
  PROVE  TypeOK'
<1>0. WorldTypes /\ AttemptTypes
  BY TypeSplit
<1>1. CASE FinishParked(a)
  <2>1. AttemptTypes'
    BY <1>0, <1>1, AnswerTypes DEF FinishParked, Replies
  <2>2. row' \in RowType
    BY <1>0, <1>1, BecomesType DEF FinishParked, WorldTypes, Statuses, Terminal
  <2>3. reviews' \in [Policies -> ReviewStatuses]
    BY <1>0, <1>1, OpenReviewsType DEF FinishParked, WorldTypes
  <2>4. WorldTypes'
    BY <1>0, <1>1, <2>2, <2>3 DEF FinishParked, WorldTypes, historyVars
  <2> QED BY <2>1, <2>4, TypeSplit
<1>2. CASE ResolveRejected(a)
  <2>1. AttemptTypes'
    BY <1>0, <1>2, AnswerTypes DEF ResolveRejected, Replies
  <2>2. row' \in RowType
    BY <1>0, <1>2, BecomesType DEF ResolveRejected, WorldTypes, Statuses, Terminal
  <2>3. WorldTypes'
    BY <1>0, <1>2, <2>2 DEF ResolveRejected, WorldTypes, decisionVars, historyVars
  <2> QED BY <2>1, <2>3, TypeSplit
<1>3. CASE RebindReview(a)
  <2>1. AttemptTypes'
    BY <1>0, <1>3, AnswerTypes DEF RebindReview, Replies
  <2>2. row' \in RowType /\ reviews' \in [Policies -> ReviewStatuses]
    BY <1>0, <1>3, OpenReviewsType DEF RebindReview, WorldTypes, RowType
  <2>3. WorldTypes'
    BY <1>0, <1>3, <2>2 DEF RebindReview, WorldTypes, historyVars
  <2> QED BY <2>1, <2>3, TypeSplit
<1>4. CASE StageReviewed(a)
  <2>1. AttemptTypes'
    BY <1>0, <1>4, AnswerTypes DEF StageReviewed, Replies
  <2>2. reviews' \in [Policies -> ReviewStatuses]
    BY <1>4, OpenReviewsType DEF StageReviewed
  <2>3. row' \in RowType /\ approvals' \in [Approvals -> ApprovalStatuses]
    BY <1>0, <1>4 DEF StageReviewed, WorldTypes, RowType, Statuses, Parked, ApprovalStatuses
  <2>4. WorldTypes'
    BY <1>0, <1>4, <2>2, <2>3 DEF StageReviewed, WorldTypes, historyVars
  <2> QED BY <2>1, <2>4, TypeSplit
<1>5. CASE ClaimResolved(a)
  <2>1. AttemptTypes'
    BY <1>0, <1>5, GotoTypes DEF ClaimResolved, Places, Inside
  <2>2. row' \in RowType
    BY <1>0, <1>5, BecomesType DEF ClaimResolved, WorldTypes, Statuses, Undispatched
  <2>3. reviews' \in [Policies -> ReviewStatuses]
    BY <1>0, <1>5, OpenReviewsType DEF ClaimResolved, WorldTypes
  <2>4. WorldTypes'
    BY <1>0, <1>5, <2>2, <2>3 DEF ClaimResolved, WorldTypes, historyVars
  <2> QED BY <2>1, <2>4, TypeSplit
<1>6. CASE ClaimLost(a)
  <2>1. CASE Reconcile(a, "claimed")
    BY <2>1, ReconcileTypes DEF Places, Inside
  <2>2. CASE /\ \/ row.status \in Terminal /\ Answer(a, ReplayOf(row.status))
                \/ Raise(a)
             /\ UNCHANGED <<rowVars, decisionVars, historyVars>>
    <3>1. AttemptTypes'
      <4>1. CASE row.status \in Terminal /\ Answer(a, ReplayOf(row.status))
        BY <1>0, <4>1, ReplayType, AnswerTypes
      <4>2. CASE Raise(a)
        BY <1>0, <4>2, StopTypes DEF Raise, Replies, Places, Idle
      <4> QED BY <2>2, <4>1, <4>2
    <3>2. WorldTypes'
      BY <1>0, <2>2 DEF WorldTypes, rowVars, decisionVars, historyVars
    <3> QED BY <3>1, <3>2, TypeSplit
  <2> QED BY <1>6, <2>1, <2>2 DEF ClaimLost
<1>7. CASE Refresh(a)
  <2>1. AttemptTypes'
    BY <1>0, <1>7, GotoTypes DEF Refresh, Places, Inside
  <2>2. WorldTypes'
    BY <1>0, <1>7 DEF Refresh, WorldTypes, rowVars, decisionVars, historyVars
  <2> QED BY <2>1, <2>2, TypeSplit
<1>8. CASE ConnectionChanged(a)
  <2>1. AttemptTypes'
    BY <1>0, <1>8, AnswerTypes DEF ConnectionChanged, Replies
  <2>2. row' \in RowType
    BY <1>0, <1>8, BecomesType DEF ConnectionChanged, WorldTypes, Statuses, Terminal
  <2>3. WorldTypes'
    BY <1>0, <1>8, <2>2 DEF ConnectionChanged, WorldTypes, decisionVars, historyVars
  <2> QED BY <2>1, <2>3, TypeSplit
<1> QED BY <1>1, <1>2, <1>3, <1>4, <1>5, <1>6, <1>7, <1>8 DEF Resolve

\* Every step of an execution keeps the types.
LEMMA ExecuteTypes ==
  ASSUME NEW a \in Attempts, TypeOK, Execute(a)
  PROVE  TypeOK'
<1>0. WorldTypes /\ AttemptTypes
  BY TypeSplit
<1>1. CASE ExecuteClaim(a) \/ DispatchLost(a)
  <2>1. AttemptTypes'
    BY <1>0, <1>1, GotoTypes, StopTypes
    DEF ExecuteClaim, DispatchLost, Raise, Replies, Places, Idle, Inside
  <2>2. WorldTypes'
    BY <1>0, <1>1
    DEF ExecuteClaim, DispatchLost, WorldTypes, rowVars, decisionVars, historyVars
  <2> QED BY <2>1, <2>2, TypeSplit
<1>2. CASE MarkDispatched(a)
  <2>1. AttemptTypes'
    BY <1>0, <1>2, GotoTypes DEF MarkDispatched, Places, Inside
  <2>2. row' \in RowType
    BY <1>0, <1>2, BecomesType DEF MarkDispatched, WorldTypes, Statuses, Unproven
  <2>3. WorldTypes'
    BY <1>0, <1>2, <2>2 DEF MarkDispatched, WorldTypes, decisionVars, historyVars
  <2> QED BY <2>1, <2>3, TypeSplit
<1>3. CASE EnterExecutor(a)
  <2>1. AttemptTypes'
    BY <1>0, <1>3, GotoTypes DEF EnterExecutor, Places, Inside
  <2>2. WorldTypes'
    BY <1>0, <1>3 DEF EnterExecutor, WorldTypes, rowVars, decisionVars
  <2> QED BY <2>1, <2>2, TypeSplit
<1>4. CASE Finish(a) \/ UnclearUnfenced(a)
  <2>1. AttemptTypes'
    BY <1>0, <1>4, AnswerTypes DEF Finish, UnclearUnfenced, Replies
  <2>2. row' \in RowType
    BY <1>0, <1>4, BecomesType DEF Finish, UnclearUnfenced, WorldTypes, Statuses, Terminal
  <2>3. WorldTypes'
    BY <1>0, <1>4, <2>2 DEF Finish, UnclearUnfenced, WorldTypes, decisionVars, historyVars
  <2> QED BY <2>1, <2>3, TypeSplit
<1>5. CASE FinishUnwritten(a) \/ SessionError(a)
  <2>1. AttemptTypes'
    BY <1>0, <1>5, StopTypes
    DEF FinishUnwritten, SessionError, Raise, Replies, Places, Idle
  <2>2. WorldTypes'
    BY <1>0, <1>5
    DEF FinishUnwritten, SessionError, WorldTypes, rowVars, decisionVars, historyVars
  <2> QED BY <2>1, <2>2, TypeSplit
<1>6. CASE Unclear(a)
  <2>1. AttemptTypes'
    BY <1>0, <1>6 DEF Unclear, AttemptTypes, Places, Inside
  <2>2. WorldTypes'
    BY <1>0, <1>6 DEF Unclear, WorldTypes, rowVars, decisionVars
  <2> QED BY <2>1, <2>2, TypeSplit
<1>7. CASE PersistUnknown(a)
  <2>1. AttemptTypes'
    <3>1. CASE Raise(a)
      BY <1>0, <3>1, StopTypes DEF Raise, Replies, Places, Idle
    <3>2. CASE Answer(a, IF row.status \in Terminal THEN ReplayOf(row.status) ELSE "unknown")
      BY <1>0, <3>2, ReplayType, AnswerTypes DEF Replies
    <3> QED BY <1>7, <3>1, <3>2 DEF PersistUnknown
  <2>2. row' \in RowType
    BY <1>0, <1>7, BecomesType DEF PersistUnknown, WorldTypes, Statuses, Unproven
  <2>3. WorldTypes'
    BY <1>0, <1>7, <2>2 DEF PersistUnknown, WorldTypes, decisionVars, historyVars
  <2> QED BY <2>1, <2>3, TypeSplit
<1> QED BY <1>1, <1>2, <1>3, <1>4, <1>5, <1>6, <1>7 DEF Execute

\* What happens to an attempt, and what people and operators do, keep the types.
LEMMA EnvironmentTypes ==
  ASSUME TypeOK,
         \/ \E a \in Attempts : \/ \E k \in Kinds, x \in Approvals \cup Policies \cup {None} :
                                     Start(a, k, x)
                                \/ Acquire(a) \/ Cancel(a) \/ LoseSession(a) \/ Crash(a)
         \/ \E p \in Approvals : DecideApproval(p)
         \/ \E p \in Policies : DecideReview(p)
         \/ CloseClaimed
  PROVE  TypeOK'
<1>0. WorldTypes /\ AttemptTypes
  BY TypeSplit
<1>1. ASSUME NEW a \in Attempts, NEW k \in Kinds, NEW x \in Approvals \cup Policies \cup {None},
             Start(a, k, x)
      PROVE  TypeOK'
  BY <1>1 DEF Start, TypeOK, Places, rowVars, decisionVars, historyVars
<1>2. ASSUME NEW a \in Attempts, Acquire(a)
      PROVE  TypeOK'
  BY <1>2 DEF Acquire, TypeOK, Places, Inside, rowVars, decisionVars, historyVars
<1>3. ASSUME NEW a \in Attempts, Cancel(a) \/ Crash(a)
      PROVE  TypeOK'
  <2>1. AttemptTypes'
    BY <1>0, <1>3, GotoTypes, StopTypes
    DEF Cancel, Crash, Raise, Replies, Places, Inside, Idle
  <2>2. WorldTypes'
    BY <1>0, <1>3 DEF Cancel, Crash, Running, WorldTypes, rowVars, decisionVars
  <2> QED BY <2>1, <2>2, TypeSplit
<1>4. ASSUME NEW a \in Attempts, LoseSession(a)
      PROVE  TypeOK'
  BY <1>4 DEF LoseSession, Freed, TypeOK, rowVars, decisionVars, historyVars
<1>5. ASSUME NEW p \in Approvals, DecideApproval(p)
      PROVE  TypeOK'
  BY <1>5 DEF DecideApproval, TypeOK, ApprovalStatuses, rowVars, attemptVars, historyVars
<1>6. ASSUME NEW p \in Policies, DecideReview(p)
      PROVE  TypeOK'
  BY <1>6 DEF DecideReview, TypeOK, ReviewStatuses, rowVars, attemptVars, historyVars
<1>7. CASE CloseClaimed
  <2>1. row' \in RowType
    BY <1>0, <1>7, BecomesType DEF CloseClaimed, WorldTypes, Statuses, Terminal
  <2> QED BY <1>7, <2>1
          DEF CloseClaimed, TypeOK, RowType, decisionVars, attemptVars, historyVars
<1> QED BY <1>1, <1>2, <1>3, <1>4, <1>5, <1>6, <1>7

\* Every reachable state of the row, the attempts and the decisions is well typed.
THEOREM TypeCorrect == Spec => []TypeOK
<1>1. Init => TypeOK
  <2> SUFFICES ASSUME Init PROVE WorldTypes /\ AttemptTypes
    BY DEF TypeOK, WorldTypes, AttemptTypes, RowType
  <2>1. WorldTypes
    BY DEF Init, WorldTypes, RowType, Statuses, ApprovalStatuses, ReviewStatuses
  <2>2. AttemptTypes
    BY DEF Init, AttemptTypes, Places, Idle, Kinds, Replies
  <2> QED BY <2>1, <2>2
<1>2. TypeOK /\ [Next]_vars => TypeOK'
  <2> SUFFICES ASSUME TypeOK, [Next]_vars PROVE TypeOK'
    OBVIOUS
  <2>1. CASE UNCHANGED vars
    BY <2>1 DEF vars, rowVars, decisionVars, attemptVars, historyVars, TypeOK
  <2>2. ASSUME NEW a \in Attempts,
               \/ \E k \in Kinds, x \in Approvals \cup Policies \cup {None} : Start(a, k, x)
               \/ Acquire(a) \/ Cancel(a) \/ LoseSession(a) \/ Crash(a)
        PROVE  TypeOK'
    BY <2>2, EnvironmentTypes
  <2>3. ASSUME NEW a \in Attempts,
               Lookup(a) \/ Decide(a) \/ Load(a) \/ Resolve(a) \/ Execute(a)
        PROVE  TypeOK'
    BY <2>3, LookupTypes, DecideTypes, LoadTypes, ResolveTypes, ExecuteTypes
  <2>4. ASSUME \/ \E p \in Approvals : DecideApproval(p)
               \/ \E p \in Policies : DecideReview(p)
               \/ CloseClaimed
        PROVE  TypeOK'
    BY <2>4, EnvironmentTypes
  <2> QED BY <2>1, <2>2, <2>3, <2>4 DEF Next, Proceed
<1> QED BY <1>1, <1>2, PTL DEF Spec

-----------------------------------------------------------------------------
(* The single entry.                                                       *)

OnceParts == LiveHoldsLock /\ BareHasRun /\ RunningHasRun /\ ClaimIsHeld /\ EnteredOnce

\* An unrepeatable tool never goes round the retry loop (_retry_while_unproven).
LEMMA UnsafeAnswers ==
  ASSUME ~Redispatchable, NEW a, NEW r, Answer(a, r)
  PROVE  Stop(a, "done", r)
  BY DEF Answer, RetriesUnproven

\* A replay ends the attempt and leaves the row alone.
LEMMA UnsafeReplays ==
  ASSUME ~Redispatchable, NEW a, Replay(a)
  PROVE  (\E r : Stop(a, "done", r)) /\ UNCHANGED <<row, effects>>
  BY UnsafeAnswers DEF Replay, rowVars, decisionVars, historyVars

\* An attempt that ends keeps the invariant, if the row it leaves behind is
\* still in order: it ran and is recorded so, or nothing has run.
LEMMA StopKeepsOnce ==
  ASSUME TypeOK, OnceParts, NEW a \in Attempts, NEW place \in Idle, NEW r,
         Stop(a, place, r),
         UNCHANGED effects,
         effects >= 1 => row'.status \in Unproven \cup {"completed", "failed"},
         Live(a) \/ row' = row \/ (row.status = "executing" /\ effects >= 1)
  PROVE  OnceParts'
<1> USE DEF OnceParts, Stop, Freed, Live, TypeOK
<1>1. LiveHoldsLock'
  BY DEF LiveHoldsLock
<1>2. BareHasRun' /\ RunningHasRun'
  BY DEF BareHasRun, RunningHasRun, Running, Idle
<1>3. ClaimIsHeld'
  <2> SUFFICES ASSUME NEW b \in Attempts, Live(b)'
               PROVE  /\ pc'[b] = "enter"    => row'.status = "executing"
                      /\ pc'[b] = "claimed"  => row'.status \in {"claimed", "executing", "failed"}
                      /\ pc'[b] = "unfenced" => row'.status \in {"executing", "failed"}
    BY DEF ClaimIsHeld
  <2>1. b # a /\ pc'[b] = pc[b] /\ Live(b)
    OBVIOUS
  <2>2. ~Live(a)
    BY <2>1 DEF LiveHoldsLock
  <2> QED BY <2>1, <2>2 DEF ClaimIsHeld, EnteredOnce
<1>4. EnteredOnce'
  BY DEF EnteredOnce
<1> QED BY <1>1, <1>2, <1>3, <1>4

\* The holder of the lock moves on, before anything ran: it keeps the invariant
\* if the row is what the new place expects.
LEMMA HolderMovesKeepsOnce ==
  ASSUME TypeOK, OnceParts, NEW a \in Attempts, Live(a), effects = 0, effects' = 0,
         NEW place \in Inside \ {"run", "run_unfenced"},
         pc' = [pc EXCEPT ![a] = place], UNCHANGED <<lock, session>>,
         place = "enter" => row'.status = "executing",
         place = "claimed" => row'.status \in {"claimed", "executing", "failed"},
         place = "unfenced" => row'.status \in {"executing", "failed"}
  PROVE  OnceParts'
<1> USE DEF OnceParts, Live, TypeOK
<1>1. LiveHoldsLock'
  BY DEF LiveHoldsLock
<1>2. BareHasRun' /\ RunningHasRun'
  BY DEF BareHasRun, RunningHasRun, Running
<1>3. ClaimIsHeld'
  <2> SUFFICES ASSUME NEW b \in Attempts, Live(b)'
               PROVE  /\ pc'[b] = "enter"    => row'.status = "executing"
                      /\ pc'[b] = "claimed"  => row'.status \in {"claimed", "executing", "failed"}
                      /\ pc'[b] = "unfenced" => row'.status \in {"executing", "failed"}
    BY DEF ClaimIsHeld
  <2>1. b = a
    BY DEF LiveHoldsLock
  <2> QED BY <2>1
<1>4. EnteredOnce'
  BY DEF EnteredOnce
<1> QED BY <1>1, <1>2, <1>3, <1>4

\* An attempt that is connected and not about to record an unknown outcome holds
\* the lock; before its executor, nothing has run.
LEMMA ConnectedIsLive ==
  ASSUME OnceParts, TypeOK, NEW a \in Attempts, Connected(a)
  PROVE  /\ pc[a] # "unsure" => Live(a)
         /\ pc[a] \in {"deny", "decide", "claimed", "ready", "unfenced", "dispatch", "enter"}
              => effects = 0
  BY DEF OnceParts, Connected, Live, BareHasRun, EnteredOnce, TypeOK

\* A row that may still be run has not been run.
LEMMA UnrunRow ==
  ASSUME OnceParts, TypeOK, row.status \notin Unproven \cup {"completed", "failed"}
  PROVE  effects = 0
  BY DEF OnceParts, EnteredOnce, TypeOK

-----------------------------------------------------------------------------
\* _reconcile_unproven_dispatch never gives an unrepeatable call back.
LEMMA ReconcileOnce ==
  ASSUME TypeOK, OnceParts, ~Redispatchable, NEW a \in Attempts, Live(a),
         NEW onward, Reconcile(a, onward)
  PROVE  OnceParts'
<1>1. Stop(a, "done", "unknown") /\ Becomes("execution_unknown") /\ UNCHANGED effects
  BY UnsafeAnswers DEF Reconcile, historyVars
<1>2. row'.status \in Unproven
  BY <1>1 DEF Becomes, TypeOK, Unproven
<1> QED BY <1>1, <1>2, StopKeepsOnce DEF Idle

\* A claim lost to another attempt ends this one.
LEMMA ReconcileAfterLossOnce ==
  ASSUME TypeOK, OnceParts, ~Redispatchable, NEW a \in Attempts, Live(a), ReconcileAfterLoss(a)
  PROVE  OnceParts'
  BY ReconcileOnce DEF ReconcileAfterLoss

\* The lookup of request.
LEMMA LookupOnce ==
  ASSUME TypeOK, OnceParts, ~Redispatchable, NEW a \in Attempts, Lookup(a)
  PROVE  OnceParts'
<1>1. Live(a)
  BY ConnectedIsLive
  DEF Lookup, LookupAbsent, LookupClaimed, LookupReplay, LookupUnproven, LookupUnvalidated, At
<1>2. CASE LookupAbsent(a) \/ LookupClaimed(a)
  <2>1. effects = 0 /\ effects' = 0
    BY <1>2, UnrunRow DEF LookupAbsent, LookupClaimed, Undispatched, Unproven, historyVars
  <2>2. \E place \in {"decide", "deny"} : pc' = [pc EXCEPT ![a] = place]
    BY <1>2 DEF LookupAbsent, LookupClaimed
  <2>3. UNCHANGED <<lock, session>>
    BY <1>2 DEF LookupAbsent, LookupClaimed
  <2> QED BY <1>1, <2>1, <2>2, <2>3, HolderMovesKeepsOnce DEF Inside
<1>3. CASE LookupReplay(a)
  BY <1>1, <1>3, UnsafeReplays, StopKeepsOnce
  DEF LookupReplay, Idle, OnceParts, EnteredOnce
<1>4. CASE LookupUnproven(a)
  BY <1>1, <1>4, ReconcileOnce DEF LookupUnproven
<1>5. CASE LookupUnvalidated(a)
  <2>1. PICK r \in {"denied", "unknown", "mismatch"} : Stop(a, "done", r)
    BY <1>5, UnsafeAnswers DEF LookupUnvalidated
  <2>2. effects' = effects
    BY <1>5 DEF LookupUnvalidated, historyVars
  <2>3. \/ row.status \in Undispatched
        \/ Becomes("execution_unknown")
        \/ UNCHANGED row
    BY <1>5 DEF LookupUnvalidated
  <2>4. effects >= 1 => row'.status \in Unproven \cup {"completed", "failed"}
    BY <2>3 DEF OnceParts, EnteredOnce, Undispatched, Unproven, Becomes, TypeOK
  <2> QED BY <1>1, <2>1, <2>2, <2>4, StopKeepsOnce DEF Idle
<1> QED BY <1>2, <1>3, <1>4, <1>5 DEF Lookup

\* The decision of request: nothing has run yet.
LEMMA DecideOnce ==
  ASSUME TypeOK, OnceParts, ~Redispatchable, NEW a \in Attempts, Decide(a)
  PROVE  OnceParts'
<1>1. Live(a) /\ effects = 0
  BY ConnectedIsLive
  DEF Decide, DenyRequest, ParkForReview, StageApproval, ClaimDirect, AdoptLost, Deciding, At
<1>2. CASE ClaimDirect(a)
  BY <1>1, <1>2, HolderMovesKeepsOnce DEF ClaimDirect, Goto, Inside, historyVars
<1>3. CASE DenyRequest(a) \/ ParkForReview(a) \/ StageApproval(a)
  <2>1. (\E r : Stop(a, "done", r)) /\ effects' = effects
    BY <1>3, UnsafeAnswers DEF DenyRequest, ParkForReview, StageApproval, historyVars
  <2> QED BY <1>1, <2>1, StopKeepsOnce DEF Idle
<1>4. CASE AdoptLost(a)
  <2>1. CASE ReconcileAfterLoss(a)
    BY <1>1, <2>1, ReconcileAfterLossOnce
  <2>2. CASE ~ReconcileAfterLoss(a)
    <3>1. (\E r : Stop(a, "done", r)) /\ effects' = effects
      BY <1>4, <2>2, UnsafeAnswers, UnsafeReplays DEF AdoptLost, historyVars
    <3> QED BY <1>1, <3>1, StopKeepsOnce DEF Idle
  <2> QED BY <2>1, <2>2
<1> QED BY <1>2, <1>3, <1>4 DEF Decide

\* The load of a resolution.
LEMMA LoadOnce ==
  ASSUME TypeOK, OnceParts, ~Redispatchable, NEW a \in Attempts, Load(a)
  PROVE  OnceParts'
<1>1. Live(a)
  BY ConnectedIsLive
  DEF Load, LoadRefused, LoadReplay, LoadResolvable, LoadUnproven, Loading, At
<1>2. CASE LoadRefused(a)
  BY <1>1, <1>2, StopKeepsOnce DEF LoadRefused, Raise, Idle, rowVars, historyVars, OnceParts, EnteredOnce
<1>3. CASE LoadReplay(a)
  <2>1. (\E r : Stop(a, "done", r)) /\ UNCHANGED <<row, effects>>
    BY <1>3, UnsafeAnswers DEF LoadReplay, rowVars, historyVars
  <2> QED BY <1>1, <2>1, StopKeepsOnce DEF Idle, OnceParts, EnteredOnce
<1>4. CASE LoadResolvable(a)
  <2>1. effects = 0 /\ effects' = 0
    BY <1>4, UnrunRow DEF LoadResolvable, Resolvable, Undispatched, Unproven, historyVars
  <2> QED BY <1>1, <1>4, <2>1, HolderMovesKeepsOnce DEF LoadResolvable, Goto, Inside
<1>5. CASE LoadUnproven(a)
  <2>1. CASE \E onward : Reconcile(a, onward)
    BY <1>1, <2>1, ReconcileOnce
  <2>2. CASE ~\E onward : Reconcile(a, onward)
    <3>1. Becomes("execution_unknown") /\ Stop(a, "done", "unknown") /\ effects' = effects
      BY <1>5, <2>2, UnsafeAnswers DEF LoadUnproven, historyVars
    <3>2. row'.status \in Unproven
      BY <3>1 DEF Becomes, TypeOK, Unproven
    <3> QED BY <1>1, <3>1, <3>2, StopKeepsOnce DEF Idle
  <2> QED BY <2>1, <2>2
<1> QED BY <1>2, <1>3, <1>4, <1>5 DEF Load

\* The decision of a resolution: nothing has run yet.
LEMMA ResolveOnce ==
  ASSUME TypeOK, OnceParts, ~Redispatchable, NEW a \in Attempts, Resolve(a)
  PROVE  OnceParts'
<1>1. Live(a) /\ effects = 0
  BY ConnectedIsLive
  DEF Resolve, FinishParked, ResolveRejected, RebindReview, StageReviewed, ClaimResolved,
      ClaimLost, Refresh, ConnectionChanged, Resolving, At
<1>2. CASE FinishParked(a) \/ ResolveRejected(a) \/ RebindReview(a) \/ StageReviewed(a)
  <2>1. (\E r : Stop(a, "done", r)) /\ effects' = effects
    BY <1>2, UnsafeAnswers
    DEF FinishParked, ResolveRejected, RebindReview, StageReviewed, historyVars
  <2> QED BY <1>1, <2>1, StopKeepsOnce DEF Idle
<1>3. CASE ConnectionChanged(a)
  <2>1. Stop(a, "done", "denied") /\ effects' = effects
    BY <1>3, UnsafeAnswers DEF ConnectionChanged, historyVars
  <2> QED BY <1>1, <2>1, StopKeepsOnce DEF Idle
<1>4. CASE ClaimResolved(a)
  <2>1. row'.status = "claimed"
    BY <1>4 DEF ClaimResolved, Becomes, TypeOK
  <2>2. Goto(a, "claimed") /\ effects' = effects
    BY <1>4 DEF ClaimResolved, historyVars
  <2> QED BY <1>1, <2>1, <2>2, HolderMovesKeepsOnce DEF Goto, Inside
<1>5. CASE ClaimLost(a)
  <2>1. CASE Reconcile(a, "claimed")
    BY <1>1, <2>1, ReconcileOnce
  <2>2. CASE ~Reconcile(a, "claimed")
    <3>1. (\E r : Stop(a, "done", r)) /\ effects' = effects
      BY <1>5, <2>2, UnsafeAnswers DEF ClaimLost, Raise, historyVars
    <3> QED BY <1>1, <3>1, StopKeepsOnce DEF Idle
  <2> QED BY <2>1, <2>2
<1>6. CASE Refresh(a)
  <2>1. row' = row /\ effects' = effects /\ pc[a] = "claimed"
    BY <1>6 DEF Refresh, At, rowVars, historyVars
  <2>2. row.status \in {"claimed", "executing", "failed"}
    BY <1>1, <2>1 DEF OnceParts, ClaimIsHeld
  <2>3. CASE row.status = "claimed"
    BY <1>1, <1>6, <2>1, <2>3, HolderMovesKeepsOnce DEF Refresh, Goto, Inside
  <2>4. CASE row.status # "claimed"
    BY <1>1, <1>6, <2>1, <2>2, <2>4, HolderMovesKeepsOnce DEF Refresh, Goto, Inside
  <2> QED BY <2>3, <2>4
<1> QED BY <1>2, <1>3, <1>4, <1>5, <1>6 DEF Resolve

-----------------------------------------------------------------------------
\* The fence: its winner, connected or not, is the first to leave the claim.
LEMMA MarkDispatchedOnce ==
  ASSUME TypeOK, OnceParts, ~Redispatchable, NEW a \in Attempts, MarkDispatched(a)
  PROVE  OnceParts'
<1> USE DEF MarkDispatched, Goto, historyVars
<1>1. effects = 0 /\ effects' = 0
  BY UnrunRow DEF Unproven
<1>2. row.status = "claimed" /\ row'.status = "executing"
  BY DEF Becomes, TypeOK
<1>3. LiveHoldsLock' /\ BareHasRun'
  BY <1>1 DEF OnceParts, LiveHoldsLock, BareHasRun, Live, TypeOK, Inside
<1>4. RunningHasRun'
  BY <1>1 DEF OnceParts, RunningHasRun, Running, TypeOK
<1>5. ClaimIsHeld'
  BY <1>2 DEF OnceParts, ClaimIsHeld, Live, TypeOK
<1>6. EnteredOnce'
  BY <1>1 DEF EnteredOnce
<1> QED BY <1>3, <1>4, <1>5, <1>6 DEF OnceParts

\* Losing the fence leaves the row to the winner.
LEMMA DispatchLostOnce ==
  ASSUME TypeOK, OnceParts, NEW a \in Attempts, DispatchLost(a)
  PROVE  OnceParts'
<1> USE DEF DispatchLost, Goto, historyVars, rowVars, OnceParts, TypeOK, Live
<1>1. LiveHoldsLock' /\ BareHasRun'
  BY DEF LiveHoldsLock, BareHasRun, Inside
<1>2. RunningHasRun' /\ ClaimIsHeld'
  BY DEF RunningHasRun, Running, ClaimIsHeld
<1>3. EnteredOnce'
  BY DEF EnteredOnce
<1> QED BY <1>1, <1>2, <1>3

\* The executor is entered once: by the holder, after the row left its claim.
LEMMA EnterExecutorOnce ==
  ASSUME TypeOK, OnceParts, NEW a \in Attempts, EnterExecutor(a)
  PROVE  OnceParts'
<1>1. Live(a) /\ effects = 0 /\ effects' = 1
  BY ConnectedIsLive DEF EnterExecutor, At
<1>2. row' = row /\ row.status \in {"executing", "failed"}
  BY <1>1 DEF EnterExecutor, At, rowVars, OnceParts, ClaimIsHeld
<1>3. /\ pc' \in {[pc EXCEPT ![a] = "run"], [pc EXCEPT ![a] = "run_unfenced"]}
      /\ UNCHANGED <<lock, session>>
  BY DEF EnterExecutor, Goto
<1> USE DEF OnceParts, TypeOK, Live
<1>4. LiveHoldsLock' /\ BareHasRun'
  BY <1>1, <1>3 DEF LiveHoldsLock, BareHasRun, Inside
<1>5. RunningHasRun' /\ ClaimIsHeld'
  BY <1>1, <1>2, <1>3 DEF RunningHasRun, Running, ClaimIsHeld
<1>6. EnteredOnce'
  <2> SUFFICES ASSUME NEW b \in Attempts, Live(b)'
               PROVE  pc'[b] \in {"look", "run", "run_unfenced", "unsure", "cancelled"}
    BY <1>1, <1>2 DEF EnteredOnce, Unproven
  <2>1. b = a
    BY <1>1, <1>3 DEF LiveHoldsLock
  <2> QED BY <1>3, <2>1
<1> QED BY <1>4, <1>5, <1>6

\* The executor stopped with an uncertain error.
LEMMA UnclearOnce ==
  ASSUME TypeOK, OnceParts, NEW a \in Attempts, Unclear(a)
  PROVE  OnceParts'
<1> USE DEF Unclear, rowVars, OnceParts, TypeOK, Live
<1>1. effects' = effects /\ effects >= 1
  BY DEF RunningHasRun, Running
<1>2. LiveHoldsLock' /\ BareHasRun'
  BY <1>1 DEF LiveHoldsLock, BareHasRun, Inside
<1>3. RunningHasRun' /\ ClaimIsHeld'
  BY <1>1 DEF RunningHasRun, Running, ClaimIsHeld
<1>4. EnteredOnce'
  BY <1>1 DEF EnteredOnce
<1> QED BY <1>2, <1>3, <1>4

\* An ending is recorded: by the holder, or over a row that ran.
LEMMA EndingsKeepOnce ==
  ASSUME TypeOK, OnceParts, ~Redispatchable, NEW a \in Attempts,
         \/ Finish(a) \/ FinishUnwritten(a) \/ UnclearUnfenced(a) \/ PersistUnknown(a)
         \/ SessionError(a)
  PROVE  OnceParts'
<1>1. CASE Finish(a) \/ UnclearUnfenced(a)
  <2>1. Live(a)
    BY <1>1, ConnectedIsLive DEF Finish, UnclearUnfenced, Running, At
  <2>2. (\E r : Stop(a, "done", r)) /\ effects' = effects
    BY <1>1, UnsafeAnswers DEF Finish, UnclearUnfenced, historyVars
  <2>3. row'.status \in {"completed", "failed"}
    BY <1>1 DEF Finish, UnclearUnfenced, Becomes, TypeOK
  <2> QED BY <2>1, <2>2, <2>3, StopKeepsOnce DEF Idle
<1>2. CASE FinishUnwritten(a) \/ SessionError(a)
  <2>1. (\E r : Stop(a, "done", r)) /\ UNCHANGED <<row, effects>>
    BY <1>2 DEF FinishUnwritten, SessionError, Raise, rowVars, historyVars
  <2> QED BY <2>1, StopKeepsOnce DEF Idle, OnceParts, EnteredOnce
<1>3. CASE PersistUnknown(a)
  <2>1. (\E r : Stop(a, "done", r)) /\ effects' = effects
    BY <1>3, UnsafeAnswers DEF PersistUnknown, Raise, historyVars
  <2>2. row' = row \/ (row.status = "executing" /\ row'.status \in Unproven)
    BY <1>3 DEF PersistUnknown, Becomes, TypeOK, Unproven
  <2>3. Live(a) \/ effects >= 1
    BY <1>3 DEF PersistUnknown, At, Connected, Live, OnceParts, BareHasRun
  <2> QED BY <2>1, <2>2, <2>3, StopKeepsOnce DEF Idle, OnceParts, EnteredOnce
<1> QED BY <1>1, <1>2, <1>3

\* Every step of _execute and _run_executor.
LEMMA ExecuteOnce ==
  ASSUME TypeOK, OnceParts, ~Redispatchable, NEW a \in Attempts, Execute(a)
  PROVE  OnceParts'
<1>1. CASE ExecuteClaim(a)
  <2>1. Live(a) /\ effects = 0
    BY <1>1, ConnectedIsLive DEF ExecuteClaim, At
  <2>2. effects' = effects
    BY <1>1 DEF ExecuteClaim, historyVars
  <2>3. CASE Goto(a, "dispatch")
    BY <2>1, <2>2, <2>3, HolderMovesKeepsOnce DEF Goto, Inside
  <2>4. CASE Raise(a)
    BY <2>1, <2>2, <2>4, StopKeepsOnce DEF Raise, Idle
  <2> QED BY <1>1, <2>3, <2>4 DEF ExecuteClaim
<1> QED BY <1>1, MarkDispatchedOnce, DispatchLostOnce, EnterExecutorOnce, UnclearOnce,
           EndingsKeepOnce DEF Execute

-----------------------------------------------------------------------------
\* What happens to an attempt: it is started, admitted, cancelled, cut off, killed.
LEMMA AttemptEventsOnce ==
  ASSUME TypeOK, OnceParts, NEW a \in Attempts,
         \/ \E k, x : Start(a, k, x)
         \/ Acquire(a) \/ Cancel(a) \/ LoseSession(a) \/ Crash(a)
  PROVE  OnceParts'
<1>1. CASE Acquire(a)
  <2>0. /\ lock = None /\ lock' = a
        /\ pc' = [pc EXCEPT ![a] = "look"] /\ session' = [session EXCEPT ![a] = "live"]
        /\ UNCHANGED <<row, effects>>
    BY <1>1 DEF Acquire, rowVars, historyVars
  <2>1. \A b \in Attempts : ~Live(b)
    BY <2>0, GatewayAssumption DEF OnceParts, LiveHoldsLock
  <2> USE <2>0 DEF OnceParts, TypeOK, Live
  <2>2. LiveHoldsLock'
    BY <2>1 DEF LiveHoldsLock, Inside
  <2>3. BareHasRun'
    BY DEF BareHasRun
  <2>4. RunningHasRun' /\ ClaimIsHeld'
    BY <2>1 DEF RunningHasRun, Running, ClaimIsHeld
  <2>5. EnteredOnce'
    BY <2>1 DEF EnteredOnce
  <2> QED BY <2>2, <2>3, <2>4, <2>5
<1>2. CASE \E k, x : Start(a, k, x)
  <2>1. /\ pc[a] = "idle" /\ pc' = [pc EXCEPT ![a] = "wait"]
        /\ UNCHANGED <<row, effects, lock, session>>
    BY <1>2 DEF Start, rowVars, historyVars
  <2> USE <2>1 DEF OnceParts, TypeOK, Live
  <2>2. LiveHoldsLock' /\ BareHasRun'
    BY DEF LiveHoldsLock, BareHasRun, Inside
  <2>3. RunningHasRun' /\ ClaimIsHeld'
    BY DEF RunningHasRun, Running, ClaimIsHeld
  <2>4. EnteredOnce'
    BY DEF EnteredOnce, LiveHoldsLock, Inside
  <2> QED BY <2>2, <2>3, <2>4
<1>3. CASE Cancel(a) /\ Goto(a, "cancelled")
  <2>1. /\ Running(a) /\ pc' = [pc EXCEPT ![a] = "cancelled"]
        /\ UNCHANGED <<row, effects, lock, session>>
    BY <1>3 DEF Cancel, Goto, rowVars
  <2> USE <2>1 DEF OnceParts, TypeOK, Live
  <2>2. LiveHoldsLock' /\ BareHasRun'
    BY DEF LiveHoldsLock, BareHasRun, Inside, Running
  <2>3. RunningHasRun' /\ ClaimIsHeld'
    BY DEF RunningHasRun, Running, ClaimIsHeld
  <2>4. EnteredOnce'
    BY DEF EnteredOnce
  <2> QED BY <2>2, <2>3, <2>4
<1>4. CASE LoseSession(a)
  <2>1. /\ session' = [session EXCEPT ![a] = "lost"] /\ lock' = Freed(a)
        /\ UNCHANGED <<row, effects, pc>>
    BY <1>4 DEF LoseSession, rowVars, historyVars
  <2> USE <2>1 DEF OnceParts, TypeOK, Live, Freed
  <2>2. LiveHoldsLock' /\ BareHasRun'
    BY DEF LiveHoldsLock, BareHasRun
  <2>3. RunningHasRun' /\ ClaimIsHeld'
    BY DEF RunningHasRun, Running, ClaimIsHeld
  <2>4. EnteredOnce'
    BY DEF EnteredOnce
  <2> QED BY <2>2, <2>3, <2>4
<1>5. CASE Crash(a) \/ (Cancel(a) /\ Raise(a))
  <2>1. (\E place \in Idle : \E r : Stop(a, place, r)) /\ UNCHANGED <<row, effects>>
    BY <1>5 DEF Crash, Cancel, Raise, Idle, rowVars
  <2> QED BY <2>1, StopKeepsOnce DEF OnceParts, EnteredOnce
<1> QED BY <1>1, <1>2, <1>3, <1>4, <1>5 DEF Cancel

\* The rollback command closes only claims, which have not run.
LEMMA CloseClaimedOnce ==
  ASSUME TypeOK, OnceParts, CloseClaimed
  PROVE  OnceParts'
<1> USE DEF CloseClaimed, attemptVars, historyVars, OnceParts, TypeOK, Live
<1>1. row'.status = "failed" /\ row.status = "claimed" /\ UNCHANGED <<effects, lock, pc, session>>
  BY DEF Becomes
<1>2. LiveHoldsLock' /\ BareHasRun' /\ RunningHasRun'
  BY <1>1 DEF LiveHoldsLock, BareHasRun, RunningHasRun, Running
<1>3. ClaimIsHeld'
  BY <1>1 DEF ClaimIsHeld
<1>4. EnteredOnce'
  BY <1>1 DEF EnteredOnce
<1> QED BY <1>2, <1>3, <1>4

-----------------------------------------------------------------------------
\* The invariant survives every step, for a tool whose effect cannot be repeated.
LEMMA NextKeepsOnce ==
  ASSUME TypeOK, OnceParts, ~Redispatchable, [Next]_vars
  PROVE  OnceParts'
<1>1. CASE \E a \in Attempts : Proceed(a)
  <2>1. CASE \E a \in Attempts : Acquire(a)
    BY <2>1, AttemptEventsOnce
  <2> QED BY <1>1, <2>1, LookupOnce, DecideOnce, LoadOnce, ResolveOnce, ExecuteOnce DEF Proceed
<1>2. CASE \E a \in Attempts :
             (\E k, x : Start(a, k, x)) \/ Cancel(a) \/ LoseSession(a) \/ Crash(a)
  BY <1>2, AttemptEventsOnce
<1>3. CASE \/ \E p \in Approvals : DecideApproval(p)
           \/ \E p \in Policies : DecideReview(p)
           \/ UNCHANGED vars
  <2>1. UNCHANGED <<row, effects, lock, pc, session>>
    BY <1>3 DEF DecideApproval, DecideReview, rowVars, attemptVars, historyVars, vars
  <2> QED BY <2>1 DEF OnceParts, LiveHoldsLock, BareHasRun, RunningHasRun, Running,
                      ClaimIsHeld, EnteredOnce, Live
<1>4. CASE CloseClaimed
  BY <1>4, CloseClaimedOnce
<1> QED BY <1>1, <1>2, <1>3, <1>4 DEF Next

\* The strengthened invariant holds of every run of the gateway (_run_executor).
THEOREM OnceInductive == Spec => []OnceInv
<1>1. Init => OnceInv
  BY DEF Init, OnceInv, LiveHoldsLock, BareHasRun, RunningHasRun, Running, ClaimIsHeld,
         EnteredOnce, Live
<1>2. TypeOK /\ OnceInv /\ [Next]_vars => OnceInv'
  BY NextKeepsOnce DEF OnceInv, OnceParts
<1> QED BY <1>1, <1>2, TypeCorrect, PTL DEF Spec

\* An executor whose effect cannot be repeated is entered at most once, whatever
\* attempts race, die, lose their connection or meet the rollback command.
THEOREM RunsAtMostOnce == Spec => []AtMostOnce
<1>1. TypeOK /\ OnceInv => AtMostOnce
  BY DEF AtMostOnce, OnceInv, EnteredOnce, TypeOK
<1> QED BY <1>1, TypeCorrect, OnceInductive, PTL

\* A call recorded as denied or rejected never reached its executor.
THEOREM RefusalsAreTrue == Spec => []RefusedNeverRan
<1>1. TypeOK /\ OnceInv => RefusedNeverRan
  BY DEF RefusedNeverRan, OnceInv, EnteredOnce, TypeOK, Unproven
<1> QED BY <1>1, TypeCorrect, OnceInductive, PTL

-----------------------------------------------------------------------------
(* The promise beyond it.                                                  *)

HIDE GatewayAssumption

\* No attempt goes on without the lock: its session is not lost, or an attempt
\* that lost it does not go round again (_retry_while_unproven).
Exclusive == Redispatchable => ~SessionsFail

-----------------------------------------------------------------------------
(* What a step leaves alone.                                               *)

\* A step of attempt a changes nothing of the other attempts.
Apart(a) ==
  \A b \in Attempts \ {a} :
    /\ pc'[b] = pc[b] /\ session'[b] = session[b] /\ reply'[b] = reply[b]
    /\ kind'[b] = kind[b] /\ target'[b] = target[b] /\ adopt'[b] = adopt[b]

\* Nor who it is and what it resolves.
Same(a) == kind'[a] = kind[a] /\ target'[a] = target[a] /\ adopt'[a] = adopt[a]

\* It stays inside, with the lock and the session it had.
Moved(a, place) ==
  /\ Apart(a) /\ pc'[a] = place
  /\ lock' = lock /\ session'[a] = session[a]

\* It leaves, and with it its session and the lock it held.
Left(a, r) ==
  /\ Apart(a) /\ Same(a) /\ pc'[a] \in {"done", "dead"}
  /\ session'[a] = "none" /\ reply'[a] = r /\ lock' = Freed(a)

\* Going to another place (Goto).
LEMMA GotoMoves ==
  ASSUME TypeOK, NEW a \in Attempts, NEW place, Goto(a, place)
  PROVE  Moved(a, place) /\ Same(a) /\ reply' = reply
  BY DEF Goto, Moved, Same, Apart, TypeOK

\* Leaving the lifecycle (_invocation_lifecycle_lock).
LEMMA StopLeaves ==
  ASSUME TypeOK, NEW a \in Attempts, NEW place \in {"done", "dead"}, NEW r, Stop(a, place, r)
  PROVE  Left(a, r)
  BY DEF Stop, Left, Apart, Same, TypeOK

\* An answer ends the attempt, or takes it round the retry loop.
LEMMA AnswerEnds ==
  ASSUME TypeOK, NEW a \in Attempts, NEW r, Answer(a, r)
  PROVE  \/ Left(a, r)
         \/ /\ Redispatchable /\ r = "unknown"
            /\ Moved(a, "look") /\ Same(a) /\ reply'[a] = r
<1>1. CASE RetriesUnproven(a, r)
  BY <1>1 DEF Answer, RetriesUnproven, Moved, Apart, Same, TypeOK
<1>2. CASE ~RetriesUnproven(a, r)
  BY <1>2, StopLeaves DEF Answer
<1> QED BY <1>1, <1>2

\* The transactions of an attempt, but for the rollback that may reconnect it.
Transacts(a) ==
  \/ Lookup(a) \/ Decide(a) \/ Load(a) \/ Resolve(a) \/ Cancel(a)
  \/ Execute(a) /\ ~Unclear(a)

\* It leaves a place between two transactions, and moves on or leaves.
Shape(a) ==
  /\ pc[a] \in Inside
  /\ \/ /\ \E place \in Inside : Moved(a, place)
        /\ reply'[a] = reply[a] \/ (reply'[a] = "unknown" /\ Redispatchable)
     \/ \E r : Left(a, r)

\* An answer (_retry_while_unproven) has the shape of a step.
LEMMA AnswerShape ==
  ASSUME TypeOK, NEW a \in Attempts, NEW r, Answer(a, r), pc[a] \in Inside
  PROVE  Shape(a)
  BY AnswerEnds DEF Shape, Inside

\* So has moving on inside the lifecycle (_request_once),
LEMMA GotoShape ==
  ASSUME TypeOK, NEW a \in Attempts, NEW place \in Inside, Goto(a, place), pc[a] \in Inside
  PROVE  Shape(a)
  BY GotoMoves DEF Shape

\* leaving it by an exception (_invocation_lifecycle_lock),
LEMMA RaiseShape ==
  ASSUME TypeOK, NEW a \in Attempts, Raise(a), pc[a] \in Inside
  PROVE  Shape(a)
  BY StopLeaves DEF Shape, Raise

\* asking what became of a dispatched row (_reconcile_unproven_dispatch),
LEMMA ReconcileShape ==
  ASSUME TypeOK, NEW a \in Attempts, NEW onward \in Inside, Reconcile(a, onward), pc[a] \in Inside
  PROVE  Shape(a)
<1>1. CASE \E r : Answer(a, r)
  BY <1>1, AnswerShape
<1>2. CASE /\ adopt' = [adopt EXCEPT ![a] = TRUE] /\ pc' = [pc EXCEPT ![a] = onward]
           /\ UNCHANGED <<lock, kind, target, session, entries, reply>>
  BY <1>2 DEF Shape, Moved, Apart, TypeOK
<1> QED BY <1>1, <1>2 DEF Reconcile

\* and asking it after a lost claim (_adopt_undispatched_claim).
LEMMA ReconcileAfterLossShape ==
  ASSUME TypeOK, NEW a \in Attempts, ReconcileAfterLoss(a), pc[a] \in Inside
  PROVE  Shape(a)
<1>1. CASE Raise(a)
  BY <1>1, RaiseShape
<1>2. CASE Reconcile(a, "done") /\ ~(Redispatchable /\ dispatches < MaxDispatch)
  BY <1>2, AnswerShape DEF Reconcile
<1> QED BY <1>1, <1>2 DEF ReconcileAfterLoss

\* Every transaction of an attempt that is inside, but for the rollback that
\* may reconnect it (Unclear).
LEMMA ProceedShape ==
  ASSUME TypeOK, NEW a \in Attempts, Transacts(a)
  PROVE  Shape(a)
<1> USE AnswerShape, GotoShape, RaiseShape, ReconcileShape, ReconcileAfterLossShape
<1>1. CASE Lookup(a)
  <2>1. pc[a] \in Inside
    BY <1>1 DEF Lookup, LookupAbsent, LookupClaimed, LookupReplay, LookupUnproven,
                LookupUnvalidated, At, Inside
  <2>2. CASE LookupAbsent(a) \/ LookupClaimed(a)
    BY <2>1, <2>2 DEF LookupAbsent, LookupClaimed, Shape, Moved, Apart, Inside, TypeOK
  <2>3. CASE LookupReplay(a) \/ LookupUnvalidated(a)
    <3>1. (\E r : Answer(a, r)) \/ Stop(a, "done", "unknown")
      BY <2>3 DEF LookupReplay, LookupUnvalidated, Replay
    <3> QED BY <2>1, <3>1, StopLeaves DEF Shape
  <2>4. CASE LookupUnproven(a)
    BY <2>1, <2>4 DEF LookupUnproven, Inside
  <2> QED BY <1>1, <2>2, <2>3, <2>4 DEF Lookup
<1>2. CASE Decide(a)
  <2>1. pc[a] \in Inside
    BY <1>2 DEF Decide, DenyRequest, ParkForReview, StageApproval, ClaimDirect, AdoptLost,
                Deciding, At, Inside
  <2>2. CASE ClaimDirect(a)
    BY <2>1, <2>2 DEF ClaimDirect, Inside
  <2>3. CASE DenyRequest(a) \/ ParkForReview(a) \/ StageApproval(a)
    BY <2>1, <2>3 DEF DenyRequest, ParkForReview, StageApproval
  <2>4. CASE AdoptLost(a)
    BY <2>1, <2>4 DEF AdoptLost, Replay
  <2> QED BY <1>2, <2>2, <2>3, <2>4 DEF Decide
<1>3. CASE Load(a)
  <2>1. pc[a] \in Inside
    BY <1>3 DEF Load, LoadRefused, LoadReplay, LoadResolvable, LoadUnproven, Loading, At, Inside
  <2> QED BY <1>3, <2>1 DEF Load, LoadRefused, LoadReplay, LoadResolvable, LoadUnproven, Inside
<1>4. CASE Resolve(a)
  <2>1. pc[a] \in Inside
    BY <1>4 DEF Resolve, FinishParked, ResolveRejected, RebindReview, StageReviewed,
                ClaimResolved, ClaimLost, Refresh, ConnectionChanged, Resolving, At, Inside
  <2>2. CASE FinishParked(a) \/ ResolveRejected(a) \/ RebindReview(a) \/ StageReviewed(a)
             \/ ConnectionChanged(a)
    BY <2>1, <2>2 DEF FinishParked, ResolveRejected, RebindReview, StageReviewed,
                      ConnectionChanged
  <2>3. CASE ClaimResolved(a) \/ Refresh(a)
    BY <2>1, <2>3 DEF ClaimResolved, Refresh, Inside
  <2>4. CASE ClaimLost(a)
    BY <2>1, <2>4 DEF ClaimLost, Inside
  <2> QED BY <1>4, <2>2, <2>3, <2>4 DEF Resolve
<1>5. CASE Execute(a) /\ ~Unclear(a)
  <2>1. pc[a] \in Inside
    BY <1>5 DEF Execute, ExecuteClaim, MarkDispatched, DispatchLost, EnterExecutor, Finish,
                FinishUnwritten, UnclearUnfenced, PersistUnknown, SessionError, Running,
                At, Inside
  <2>2. CASE ExecuteClaim(a) \/ MarkDispatched(a) \/ DispatchLost(a) \/ EnterExecutor(a)
    BY <2>1, <2>2 DEF ExecuteClaim, MarkDispatched, DispatchLost, EnterExecutor, Inside
  <2>3. CASE Finish(a) \/ FinishUnwritten(a) \/ UnclearUnfenced(a) \/ PersistUnknown(a)
             \/ SessionError(a)
    BY <2>1, <2>3 DEF Finish, FinishUnwritten, UnclearUnfenced, PersistUnknown, SessionError
  <2> QED BY <1>5, <2>2, <2>3 DEF Execute
<1>6. CASE Cancel(a)
  <2>1. pc[a] \in Inside
    BY <1>6 DEF Cancel, Running, Inside
  <2> QED BY <1>6, <2>1 DEF Cancel, Inside
<1> QED BY <1>1, <1>2, <1>3, <1>4, <1>5, <1>6 DEF Transacts

-----------------------------------------------------------------------------
(* The lock and the session.                                               *)

\* A live session holds the lock; where sessions do not fail, whoever is inside
\* has one; and a reconnected one has only its own doubt to record.
Sessions ==
  /\ LiveHoldsLock
  /\ ~SessionsFail => \A a \in Attempts : /\ session[a] \in {"none", "live"}
                                          /\ pc[a] \in Inside => Live(a)
  /\ \A a \in Attempts : session[a] = "bare" => pc[a] = "unsure"

\* The next place of a reconnected attempt is out.
LEMMA BareLeaves ==
  ASSUME Exclusive, TypeOK, Sessions, NEW a \in Attempts, session[a] = "bare", Transacts(a)
  PROVE  \E r : Left(a, r)
<1>1. pc[a] = "unsure" /\ ~Redispatchable
  BY DEF Sessions, Exclusive
<1>2. PersistUnknown(a)
  BY <1>1 DEF Transacts, Lookup, LookupAbsent, LookupClaimed, LookupReplay, LookupUnproven,
      LookupUnvalidated, Decide, DenyRequest, ParkForReview, StageApproval, ClaimDirect,
      AdoptLost, Deciding, Load, LoadRefused, LoadReplay, LoadResolvable, LoadUnproven,
      Loading, Resolve, FinishParked, ResolveRejected, RebindReview, StageReviewed,
      ClaimResolved, ClaimLost, Refresh, ConnectionChanged, Resolving, Execute,
      ExecuteClaim, MarkDispatched, DispatchLost, EnterExecutor, Finish, FinishUnwritten,
      UnclearUnfenced, SessionError, Cancel, Running, At
<1> QED BY <1>1, <1>2, AnswerEnds, StopLeaves DEF PersistUnknown, Raise

\* Every other transaction keeps the sessions in order.
LEMMA ProceedKeepsSessions ==
  ASSUME Exclusive, TypeOK, Sessions, NEW a \in Attempts, Transacts(a)
  PROVE  Sessions'
<1>1. Shape(a)
  BY ProceedShape
<1>2. ASSUME session[a] = "bare"
      PROVE  \E r : Left(a, r)
  BY <1>2, BareLeaves
<1> USE DEF Sessions, LiveHoldsLock, Live, TypeOK
<1>3. CASE \E r : Left(a, r)
  BY <1>3 DEF Left, Apart, Freed, Inside
<1>4. CASE session[a] # "bare" /\ pc[a] \in Inside /\ \E place \in Inside : Moved(a, place)
  BY <1>4 DEF Moved, Apart
<1> QED BY <1>1, <1>2, <1>3, <1>4 DEF Shape

\* Sessions and the lock agree, as long as nobody goes on without the lock.
THEOREM SessionsHold == Exclusive => (Spec => []Sessions)
<1> SUFFICES ASSUME Exclusive PROVE Spec => []Sessions
  OBVIOUS
<1>1. Init => Sessions
  BY DEF Init, Inside, Sessions, LiveHoldsLock, Live
<1>2. TypeOK /\ Sessions /\ [Next]_vars => Sessions'
  <2> SUFFICES ASSUME TypeOK, Sessions, [Next]_vars PROVE Sessions'
    OBVIOUS
  <2>1. ASSUME NEW a \in Attempts, Transacts(a)
        PROVE  Sessions'
    BY <2>1, ProceedKeepsSessions
  <2> USE DEF TypeOK, Sessions, LiveHoldsLock, Live
  <2>2. ASSUME NEW a \in Attempts, Acquire(a)
        PROVE  Sessions'
    BY <2>2, GatewayAssumption DEF Acquire, Inside
  <2>3. ASSUME NEW a \in Attempts, Unclear(a)
        PROVE  Sessions'
    BY <2>3 DEF Unclear, Inside
  <2>4. ASSUME NEW a \in Attempts, LoseSession(a)
        PROVE  Sessions'
    BY <2>4 DEF LoseSession, Freed
  <2>5. ASSUME NEW a \in Attempts, Crash(a)
        PROVE  Sessions'
    BY <2>5 DEF Crash, Stop, Freed, Inside
  <2>6. ASSUME NEW a \in Attempts, NEW k, NEW x, Start(a, k, x)
        PROVE  Sessions'
    BY <2>6 DEF Start, Inside
  <2>7. CASE \/ \E p \in Approvals : DecideApproval(p)
             \/ \E p \in Policies : DecideReview(p)
             \/ CloseClaimed \/ UNCHANGED vars
    BY <2>7 DEF DecideApproval, DecideReview, CloseClaimed, attemptVars, vars
  <2> QED BY <2>1, <2>2, <2>3, <2>4, <2>5, <2>6, <2>7 DEF Next, Proceed, Transacts
<1> QED BY <1>1, <1>2, TypeCorrect, PTL DEF Spec

-----------------------------------------------------------------------------
(* The approval a call runs under.                                         *)

\* Statuses from which a call may still be claimed without its approval being
\* looked at again.
Trusting == {"absent", "claimed", "pending_review"} \cup Unproven

\* A call that may be claimed again is not waiting on a person ...
ApprovedKept ==
  row.status \in Trusting => row.approval = None \/ approvals[row.approval] = "approved"

\* ... and what a resolution loaded holds until it claims (_claim_parked_call).
LoadedHolds ==
  \A a \in Attempts :
    Live(a) /\ pc[a] = "decide" /\ kind[a] = "approved" =>
      row.approval = target[a] /\ approvals[target[a]] = "approved"

\* Every resolution of an approval names one (resolve_approved).
Targeted == \A a \in Attempts : kind[a] = "approved" => target[a] \in Approvals

\* What a transaction may do to the approval of the row: a staged one is new and
\* parks the call, a claim is made over a row in trust or under the approval the
\* resolution loaded.
LEMMA RowTrust ==
  ASSUME TypeOK, NEW a \in Attempts, Transacts(a)
  PROVE  /\ \A p \in Approvals : approvals[p] = "approved" => approvals'[p] = "approved"
         /\ \/ row'.approval = row.approval
            \/ At(a, "decide") /\ row'.status = "pending_approval"
         /\ \/ row'.status \notin Trusting
            \/ row.status \in Trusting /\ row'.approval = row.approval
            \/ /\ At(a, "decide") /\ row'.approval = row.approval
               /\ kind[a] = "approved"
         /\ kind' = kind /\ target' = target
         /\ pc'[a] = "decide" /\ kind[a] = "approved" =>
              row'.approval = target[a] /\ approvals[target[a]] = "approved"
<1> USE DEF TypeOK, Trusting, Becomes, At
<1>1. CASE Lookup(a)
  BY <1>1 DEF Lookup, LookupAbsent, LookupClaimed, LookupReplay, LookupUnproven,
     LookupUnvalidated, Replay, Reconcile, Answer, Stop, Unproven, Terminal, Undispatched,
     RetriesUnproven, rowVars, decisionVars, historyVars
<1>2. CASE Decide(a)
  BY <1>2 DEF Decide, DenyRequest, ParkForReview, StageApproval, ClaimDirect, AdoptLost,
     Deciding, Stages, Replay, ReconcileAfterLoss, Reconcile, Raise, Goto, Answer, Stop,
     Unproven, Terminal, rowVars, decisionVars, historyVars
<1>3. CASE Load(a)
  BY <1>3 DEF Load, LoadRefused, LoadReplay, LoadResolvable, LoadUnproven, Loading, Loaded,
     Reconcile, Raise, Goto, Answer, Stop, Unproven, Terminal, rowVars, decisionVars,
     historyVars
<1>4. CASE Resolve(a)
  BY <1>4 DEF Resolve, FinishParked, ResolveRejected, RebindReview, StageReviewed,
     ClaimResolved, ClaimLost, Refresh, ConnectionChanged, Resolving, Resolvable, Reconcile,
     Raise, Goto, Answer, Stop, Unproven, Terminal, Undispatched, rowVars, decisionVars,
     historyVars
<1>5. CASE Execute(a) /\ ~Unclear(a)
  BY <1>5 DEF Execute, ExecuteClaim, MarkDispatched, DispatchLost, EnterExecutor, Finish,
     FinishUnwritten, UnclearUnfenced, PersistUnknown, SessionError, Raise, Goto, Answer,
     Stop, Unproven, Terminal, rowVars, decisionVars, historyVars
<1>6. CASE Cancel(a)
  BY <1>6 DEF Cancel, Raise, Goto, Stop, rowVars, decisionVars
<1> QED BY <1>1, <1>2, <1>3, <1>4, <1>5, <1>6 DEF Transacts

\* Every transaction keeps the approval of the call in order.
LEMMA ProceedKeepsApproval ==
  ASSUME Exclusive, TypeOK, Sessions, ApprovedKept, LoadedHolds, Targeted,
         NEW a \in Attempts, Transacts(a)
  PROVE  ApprovedKept' /\ LoadedHolds' /\ Targeted'
<1>1. Shape(a)
  BY ProceedShape
<1>2. /\ \A p \in Approvals : approvals[p] = "approved" => approvals'[p] = "approved"
      /\ \/ row'.approval = row.approval
         \/ At(a, "decide") /\ row'.status = "pending_approval"
      /\ \/ row'.status \notin Trusting
         \/ row.status \in Trusting /\ row'.approval = row.approval
         \/ /\ At(a, "decide") /\ row'.approval = row.approval
            /\ kind[a] = "approved"
      /\ kind' = kind /\ target' = target
      /\ pc'[a] = "decide" /\ kind[a] = "approved" =>
           row'.approval = target[a] /\ approvals[target[a]] = "approved"
  BY RowTrust
<1>3. At(a, "decide") => Live(a)
  BY DEF At, Connected, Live, Sessions
<1>4. ApprovedKept'
  BY <1>2, <1>3 DEF ApprovedKept, LoadedHolds, Live, At, TypeOK
<1>5. LoadedHolds'
  <2> SUFFICES ASSUME NEW b \in Attempts, Live(b)', pc'[b] = "decide", kind'[b] = "approved"
               PROVE  row'.approval = target'[b] /\ approvals'[target'[b]] = "approved"
    BY DEF LoadedHolds
  <2>1. CASE b = a
    <3>1. row'.approval = target[a] /\ approvals[target[a]] = "approved"
      BY <1>2, <2>1
    <3> QED BY <1>2, <2>1, <3>1 DEF Targeted
  <2>2. CASE b # a
    <3>1. Live(b) /\ pc[b] = "decide"
      BY <1>1, <2>2 DEF Shape, Moved, Left, Apart, Live
    <3>2. ~Live(a)
      BY <2>2, <3>1 DEF Sessions, LiveHoldsLock
    <3> QED BY <1>2, <1>3, <3>1, <3>2 DEF LoadedHolds, Targeted
  <2> QED BY <2>1, <2>2
<1> QED BY <1>2, <1>4, <1>5 DEF Targeted

\* Whoever waited on a person is claimed, and run, only under an approved
\* approval (_claim_parked_call), as long as nobody goes on without the lock.
THEOREM ApprovalsAreKept == Exclusive => (Spec => []ApprovedBeforeRun)
<1> SUFFICES ASSUME Exclusive PROVE Spec => []ApprovedBeforeRun
  OBVIOUS
<1> DEFINE Inv == ApprovedKept /\ LoadedHolds /\ Targeted
<1>1. Init => Inv
  BY DEF Init, ApprovedKept, LoadedHolds, Targeted, Live
<1>2. TypeOK /\ Sessions /\ Inv /\ [Next]_vars => Inv'
  <2> SUFFICES ASSUME TypeOK, Sessions, Inv, [Next]_vars PROVE Inv'
    OBVIOUS
  <2>1. ASSUME NEW a \in Attempts, Transacts(a)
        PROVE  Inv'
    BY <2>1, ProceedKeepsApproval
  <2> USE DEF ApprovedKept, LoadedHolds, Targeted, Live, TypeOK, rowVars, decisionVars
  <2>2. ASSUME NEW a \in Attempts, Acquire(a) \/ Unclear(a)
        PROVE  Inv'
    BY <2>2 DEF Acquire, Unclear
  <2>3. ASSUME NEW a \in Attempts, LoseSession(a) \/ Crash(a)
        PROVE  Inv'
    BY <2>3 DEF LoseSession, Crash, Stop
  <2>4. ASSUME NEW a \in Attempts, NEW k, NEW x, Start(a, k, x)
        PROVE  Inv'
    BY <2>4 DEF Start, Sessions, LiveHoldsLock, Inside
  <2>5. ASSUME NEW p \in Approvals, DecideApproval(p)
        PROVE  Inv'
    BY <2>5 DEF DecideApproval, attemptVars
  <2>6. CASE (\E p \in Policies : DecideReview(p)) \/ CloseClaimed \/ UNCHANGED vars
    BY <2>6 DEF DecideReview, CloseClaimed, Becomes, Trusting, Unproven, attemptVars, vars
  <2> QED BY <2>1, <2>2, <2>3, <2>4, <2>5, <2>6 DEF Next, Proceed, Transacts
<1>3. Inv => ApprovedBeforeRun
  BY DEF ApprovedKept, ApprovedBeforeRun, Trusting, Unproven
<1> QED BY <1>1, <1>2, <1>3, TypeCorrect, SessionsHold, PTL DEF Spec

-----------------------------------------------------------------------------
(* Doubt about a call whose effect cannot be repeated.                     *)

\* The executor was started by attempt a, and a has not answered for it yet.
Ran(a) == Running(a) \/ pc[a] = "cancelled" \/ session[a] = "bare"

\* One attempt at most answers for the one entry; while its executor runs, and
\* once it stopped without an answer, the row is unproven.
DoubtParts ==
  /\ \A a, b \in Attempts : Ran(a) /\ Ran(b) => a = b
  /\ \A a \in Attempts : Ran(a) => effects = 1
  /\ doubt => effects = 1 /\ \A a \in Attempts : ~Running(a)
  /\ \A a \in Attempts : pc[a] = "run" => row.status \in Unproven
  /\ doubt => row.status \in Unproven

\* Sessions, for a tool whose effect cannot be repeated.
LEMMA UnsafeSessions ==
  ASSUME TypeOK, OnceParts, ~Redispatchable
  PROVE  Exclusive /\ \A a \in Attempts : session[a] = "bare" => pc[a] = "unsure"
  BY DEF OnceParts, BareHasRun, Exclusive

\* A transaction that is no ending of an executor starts none, and leaves what is
\* unproven unproven.
LEMMA PassesDoubt ==
  ASSUME TypeOK, ~Redispatchable, NEW a \in Attempts,
         Lookup(a) \/ Decide(a) \/ Load(a) \/ Resolve(a)
  PROVE  /\ effects' = effects /\ doubt' = doubt
         /\ ~Running(a) /\ pc'[a] \notin {"run", "run_unfenced", "cancelled"}
         /\ pc[a] = "look" /\ row.status \in Unproven => row'.status \in Unproven
<1> USE DEF TypeOK, Becomes, At, Running
<1>1. CASE Lookup(a)
  BY <1>1 DEF Lookup, LookupAbsent, LookupClaimed, LookupReplay, LookupUnproven,
     LookupUnvalidated, Replay, Reconcile, Answer, Stop, Unproven, Terminal, Undispatched,
     RetriesUnproven, rowVars, decisionVars, historyVars
<1>2. CASE Decide(a)
  BY <1>2 DEF Decide, DenyRequest, ParkForReview, StageApproval, ClaimDirect, AdoptLost,
     Deciding, Replay, ReconcileAfterLoss, Reconcile, Raise, Goto, Answer, Stop,
     RetriesUnproven, rowVars, decisionVars, historyVars
<1>3. CASE Load(a)
  BY <1>3 DEF Load, LoadRefused, LoadReplay, LoadResolvable, LoadUnproven, Loading,
     Reconcile, Raise, Goto, Answer, Stop, Unproven, RetriesUnproven, rowVars, decisionVars,
     historyVars
<1>4. CASE Resolve(a)
  BY <1>4 DEF Resolve, FinishParked, ResolveRejected, RebindReview, StageReviewed,
     ClaimResolved, ClaimLost, Refresh, ConnectionChanged, Resolving, Reconcile,
     Raise, Goto, Answer, Stop, RetriesUnproven, rowVars, decisionVars, historyVars
<1> QED BY <1>1, <1>2, <1>3, <1>4

\* So it keeps what is known of the doubt.
LEMMA PassingKeepsDoubt ==
  ASSUME TypeOK, OnceParts, DoubtParts, ~Redispatchable, NEW a \in Attempts,
         Lookup(a) \/ Decide(a) \/ Load(a) \/ Resolve(a)
  PROVE  DoubtParts'
<1>1. Shape(a)
  BY ProceedShape DEF Transacts
<1>2. /\ effects' = effects /\ doubt' = doubt
      /\ ~Running(a) /\ pc'[a] \notin {"run", "run_unfenced", "cancelled"}
      /\ pc[a] = "look" /\ row.status \in Unproven => row'.status \in Unproven
  BY PassesDoubt
<1>3. At(a, pc[a]) /\ pc[a] # "unsure"
  BY DEF Lookup, LookupAbsent, LookupClaimed, LookupReplay, LookupUnproven, LookupUnvalidated,
     Decide, DenyRequest, ParkForReview, StageApproval, ClaimDirect, AdoptLost, Deciding,
     Load, LoadRefused, LoadReplay, LoadResolvable, LoadUnproven, Loading,
     Resolve, FinishParked, ResolveRejected, RebindReview, StageReviewed, ClaimResolved,
     ClaimLost, Refresh, ConnectionChanged, Resolving, At
<1>4. Live(a) /\ (effects >= 1 => pc[a] \in {"look", "cancelled"})
  BY <1>2, <1>3, ConnectedIsLive DEF At, OnceParts, EnteredOnce, Running
<1>5. \A b \in Attempts : Ran(b)' => Ran(b)
  BY <1>1, <1>2 DEF Ran, Running, Shape, Moved, Left, Apart
<1>6. \A b \in Attempts : (Running(b)' => Running(b)) /\ (pc'[b] = "run" => pc[b] = "run")
  BY <1>1, <1>2 DEF Running, Shape, Moved, Left, Apart
<1>7. effects = 1 /\ row.status \in Unproven => row'.status \in Unproven
  <2>1. CASE pc[a] = "look"
    BY <1>2, <2>1
  <2>2. CASE pc[a] = "cancelled"
    BY <1>3, <2>2
    DEF Lookup, LookupAbsent, LookupClaimed, LookupReplay, LookupUnproven, LookupUnvalidated,
     Decide, DenyRequest, ParkForReview, StageApproval, ClaimDirect, AdoptLost, Deciding,
     Load, LoadRefused, LoadReplay, LoadResolvable, LoadUnproven, Loading,
     Resolve, FinishParked, ResolveRejected, RebindReview, StageReviewed, ClaimResolved,
     ClaimLost, Refresh, ConnectionChanged, Resolving, At
  <2> QED BY <1>4, <2>1, <2>2
<1>8. \A b \in Attempts : pc[b] = "run" => effects = 1
  BY DEF DoubtParts, Ran, Running
<1> QED BY <1>2, <1>5, <1>6, <1>7, <1>8 DEF DoubtParts

\* A step on the way to the executor, or one that ends without an answer.
LEMMA ApproachKeepsDoubt ==
  ASSUME TypeOK, OnceParts, DoubtParts, NEW a \in Attempts,
         ExecuteClaim(a) \/ MarkDispatched(a) \/ DispatchLost(a) \/ SessionError(a)
  PROVE  DoubtParts'
<1>1. /\ UNCHANGED <<effects, doubt>> /\ ~Running(a)
      /\ row.status \in Unproven => row'.status \in Unproven
  BY DEF ExecuteClaim, MarkDispatched, DispatchLost, SessionError, Running, At, Becomes,
         rowVars, historyVars, Unproven, TypeOK
<1>2. \/ \E place \in {"dispatch", "enter", "unsure"} : Goto(a, place)
      \/ Stop(a, "done", "error")
  BY DEF ExecuteClaim, MarkDispatched, DispatchLost, SessionError, Raise
<1>3. \A b \in Attempts : (Ran(b)' => Ran(b)) /\ (Running(b)' => Running(b))
  BY <1>2 DEF Ran, Running, Goto, Stop, TypeOK
<1>4. \A b \in Attempts : pc'[b] = "run" => pc[b] = "run"
  BY <1>2 DEF Goto, Stop, TypeOK
<1> QED BY <1>1, <1>3, <1>4 DEF DoubtParts

\* The one entry: nothing had run, and the row says the call is executing.
LEMMA EntryKeepsDoubt ==
  ASSUME TypeOK, OnceParts, DoubtParts, NEW a \in Attempts, EnterExecutor(a)
  PROVE  DoubtParts'
<1>1. Live(a) /\ effects = 0 /\ effects' = 1
  BY ConnectedIsLive DEF EnterExecutor, At
<1>2. UNCHANGED <<row, doubt, session>> /\ ~doubt
  BY <1>1 DEF EnterExecutor, Goto, rowVars, DoubtParts
<1>3. \A b \in Attempts : ~Ran(b)
  BY <1>1 DEF DoubtParts
<1>4. \/ pc[a] = "enter" /\ pc' = [pc EXCEPT ![a] = "run"]
      \/ pc[a] = "unfenced" /\ pc' = [pc EXCEPT ![a] = "run_unfenced"]
  BY DEF EnterExecutor, Goto, At
<1>5. pc[a] = "enter" => row.status \in Unproven
  BY <1>1 DEF OnceParts, ClaimIsHeld, Unproven
<1>6. \A b \in Attempts : Ran(b)' => b = a
  BY <1>2, <1>3, <1>4 DEF Ran, Running, TypeOK
<1>7. \A b \in Attempts : pc'[b] = "run" => b = a /\ pc[a] = "enter"
  BY <1>3, <1>4 DEF Ran, Running, TypeOK
<1> QED BY <1>1, <1>2, <1>5, <1>6, <1>7 DEF DoubtParts

\* An executor ends: with an answer, when there is no doubt, or without one.
LEMMA EndingKeepsDoubt ==
  ASSUME TypeOK, OnceParts, DoubtParts, ~Redispatchable, NEW a \in Attempts,
         \/ Finish(a) \/ FinishUnwritten(a) \/ Unclear(a) \/ UnclearUnfenced(a)
         \/ PersistUnknown(a) \/ Cancel(a) \/ Crash(a)
  PROVE  DoubtParts'
<1>1. /\ effects' = effects
      /\ doubt' => doubt \/ pc[a] = "run"
      /\ \/ row'.status = row.status
         \/ Running(a) /\ ~doubt'
         \/ row.status = "executing" /\ row'.status \in Unproven
  <2>1. CASE Finish(a) \/ UnclearUnfenced(a)
    BY <2>1 DEF Finish, UnclearUnfenced, Running, At, DoubtParts, historyVars
  <2>2. CASE FinishUnwritten(a) \/ Cancel(a) \/ Crash(a)
    BY <2>2 DEF FinishUnwritten, Cancel, Crash, rowVars, TypeOK
  <2>3. CASE Unclear(a)
    BY <2>3 DEF Unclear, rowVars
  <2>4. CASE PersistUnknown(a)
    BY <2>4 DEF PersistUnknown, Becomes, Unproven, historyVars, TypeOK
  <2> QED BY <2>1, <2>2, <2>3, <2>4
<1>2. /\ \A b \in Attempts \ {a} : pc'[b] = pc[b] /\ session'[b] = session[b]
      /\ ~Running(a)' /\ (Ran(a)' => Ran(a))
  BY UnsafeAnswers
  DEF Finish, FinishUnwritten, Unclear, UnclearUnfenced, PersistUnknown, Cancel, Crash, Raise,
      Stop, Goto, Ran, Running, TypeOK
<1>3. \A b \in Attempts : (Ran(b)' => Ran(b)) /\ (Running(b)' => Running(b) /\ b # a)
  BY <1>2 DEF Ran, Running
<1>4. pc[a] = "run" => Ran(a) /\ effects = 1 /\ \A b \in Attempts : Running(b) => b = a
  BY DEF DoubtParts, Ran, Running
<1>5. Running(a) => \A b \in Attempts : Running(b) => b = a
  BY DEF DoubtParts, Ran
<1>6. \A b \in Attempts : pc'[b] = "run" => pc[b] = "run" /\ b # a /\ Running(b)
  BY <1>2 DEF Running
<1> QED BY <1>1, <1>3, <1>4, <1>5, <1>6 DEF DoubtParts, Unproven

\* What is known of the one entry and of the doubt about it is inductive.
LEMMA DoubtInductive == Spec => [](~Redispatchable => OnceParts /\ DoubtParts)
<1> DEFINE Inv == ~Redispatchable => OnceParts /\ DoubtParts
<1>1. Init => (~Redispatchable => DoubtParts)
  BY DEF Init, DoubtParts, Ran, Running
<1>2. TypeOK /\ OnceInv /\ (~Redispatchable => DoubtParts) /\ [Next]_vars
        => (~Redispatchable => DoubtParts)'
  <2> SUFFICES ASSUME TypeOK, OnceParts, DoubtParts, ~Redispatchable, [Next]_vars
               PROVE  DoubtParts'
    BY DEF OnceInv, OnceParts
  <2>1. ASSUME NEW a \in Attempts, Lookup(a) \/ Decide(a) \/ Load(a) \/ Resolve(a)
        PROVE  DoubtParts'
    BY <2>1, PassingKeepsDoubt
  <2>2. ASSUME NEW a \in Attempts, Execute(a) \/ Cancel(a) \/ Crash(a)
        PROVE  DoubtParts'
    BY <2>2, ApproachKeepsDoubt, EntryKeepsDoubt, EndingKeepsDoubt DEF Execute
  <2> USE DEF DoubtParts, Ran, Running, TypeOK, rowVars, historyVars
  <2>3. ASSUME NEW a \in Attempts, Acquire(a) \/ LoseSession(a)
        PROVE  DoubtParts'
    BY <2>3 DEF Acquire, LoseSession
  <2>4. ASSUME NEW a \in Attempts, NEW k, NEW x, Start(a, k, x)
        PROVE  DoubtParts'
    BY <2>4 DEF Start
  <2>5. CASE \/ \E p \in Approvals : DecideApproval(p)
             \/ \E p \in Policies : DecideReview(p)
             \/ UNCHANGED vars
    BY <2>5 DEF DecideApproval, DecideReview, attemptVars, vars
  <2>6. CASE CloseClaimed
    BY <2>6 DEF CloseClaimed, Unproven, attemptVars
  <2> QED BY <2>1, <2>2, <2>3, <2>4, <2>5, <2>6 DEF Next, Proceed
<1>3. OnceInv /\ (~Redispatchable => DoubtParts) => Inv
  BY DEF OnceInv, OnceParts
<1> QED BY <1>1, <1>2, <1>3, TypeCorrect, OnceInductive, PTL DEF Spec

\* What may have happened is never recorded as not having happened, whatever
\* sessions are lost, workers die or claims are rolled back (_persist_execution_unknown).
THEOREM DoubtIsRecorded == Spec => []DoubtIsKept
<1>1. (~Redispatchable => OnceParts /\ DoubtParts) => DoubtIsKept
  BY DEF DoubtIsKept, DoubtParts
<1> QED BY <1>1, DoubtInductive, PTL

-----------------------------------------------------------------------------
(* The answers.                                                            *)

\* The row has its last status ...
Final ==
  row.status \in Terminal \/ (row.status = "execution_unknown" /\ ~Redispatchable)

\* ... and nobody with the lock is on its way to another.
Settled ==
  /\ Final
  /\ \A a \in Attempts : Live(a) => pc[a] \in {"look", "unsure", "cancelled"}

\* Replies that say how the call ended, and what the row says then.
Told(a) ==
  \/ reply[a] \in {"executed", "failed", "denied", "rejected"}
  \/ reply[a] = "unknown" /\ ~Redispatchable

StatusOf(r) ==
  CASE r = "executed" -> "completed"
    [] r = "unknown"  -> "execution_unknown"
    [] OTHER          -> r

AnswerParts == \A a \in Attempts : Told(a) => Settled /\ row.status = StatusOf(reply[a])

\* A replay of a terminal row tells its status (_replayed_outcome).
LEMMA ReplayTells ==
  ASSUME NEW s \in Terminal
  PROVE  StatusOf(ReplayOf(s)) = s /\ ReplayOf(s) # "unknown"
  BY DEF StatusOf, ReplayOf, Terminal

\* What a step of an attempt answers, it has written to the row or read from it.
Truthful(a) ==
  reply'[a] = reply[a] \/ (Told(a)' => Final' /\ row'.status = StatusOf(reply'[a]))

\* An answer is truthful when the row says what it tells.
LEMMA AnswerTells ==
  ASSUME TypeOK, NEW a \in Attempts, NEW r, Answer(a, r) \/ Stop(a, "done", r),
         \/ r \notin {"executed", "failed", "denied", "rejected", "unknown"}
         \/ row'.status = StatusOf(r) /\ (row'.status \in Terminal \/ r = "unknown")
         \/ r = "unknown" /\ Redispatchable
  PROVE  Truthful(a)
<1>1. reply'[a] = r
  BY DEF Answer, Stop, TypeOK
<1> QED BY <1>1 DEF Truthful, Told, Final, StatusOf

\* A reconciled dispatch is answered as it is recorded (_reconcile_unproven_dispatch).
LEMMA ReconcileTells ==
  ASSUME TypeOK, NEW a \in Attempts, NEW onward, Reconcile(a, onward)
  PROVE  Truthful(a)
<1>1. CASE UNCHANGED reply
  BY <1>1 DEF Truthful
<1>2. CASE Becomes("failed") /\ Answer(a, "failed")
  BY <1>2, AnswerTells DEF Becomes, StatusOf, Terminal, TypeOK
<1>3. CASE Becomes("execution_unknown") /\ Answer(a, "unknown")
  BY <1>3, AnswerTells DEF Becomes, StatusOf, TypeOK
<1> QED BY <1>1, <1>2, <1>3 DEF Reconcile

\* Every transaction answers truthfully.
LEMMA ProceedTells ==
  ASSUME TypeOK, NEW a \in Attempts, Transacts(a)
  PROVE  Truthful(a)
<1> USE AnswerTells
<1>a. ASSUME row.status \in Terminal, row' = row, Answer(a, ReplayOf(row.status))
      PROVE  Truthful(a)
  BY <1>a, ReplayTells
<1>b. ASSUME NEW s \in {"failed", "denied", "rejected"}, Becomes(s), Answer(a, s)
      PROVE  Truthful(a)
  BY <1>b DEF Becomes, StatusOf, Terminal, TypeOK
<1>c. ASSUME NEW r \in {"needs_approval", "needs_review", "mismatch", "error"},
             Answer(a, r) \/ Stop(a, "done", r)
      PROVE  Truthful(a)
  BY <1>c
<1>d. ASSUME UNCHANGED reply
      PROVE  Truthful(a)
  BY <1>d DEF Truthful
<1>e. ASSUME Becomes("execution_unknown"), Answer(a, "unknown") \/ Stop(a, "done", "unknown")
      PROVE  Truthful(a)
  BY <1>e DEF Becomes, StatusOf, TypeOK
<1>r. ASSUME Replay(a)
      PROVE  Truthful(a)
  BY <1>a, <1>c, <1>r DEF Replay, rowVars
<1>l. ASSUME ReconcileAfterLoss(a)
      PROVE  Truthful(a)
  BY <1>c, <1>l, ReconcileTells DEF ReconcileAfterLoss, Raise
<1>1. CASE Lookup(a)
  BY <1>1, <1>b, <1>c, <1>d, <1>e, <1>r, ReconcileTells
  DEF Lookup, LookupAbsent, LookupClaimed, LookupReplay, LookupUnproven, LookupUnvalidated
<1>2. CASE Decide(a)
  BY <1>2, <1>b, <1>c, <1>d, <1>r, <1>l
  DEF Decide, DenyRequest, ParkForReview, StageApproval, ClaimDirect, AdoptLost, Goto
<1>3. CASE Load(a)
  BY <1>3, <1>a, <1>c, <1>d, <1>e, ReconcileTells
  DEF Load, LoadRefused, LoadReplay, LoadResolvable, LoadUnproven, Goto, Raise, rowVars
<1>4. CASE Resolve(a)
  BY <1>4, <1>a, <1>b, <1>c, <1>d, ReconcileTells
  DEF Resolve, FinishParked, ResolveRejected, RebindReview, StageReviewed, ClaimResolved,
      ClaimLost, Refresh, ConnectionChanged, Goto, Raise, rowVars
<1>5. CASE Execute(a) /\ ~Unclear(a)
  <2>1. CASE Finish(a)
    BY <1>b, <2>1 DEF Finish, Becomes, StatusOf, Terminal, TypeOK
  <2>2. CASE PersistUnknown(a)
    <3>1. CASE Raise(a)
      BY <1>c, <3>1 DEF Raise
    <3>2. CASE row.status \in Terminal /\ Answer(a, ReplayOf(row.status))
      BY <1>a, <2>2, <3>2 DEF PersistUnknown, Terminal
    <3>3. CASE row.status \in Unproven /\ row.status \notin Terminal /\ Answer(a, "unknown")
      <4>1. row'.status = "execution_unknown"
        BY <2>2, <3>3 DEF PersistUnknown, Becomes, Unproven, TypeOK
      <4> QED BY <3>3, <4>1 DEF StatusOf
    <3> QED BY <2>2, <3>1, <3>2, <3>3 DEF PersistUnknown
  <2>3. CASE ~Finish(a) /\ ~PersistUnknown(a)
    BY <1>5, <1>b, <1>c, <1>d, <2>3
    DEF Execute, ExecuteClaim, MarkDispatched, DispatchLost, EnterExecutor, FinishUnwritten,
        UnclearUnfenced, SessionError, Goto, Raise
  <2> QED BY <1>5, <2>1, <2>2, <2>3
<1>6. CASE Cancel(a)
  BY <1>6, <1>c, <1>d DEF Cancel, Goto, Raise
<1> QED BY <1>1, <1>2, <1>3, <1>4, <1>5, <1>6 DEF Transacts

\* Without a connection an attempt only fences, gives up, or raises.
LEMMA Disconnected ==
  ASSUME NEW a \in Attempts, Transacts(a), ~Connected(a)
  PROVE  MarkDispatched(a) \/ DispatchLost(a) \/ FinishUnwritten(a) \/ SessionError(a)
  BY DEF Transacts, Lookup, LookupAbsent, LookupClaimed, LookupReplay, LookupUnproven,
     LookupUnvalidated, Decide, DenyRequest, ParkForReview, StageApproval, ClaimDirect,
     AdoptLost, Deciding, Load, LoadRefused, LoadReplay, LoadResolvable, LoadUnproven,
     Loading, Resolve, FinishParked, ResolveRejected, RebindReview, StageReviewed,
     ClaimResolved, ClaimLost, Refresh, ConnectionChanged, Resolving, Execute, ExecuteClaim,
     EnterExecutor, Finish, PersistUnknown, UnclearUnfenced, Cancel, At

\* A settled row is read, never written: by replays, by reloads, by recordings
\* that come late; and who reads it does not go on to run the call.
LEMMA SettledStays ==
  ASSUME Exclusive, TypeOK, Sessions, Settled, NEW a \in Attempts, Transacts(a)
  PROVE  row'.status = row.status /\ (Live(a)' => pc'[a] \in {"look", "unsure", "cancelled"})
<1> USE DEF Settled, Final
<1>1. CASE At(a, "look")
  <2>1. Live(a)
    BY <1>1 DEF At, Connected, Live, Sessions
  <2>2. Lookup(a) \/ Load(a)
    BY <1>1 DEF Transacts, Decide, DenyRequest, ParkForReview, StageApproval, ClaimDirect,
       AdoptLost, Deciding, Resolve, FinishParked, ResolveRejected, RebindReview,
       StageReviewed, ClaimResolved, ClaimLost, Refresh, ConnectionChanged, Resolving,
       Execute, ExecuteClaim, MarkDispatched, DispatchLost, EnterExecutor, Finish,
       FinishUnwritten, UnclearUnfenced, PersistUnknown, SessionError, Cancel, Running, At,
       Connected
  <2> USE DEF TypeOK, Becomes, Live, Terminal
  <2>3. CASE Lookup(a)
    BY <2>3 DEF Lookup, LookupAbsent, LookupClaimed, LookupReplay, LookupUnproven,
       LookupUnvalidated, Replay, Reconcile, Answer, Stop, Unproven, Undispatched, rowVars
  <2>4. CASE Load(a)
    BY <2>4 DEF Load, LoadRefused, LoadReplay, LoadResolvable, LoadUnproven, Resolvable,
       Reconcile, Answer, Raise, Stop, Unproven, Undispatched, rowVars
  <2> QED BY <2>2, <2>3, <2>4
<1>2. CASE At(a, "unsure") \/ At(a, "cancelled")
  <2>1. PersistUnknown(a)
    BY <1>2 DEF Transacts, Lookup, LookupAbsent, LookupClaimed, LookupReplay, LookupUnproven,
       LookupUnvalidated, Decide, DenyRequest, ParkForReview, StageApproval, ClaimDirect,
       AdoptLost, Deciding, Load, LoadRefused, LoadReplay, LoadResolvable, LoadUnproven,
       Loading, Resolve, FinishParked, ResolveRejected, RebindReview,
       StageReviewed, ClaimResolved, ClaimLost, Refresh, ConnectionChanged, Resolving,
       Execute, ExecuteClaim, MarkDispatched, DispatchLost, EnterExecutor, Finish,
       FinishUnwritten, UnclearUnfenced, SessionError, Cancel, Running, At, Connected
  <2>2. row' = row
    BY <2>1 DEF PersistUnknown, Terminal
  <2> QED BY <2>1, <2>2 DEF PersistUnknown, Answer, Raise, Stop, Live, TypeOK
<1>3. CASE ~At(a, "look") /\ ~At(a, "unsure") /\ ~At(a, "cancelled")
  <2>1. ~Connected(a)
    BY <1>3 DEF At, Connected, Live, Sessions
  <2>2. DispatchLost(a) \/ FinishUnwritten(a) \/ SessionError(a)
    BY <2>1, Disconnected DEF MarkDispatched, Terminal
  <2> QED BY <2>1, <2>2 DEF DispatchLost, FinishUnwritten, SessionError, Goto, Raise, Stop,
       Live, Connected, rowVars, TypeOK
<1> QED BY <1>1, <1>2, <1>3

\* An answer that tells how the call ended leaves the row settled: whoever gives
\* it held the lock, or only recorded the end of the one executor there was.
LEMMA AnswerSettles ==
  ASSUME Exclusive, TypeOK, Sessions, ~Redispatchable => OnceParts /\ DoubtParts,
         NEW a \in Attempts, Transacts(a), reply'[a] # reply[a], Told(a)'
  PROVE  Settled'
<1>1. Final'
  BY ProceedTells DEF Truthful
<1>2. PICK r : Left(a, r)
  BY ProceedShape DEF Shape, Told
<1>3. CASE Live(a)
  BY <1>1, <1>2, <1>3 DEF Settled, Left, Apart, Live, Sessions, LiveHoldsLock, TypeOK
<1>4. CASE ~Live(a)
  <2>1. Connected(a)
    <3> SUFFICES ASSUME ~Connected(a) PROVE FALSE
      OBVIOUS
    <3>1. reply'[a] = "error"
      BY Disconnected
      DEF MarkDispatched, DispatchLost, FinishUnwritten, SessionError, Goto, Raise, Stop, TypeOK
    <3> QED BY <3>1 DEF Told
  <2>2. session[a] = "bare" /\ ~Redispatchable
    BY <1>4, <2>1 DEF Connected, Live, Sessions, Exclusive
  <2>3. effects >= 1
    BY <2>2 DEF OnceParts, BareHasRun
  <2>4. \A b \in Attempts : Running(b) => b = a
    BY <2>2 DEF DoubtParts, Ran
  <2> QED BY <1>1, <1>2, <2>2, <2>3, <2>4
          DEF Settled, Left, Apart, Live, OnceParts, EnteredOnce, Running, TypeOK
<1> QED BY <1>3, <1>4

\* Every transaction keeps what was told.
LEMMA ProceedKeepsAnswers ==
  ASSUME Exclusive, TypeOK, Sessions, ~Redispatchable => OnceParts /\ DoubtParts,
         AnswerParts, NEW a \in Attempts, Transacts(a)
  PROVE  AnswerParts'
<1>1. Shape(a)
  BY ProceedShape
<1>2. Settled => Settled' /\ row'.status = row.status
  <2> SUFFICES ASSUME Settled PROVE Settled' /\ row'.status = row.status
    OBVIOUS
  <2>1. row'.status = row.status /\ (Live(a)' => pc'[a] \in {"look", "unsure", "cancelled"})
    BY SettledStays
  <2>2. \A b \in Attempts \ {a} : pc'[b] = pc[b] /\ session'[b] = session[b]
    BY <1>1 DEF Shape, Moved, Left, Apart
  <2> QED BY <2>1, <2>2 DEF Settled, Final, Live
<1>3. ASSUME NEW b \in Attempts, Told(b)'
      PROVE  Settled' /\ row'.status = StatusOf(reply'[b])
  <2>1. CASE reply'[b] = reply[b]
    BY <1>2, <1>3, <2>1 DEF AnswerParts, Told
  <2>2. CASE reply'[b] # reply[b]
    <3>1. b = a
      BY <1>1, <2>2 DEF Shape, Moved, Left, Apart
    <3>2. Settled'
      BY <1>3, <2>2, <3>1, AnswerSettles
    <3>3. Truthful(a)
      BY ProceedTells
    <3> QED BY <1>3, <2>2, <3>1, <3>2, <3>3 DEF Truthful
  <2> QED BY <2>1, <2>2
<1> QED BY <1>3 DEF AnswerParts

\* Everything the gateway told its callers stays true of the row, as long as
\* nobody goes on without the lock (_bound_result, _replayed_outcome).
THEOREM AnswersAreDurable == Exclusive => (Spec => []AnswerIsDurable)
<1> SUFFICES ASSUME Exclusive PROVE Spec => []AnswerIsDurable
  OBVIOUS
<1> DEFINE Once == ~Redispatchable => OnceParts /\ DoubtParts
<1>1. Init => AnswerParts
  BY DEF Init, AnswerParts, Told
<1>2. TypeOK /\ Sessions /\ Once /\ AnswerParts /\ [Next]_vars => AnswerParts'
  <2> SUFFICES ASSUME TypeOK, Sessions, Once, AnswerParts, [Next]_vars PROVE AnswerParts'
    OBVIOUS
  <2>1. ASSUME NEW a \in Attempts, Transacts(a)
        PROVE  AnswerParts'
    BY <2>1, ProceedKeepsAnswers
  <2> USE DEF AnswerParts, Told, Settled, Final, Live, TypeOK, rowVars, decisionVars
  <2>2. ASSUME NEW a \in Attempts, Acquire(a) \/ Unclear(a)
        PROVE  AnswerParts'
    BY <2>2 DEF Acquire, Unclear
  <2>3. ASSUME NEW a \in Attempts, LoseSession(a) \/ Crash(a)
        PROVE  AnswerParts'
    BY <2>3 DEF LoseSession, Crash, Stop
  <2>4. ASSUME NEW a \in Attempts, NEW k, NEW x, Start(a, k, x)
        PROVE  AnswerParts'
    BY <2>4 DEF Start, Sessions, LiveHoldsLock, Inside
  <2>5. CASE \/ \E p \in Approvals : DecideApproval(p)
             \/ \E p \in Policies : DecideReview(p)
             \/ CloseClaimed \/ UNCHANGED vars
    BY <2>5 DEF DecideApproval, DecideReview, CloseClaimed, Terminal, attemptVars, vars
  <2> QED BY <2>1, <2>2, <2>3, <2>4, <2>5 DEF Next, Proceed, Transacts
<1>3. AnswerParts => AnswerIsDurable
  BY DEF AnswerParts, AnswerIsDurable, Told, StatusOf
<1> QED BY <1>1, <1>2, <1>3, TypeCorrect, SessionsHold, DoubtInductive, PTL DEF Spec

-----------------------------------------------------------------------------
(* The budget, while no attempt loses its session.                         *)

\* What a dispatch may still spend.
Spent == IF Redispatchable THEN MaxDispatch ELSE 1

\* Statuses from which the call may be dispatched, and places before the fence.
Open == {"absent", "claimed"} \cup Parked
Before == {"deny", "decide", "claimed", "ready", "dispatch"}

\* Whatever may still be dispatched has budget left.
BudgetParts ==
  /\ dispatches <= Spent
  /\ row.status \in Open => dispatches < Spent
  /\ \A a \in Attempts : pc[a] \in Before => dispatches < Spent

\* A row is opened again, and a place before the fence reached, only with budget
\* left; the fence is the one place that spends it.
LEMMA ProceedSpends ==
  ASSUME TypeOK, BudgetParts, NEW a \in Attempts, Transacts(a)
  PROVE  \/ /\ dispatches' = dispatches
            /\ row'.status \in Open \/ pc'[a] \in Before => dispatches < Spent
         \/ /\ dispatches' = dispatches + 1 /\ dispatches < Spent
            /\ row'.status \notin Open /\ pc'[a] \notin Before
<1> USE DEF TypeOK, Becomes, At, Before, Open, Parked, BudgetParts
<1>1. CASE Lookup(a)
  BY <1>1 DEF Lookup, LookupAbsent, LookupClaimed, LookupReplay, LookupUnproven, Spent,
     LookupUnvalidated, Replay, Reconcile, Answer, Stop, Unproven, Terminal, Undispatched,
     RetriesUnproven, rowVars, decisionVars, historyVars
<1>2. CASE Decide(a)
  BY <1>2 DEF Decide, DenyRequest, ParkForReview, StageApproval, ClaimDirect, AdoptLost,
     Deciding, rowVars, ReconcileAfterLoss, Reconcile, Replay
<1>3. CASE Load(a)
  BY <1>3 DEF Load, LoadRefused, LoadReplay, LoadResolvable, LoadUnproven, Loading, Spent,
     Resolvable, Reconcile, Raise, Goto, Answer, Stop, Unproven, Terminal, Undispatched,
     rowVars, decisionVars, historyVars
<1>4. CASE Resolve(a)
  BY <1>4 DEF Resolve, FinishParked, ResolveRejected, RebindReview, StageReviewed,
     ClaimResolved, ClaimLost, Refresh, ConnectionChanged, Resolving, Resolvable, Reconcile,
     Spent, Raise, Goto, Answer, Stop, Unproven, Terminal, Undispatched, rowVars, decisionVars,
     historyVars
<1>5. CASE Execute(a) /\ ~Unclear(a)
  BY <1>5 DEF Execute, ExecuteClaim, MarkDispatched, DispatchLost, EnterExecutor, Finish,
     FinishUnwritten, UnclearUnfenced, PersistUnknown, SessionError, Raise, Goto, Answer,
     Stop, Unproven, Terminal, rowVars, decisionVars, historyVars
<1>6. CASE Cancel(a)
  BY <1>6 DEF Cancel, Raise, Goto, Stop, rowVars, decisionVars
<1> QED BY <1>1, <1>2, <1>3, <1>4, <1>5, <1>6 DEF Transacts

\* Alone inside: while sessions do not fail, whoever is inside is the holder.
LEMMA AloneInside ==
  ASSUME Sessions, ~SessionsFail, NEW a \in Attempts, NEW b \in Attempts,
         pc[a] \in Inside, pc[b] \in Inside
  PROVE  a = b /\ Live(a)
  BY DEF Sessions, LiveHoldsLock

\* What may still be dispatched keeps budget for it (_mark_dispatched).
LEMMA BudgetHolds == ~SessionsFail => (Spec => []BudgetParts)
<1> SUFFICES ASSUME ~SessionsFail PROVE Spec => []BudgetParts
  OBVIOUS
<1>0. Exclusive
  BY DEF Exclusive
<1>1. Init => BudgetParts
  BY GatewayAssumption DEF Init, BudgetParts, Spent, Before
<1>2. TypeOK /\ Sessions /\ BudgetParts /\ [Next]_vars => BudgetParts'
  <2> SUFFICES ASSUME TypeOK, Sessions, BudgetParts, [Next]_vars PROVE BudgetParts'
    OBVIOUS
  <2>1. ASSUME NEW a \in Attempts, Transacts(a)
        PROVE  BudgetParts'
    <3>1. Shape(a)
      BY <2>1, ProceedShape
    <3>2. \/ /\ dispatches' = dispatches
             /\ row'.status \in Open \/ pc'[a] \in Before => dispatches < Spent
          \/ /\ dispatches' = dispatches + 1 /\ dispatches < Spent
             /\ row'.status \notin Open /\ pc'[a] \notin Before
      BY <2>1, ProceedSpends
    <3>3. \A b \in Attempts \ {a} : pc'[b] \notin Before
      BY <3>1, AloneInside DEF Shape, Moved, Left, Apart, Before, Inside
    <3> QED BY <3>2, <3>3, GatewayAssumption DEF BudgetParts, Spent, TypeOK
  <2> USE DEF BudgetParts, Spent, Before, TypeOK, rowVars, historyVars
  <2>2. ASSUME NEW a \in Attempts, Acquire(a) \/ Unclear(a)
        PROVE  BudgetParts'
    BY <2>2 DEF Acquire, Unclear
  <2>3. ASSUME NEW a \in Attempts, LoseSession(a) \/ Crash(a)
        PROVE  BudgetParts'
    BY <2>3 DEF LoseSession, Crash, Stop
  <2>4. ASSUME NEW a \in Attempts, NEW k, NEW x, Start(a, k, x)
        PROVE  BudgetParts'
    BY <2>4 DEF Start
  <2>5. CASE \/ \E p \in Approvals : DecideApproval(p)
             \/ \E p \in Policies : DecideReview(p)
             \/ CloseClaimed \/ UNCHANGED vars
    BY <2>5 DEF DecideApproval, DecideReview, CloseClaimed, Becomes, Open, Parked,
       attemptVars, vars
  <2> QED BY <2>1, <2>2, <2>3, <2>4, <2>5 DEF Next, Proceed, Transacts
<1> QED BY <1>0, <1>1, <1>2, TypeCorrect, SessionsHold, PTL DEF Spec

\* One invocation is never dispatched more often than MAX_DISPATCH_ATTEMPTS, and
\* a claim has budget left, as long as no attempt loses its session: an attempt
\* without one may still pass the fence (_mark_dispatched) and the holder, who
\* loaded the row before, then opens it again (_finish_parked_call).
THEOREM BudgetIsKept == ~SessionsFail => (Spec => []DispatchBudget)
<1>1. TypeOK /\ BudgetParts => DispatchBudget
  BY GatewayAssumption DEF BudgetParts, DispatchBudget, Spent, Open, TypeOK
<1> QED BY <1>1, BudgetHolds, TypeCorrect, PTL

-----------------------------------------------------------------------------
(* The refinement of ToolEffect, while no attempt loses its session and no  *)
(* command writes the row outside the lock.                                *)

\* What an attempt knows of the row from what it last read of it.
Knows(a) ==
  /\ pc[a] = "deny" => Stages(a)
  /\ pc[a] = "decide" =>
       IF kind[a] = "request" THEN Stages(a) ELSE row.status \in Resolvable(a)
  /\ pc[a] \in {"claimed", "ready", "dispatch"} => row.status = "claimed"
  /\ pc[a] \in {"enter", "run", "cancelled", "unsure"} => row.status = "executing"
  /\ pc[a] = "enter" => effects < dispatches
  /\ pc[a] \notin {"unfenced", "run_unfenced"}

PromiseParts == effects <= dispatches /\ \A a \in Attempts : Knows(a)

\* The abstract phase of a row's status.
PhaseOf(s) ==
  CASE s = "executing"         -> "running"
    [] s = "execution_unknown" -> "unproven"
    [] s \in Terminal          -> s
    [] OTHER                   -> "open"

\* The steps of ToolEffect, in terms of the row.
Effects ==
  \/ PhaseOf(row'.status) = PhaseOf(row.status) /\ dispatches' = dispatches /\ effects' = effects
  \/ /\ row.status \in Open /\ row'.status \in Terminal \ {"completed"}
     /\ dispatches' = dispatches /\ effects' = effects
  \/ /\ row.status = "claimed" /\ row'.status = "executing"
     /\ dispatches < Spent /\ dispatches' = dispatches + 1 /\ effects' = effects
  \/ /\ row' = row /\ row.status = "executing"
     /\ effects < dispatches /\ effects' = effects + 1 /\ dispatches' = dispatches
  \/ /\ row.status = "executing" /\ row'.status \in {"completed", "failed", "execution_unknown"}
     /\ dispatches' = dispatches /\ effects' = effects
  \/ /\ row.status \in Unproven /\ Redispatchable
     /\ row'.status = "failed" \/ (row'.status = "claimed" /\ dispatches < MaxDispatch)
     /\ dispatches' = dispatches /\ effects' = effects

\* Each of them is a step, or a stutter, of ToolEffect.
LEMMA EffectsImplement ==
  ASSUME TypeOK, Effects
  PROVE  [Effect!EffectNext]_(Effect!effectVars)
  BY DEF Effects, PhaseOf, Effect!EffectNext, Effect!Refuse, Effect!Announce, Effect!Begin,
         Effect!Conclude, Effect!Doubt, Effect!Recover, Effect!effectVars, Effect!Closed,
         Effect!Budget, Spent, Open, Unproven, Terminal, Parked, TypeOK

\* Every transaction leaves its attempt knowing the row, and is such a step.
LEMMA ProceedPromises ==
  ASSUME TypeOK, BudgetParts, effects <= dispatches, NEW a \in Attempts, Knows(a), Live(a),
         Transacts(a)
  PROVE  Effects /\ Knows(a)' /\ effects' <= dispatches'
<1> USE DEF TypeOK, Becomes, At, Connected, Live, Effects, PhaseOf, Knows, Stages, Resolvable,
            Open, Unproven, Terminal, Parked, Undispatched, rowVars, decisionVars, historyVars
<1>1. CASE Lookup(a)
  BY <1>1, ZenonT(60) DEF Lookup, LookupAbsent, LookupClaimed, LookupReplay, LookupUnproven,
     LookupUnvalidated, Replay, Reconcile, Answer, Stop
<1>2. CASE Decide(a)
  BY <1>2 DEF Decide, DenyRequest, ParkForReview, StageApproval, ClaimDirect, AdoptLost,
     Deciding, Answer, Goto, Stop
<1>3. CASE Load(a)
  BY <1>3, ZenonT(60) DEF Load, LoadRefused, LoadReplay, LoadResolvable, LoadUnproven, Loading,
     Reconcile, Raise, Goto, Answer, Stop
<1>4. CASE Resolve(a)
  BY <1>4 DEF Resolve, FinishParked, ResolveRejected, RebindReview, StageReviewed,
     ClaimResolved, ClaimLost, Refresh, ConnectionChanged, Resolving, Goto, Answer, Stop
<1>5. CASE Execute(a) /\ ~Unclear(a)
  BY <1>5 DEF Execute, ExecuteClaim, MarkDispatched, DispatchLost, EnterExecutor, Finish,
     FinishUnwritten, UnclearUnfenced, PersistUnknown, SessionError, Running, Raise, Goto,
     Answer, Stop, BudgetParts, Before
<1>6. CASE Cancel(a)
  BY <1>6 DEF Cancel, Raise, Goto, Stop, Running
<1> QED BY <1>1, <1>2, <1>3, <1>4, <1>5, <1>6 DEF Transacts

\* The attempt does not move, or to where it knows nothing new.
Rests(a) ==
  \/ pc'[a] = pc[a] /\ kind'[a] = kind[a] /\ adopt'[a] = adopt[a]
  \/ pc'[a] \notin Inside \ {"look"}
  \/ pc[a] = "run" /\ pc'[a] = "unsure"

\* It still knows the row, if that did not change.
LEMMA RestKnows ==
  ASSUME NEW a \in Attempts, Knows(a), Rests(a), UNCHANGED <<row, dispatches, effects>>
  PROVE  Knows(a)'
  BY DEF Knows, Stages, Resolvable, Rests, Inside

\* The budget and what the attempts know, together, survive every step.
LEMMA NextPromises ==
  ASSUME ~SessionsFail, ~RollbackRuns, TypeOK, Sessions, BudgetParts, PromiseParts, [Next]_vars
  PROVE  PromiseParts' /\ [Effect!EffectNext]_(Effect!effectVars)
<1>1. ASSUME NEW a \in Attempts, Transacts(a)
      PROVE  PromiseParts' /\ Effects
  <2>1. Shape(a)
    BY <1>1, ProceedShape
  <2>2. Live(a)
    BY <2>1, AloneInside DEF Shape
  <2>3. Effects /\ Knows(a)' /\ effects' <= dispatches'
    BY <1>1, <2>2, ProceedPromises DEF PromiseParts
  <2>4. ASSUME NEW b \in Attempts, b # a
        PROVE  Knows(b)'
    <3>1. pc'[b] = pc[b] /\ pc[b] \notin Inside
      BY <2>1, <2>4, AloneInside DEF Shape, Moved, Left, Apart
    <3> QED BY <3>1 DEF Knows, Inside
  <2> QED BY <2>3, <2>4 DEF PromiseParts
<1>2. ASSUME UNCHANGED <<row, dispatches, effects>>, \A a \in Attempts : Rests(a)
      PROVE  PromiseParts' /\ Effects
  BY <1>2, RestKnows DEF Effects, PromiseParts
<1>4. ASSUME NEW a \in Attempts, Acquire(a) \/ Unclear(a) \/ Crash(a)
      PROVE  PromiseParts' /\ Effects
  <2>1. UNCHANGED <<row, dispatches, effects>>
    BY <1>4 DEF Acquire, Unclear, Crash, rowVars, historyVars
  <2>2. \A b \in Attempts : Rests(b)
    BY <1>4 DEF Acquire, Unclear, Crash, Stop, Inside, Rests, TypeOK
  <2> QED BY <1>2, <2>1, <2>2
<1>5. ASSUME NEW a \in Attempts, NEW k, NEW x, Start(a, k, x)
      PROVE  PromiseParts' /\ Effects
  <2>1. UNCHANGED <<row, dispatches, effects>>
    BY <1>5 DEF Start, rowVars, historyVars
  <2>2. \A b \in Attempts : Rests(b)
    BY <1>5 DEF Start, Inside, Rests, TypeOK
  <2> QED BY <1>2, <2>1, <2>2
<1>6. ASSUME \/ \E p \in Approvals : DecideApproval(p)
             \/ \E p \in Policies : DecideReview(p)
             \/ UNCHANGED vars
      PROVE  PromiseParts' /\ Effects
  <2>1. UNCHANGED <<row, dispatches, effects, pc, kind, adopt>>
    BY <1>6 DEF DecideApproval, DecideReview, attemptVars, rowVars, historyVars, vars
  <2>2. \A b \in Attempts : Rests(b)
    BY <2>1 DEF Rests
  <2> QED BY <1>2, <2>1, <2>2
<1>7. PromiseParts' /\ Effects
  BY <1>1, <1>4, <1>5, <1>6
  DEF Next, Proceed, Transacts, LoseSession, CloseClaimed
<1> QED BY <1>7, EffectsImplement

\* The gateway implements ToolEffect: every dispatch is announced before it is
\* entered, repeated only when that is harmless and within the budget, and a
\* closed call stays closed (_run_executor, _reconcile_unproven_dispatch), as long
\* as no attempt loses its session and no command writes the row outside the lock.
THEOREM PromiseIsKept == ~SessionsFail /\ ~RollbackRuns => (Spec => KeepsPromise)
<1> SUFFICES ASSUME ~SessionsFail, ~RollbackRuns PROVE Spec => KeepsPromise
  OBVIOUS
<1>0. Exclusive
  BY DEF Exclusive
<1>1. Init => Effect!EffectInit /\ PromiseParts
  BY DEF Init, Effect!EffectInit, PromiseParts, Knows, Inside, Terminal
<1>2. TypeOK /\ Sessions /\ BudgetParts /\ PromiseParts /\ [Next]_vars
        => PromiseParts' /\ [Effect!EffectNext]_(Effect!effectVars)
  BY NextPromises
<1>3. Spec => []BudgetParts
  BY BudgetHolds
<1> QED BY <1>0, <1>1, <1>2, <1>3, TypeCorrect, SessionsHold, PTL
        DEF Spec, KeepsPromise, Effect!EffectSpec

=============================================================================
