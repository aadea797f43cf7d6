------------------------------ MODULE AgentTask ------------------------------
(***************************************************************************)
(* AgentTaskWorkflow, one execution per task, with the rows its activities *)
(* and the API share with it in Postgres: admission to a concurrency slot, *)
(* the queue, the step loop, the waits for people, and the signals that    *)
(* reach the workflow between two of its awaits.                           *)
(*                                                                         *)
(* What a step does is ToolGateway's business; here it ends, parks on one  *)
(* decision, or fails.  Delegations and work requests are left out, and so *)
(* is the time anything takes: a timer may fire whenever its wait is on,   *)
(* or, as that of a required question, never.                              *)
(***************************************************************************)
EXTENDS Naturals, Sequences, FiniteSets

CONSTANTS
  NumTasks,        \* tasks are numbered in the order of their created_at
  Agents,
  AgentOf,         \* the assigned agent of a task
  After,           \* queue_after_task_id, or None
  AgentLimit,      \* Agent.max_concurrent_runs
  WorkspaceLimit,  \* the workspace ceiling of settings_json
  MaxSteps,        \* run_limits.max_steps
  MaxAttempts,     \* maximum_attempts of _SNAPSHOT_RETRY
  MaxTurns,        \* bound: instructions pending at a time
  MaxGates,        \* bound: decisions one task asks people for
  SecondPolicy,    \* may a second review policy match a reviewed call?
  Requests,        \* bound: what people ask of a task, of PossibleRequests
  Faults           \* what may go wrong, of PossibleFaults

PossibleRequests == {"instruct", "pause", "stop", "withdraw"}

Tasks == 1..NumTasks
None == 0

PossibleFaults ==
  {"lost_attempt",   \* an admission attempt dies before its commit
   "lost_reply",     \* an admission attempt commits, and its result never arrives
   "lost_finalize",  \* the terminal projection fails in every attempt
   "lost_kick",      \* slot_available is not delivered
   "lost_delivery",  \* the answer to a question is not delivered, which is suppressed
   "unmarked_pause"} \* the projection of a pause fails, which is suppressed

ASSUME AgentTaskAssumption ==
  /\ NumTasks \in Nat
  /\ AgentOf \in [Tasks -> Agents]
  /\ After \in [Tasks -> Tasks \cup {None}] /\ \A t \in Tasks : After[t] < t
  /\ AgentLimit \in [Agents -> Nat \ {0}]
  /\ WorkspaceLimit \in Nat \ {0}
  /\ MaxSteps \in Nat \ {0} /\ MaxAttempts \in Nat \ {0}
  /\ MaxTurns \in Nat /\ MaxGates \in [Tasks -> Nat]
  /\ SecondPolicy \in BOOLEAN
  /\ Requests \in [Tasks -> SUBSET PossibleRequests]
  /\ Faults \subseteq PossibleFaults

VARIABLES
  state,  \* Task.state
  stop,   \* stop_requested_at
  runs,   \* the agent_run rows of a task: their status
  gates,  \* the review, approval and user_question rows of a task
  wf      \* the workflow execution

rowVars == <<state, stop, runs, gates>>
vars == <<rowVars, wf>>

Terminal == {"completed", "failed", "cancelled"}
ActiveState == {"queued", "running", "paused"}
Kinds == {"review", "approval", "question"}
Waiting == [k \in Kinds |-> CASE k = "review"   -> "waiting_review"
                              [] k = "approval" -> "waiting_approval"
                              [] k = "question" -> "waiting_person"]
\* The active statuses that admission and the modelled waits write.
ActiveRun == {"running"} \cup {Waiting[k] : k \in Kinds}
Decided == {"yes", "no"}
Gate ==
  [kind : Kinds, status : {"pending", "cancelled", "expired"} \cup Decided,
   told : BOOLEAN,  \* has a signal of its decision got through?
   lost : BOOLEAN]  \* history: has the delivery of its answer failed for good?

\* A stop that is stamped after an admission read the row, and before it commits,
\* is unseen; one that such a commit wrote over is lost.
Stamps == {"none", "set", "unseen", "lost"}

Admitting == {"admit", "refused", "queued"}
Stepping  == {"top", "paused", "step", "asked", "await", "resolve"}
Closing   == {"wrap", "finalize", "kick"}
Ended     == {"closed", "lost"}
Stages    == Admitting \cup Stepping \cup Closing \cup Ended

Workflow ==
  [stage : Stages,
   attempt : 1..MaxAttempts,       \* of the admission activity
   run : Nat,                      \* run_id of the snapshot, or None
   paused : BOOLEAN, cancelled : BOOLEAN, kick : BOOLEAN,  \* set by signals
   turns : 0..MaxTurns,            \* _pending_instructions
   heard : SUBSET Nat,             \* _approval_decisions, _review_decisions, _question_answers
   gate : Nat,                     \* what the wait is for
   steps : 0..MaxSteps, done : BOOLEAN,
   outcome : Terminal \cup {"none"}]

TypeOK ==
  /\ state \in [Tasks -> ActiveState \cup Terminal]
  /\ stop \in [Tasks -> Stamps]
  /\ runs \in [Tasks -> Seq(ActiveRun \cup Terminal)]
  /\ gates \in [Tasks -> Seq(Gate)]
  /\ wf \in [Tasks -> Workflow]
  /\ \A t \in Tasks :
       /\ wf[t].heard \subseteq DOMAIN gates[t]
       /\ wf[t].run \in DOMAIN runs[t] \cup {None}
       /\ wf[t].stage \in Stepping \cup {"wrap"} => wf[t].run # None
       /\ wf[t].stage = "step" => wf[t].steps < MaxSteps
       /\ wf[t].stage \in {"wrap", "finalize"} => wf[t].outcome # "none"
       /\ wf[t].stage \in {"asked", "await", "resolve"} => wf[t].gate \in DOMAIN gates[t]

Init ==
  /\ state = [t \in Tasks |-> "queued"]
  /\ stop = [t \in Tasks |-> "none"]
  /\ runs = [t \in Tasks |-> <<>>]
  /\ gates = [t \in Tasks |-> <<>>]
  /\ wf = [t \in Tasks |->
             [stage |-> "admit", attempt |-> 1, run |-> None,
              paused |-> FALSE, cancelled |-> FALSE, kick |-> FALSE,
              turns |-> 0, heard |-> {}, gate |-> None,
              steps |-> 0, done |-> FALSE, outcome |-> "none"]]

At(t, stage) == wf[t].stage = stage
Goto(t, stage) == wf' = [wf EXCEPT ![t].stage = stage]
End(t, stage, outcome) == wf' = [wf EXCEPT ![t].stage = stage, ![t].outcome = outcome]

-----------------------------------------------------------------------------
(* Admission: resolve_snapshot_activity, one transaction under the locks   *)
(* of workspace and agent, which is one step here, when it commits.  What  *)
(* it counts can only get less before that.  The row of the task is not    *)
(* locked: a stop may come after it was read (RequestStop), and go when it *)
(* is written as it was read (WriteBack).                                  *)

ActiveRuns(T) == UNION {{t} \X {i \in DOMAIN runs[t] : runs[t][i] \in ActiveRun} : t \in T}
OfAgent(a) == {t \in Tasks : AgentOf[t] = a}

\* Wrong: a slot is counted against the agent alone.
BlockedByAgent(t) ==
  \/ Cardinality(ActiveRuns(OfAgent(AgentOf[t]))) >= AgentLimit[AgentOf[t]]
  \/ After[t] # None /\ state[After[t]] \in ActiveState

\* Wrong: a queued turn does not hold up the next one.
BlockedUnlessQueued(t) ==
  \/ Cardinality(ActiveRuns(OfAgent(AgentOf[t]))) >= AgentLimit[AgentOf[t]]
  \/ Cardinality(ActiveRuns(Tasks)) >= WorkspaceLimit
  \/ After[t] # None /\ state[After[t]] \in {"running", "paused"}

\* The queue reasons, in any order: a full agent, a full workspace, an earlier
\* turn of the conversation.
Blocked(t) ==
  \/ Cardinality(ActiveRuns(OfAgent(AgentOf[t]))) >= AgentLimit[AgentOf[t]]
  \/ Cardinality(ActiveRuns(Tasks)) >= WorkspaceLimit
  \/ After[t] # None /\ state[After[t]] \in ActiveState

\* Wrong: a stop that has not reached the workflow is not looked for.
WithdrawnByWord(t) == stop[t] = "set" /\ wf[t].cancelled

Withdrawn(t) == stop[t] = "set" \/ state[t] = "cancelled"

\* No other admission is known to be between its read and its commit.
Unlocked(t) == \A u \in Tasks \ {t} : stop[u] # "unseen"

\* The next admission reads the stop.
KeepStop(t) == stop' = [stop EXCEPT ![t] = IF @ = "unseen" THEN "set" ELSE @]

\* Where the entry of the queue comes, changes or goes, metadata_json is written
\* as it was read.
WriteBack(t) ==
  \/ KeepStop(t)
  \/ stop[t] = "unseen" /\ stop' = [stop EXCEPT ![t] = "lost"]

\* The run row and the running task, in one commit.
ClaimSlot(t) ==
  /\ At(t, "admit") /\ Unlocked(t) /\ ~Withdrawn(t) /\ ~Blocked(t)
  /\ runs' = [runs EXCEPT ![t] = Append(@, "running")]
  /\ state' = [state EXCEPT ![t] = IF @ = "paused" THEN @ ELSE "running"]
  /\ WriteBack(t)

Admit(t) ==
  /\ ClaimSlot(t)
  /\ wf' = [wf EXCEPT ![t].stage = "top", ![t].attempt = 1, ![t].run = Len(runs'[t])]
  /\ UNCHANGED gates

Queue(t) ==
  /\ At(t, "admit") /\ Unlocked(t) /\ ~Withdrawn(t) /\ Blocked(t)
  /\ state' = [state EXCEPT ![t] = IF @ = "paused" THEN @ ELSE "queued"]
  /\ WriteBack(t)
  /\ wf' = [wf EXCEPT ![t].stage = "refused", ![t].attempt = 1]
  /\ UNCHANGED <<runs, gates>>

\* The answer arrives and the flag is cleared: a kick sent after the activity
\* looked, and before this, is lost.
Queued(t) ==
  /\ At(t, "refused")
  /\ wf' = [wf EXCEPT ![t].stage = "queued", ![t].kick = FALSE]
  /\ UNCHANGED rowVars

DenyWithdrawn(t) ==
  /\ At(t, "admit") /\ Unlocked(t) /\ Withdrawn(t)
  /\ End(t, "finalize", "cancelled")
  /\ UNCHANGED rowVars

\* A spent budget, or a snapshot that does not resolve.
DenyAdmission(t) ==
  /\ At(t, "admit") /\ Unlocked(t)
  /\ End(t, "finalize", "failed")
  /\ KeepStop(t)
  /\ UNCHANGED <<state, runs, gates>>

\* Temporal tries again, and gives up after MaxAttempts.
LoseAdmission(t) ==
  /\ \/ "lost_attempt" \in Faults /\ At(t, "admit") /\ KeepStop(t) /\ UNCHANGED <<state, runs>>
     \/ "lost_reply" \in Faults /\ ClaimSlot(t)
  /\ IF wf[t].attempt = MaxAttempts
       THEN End(t, "finalize", "failed")
       ELSE wf' = [wf EXCEPT ![t].attempt = @ + 1]
  /\ UNCHANGED gates

\* Wrong: only a kick wakes a queued workflow.
WakeKicked(t) ==
  /\ At(t, "queued")
  /\ wf[t].kick \/ wf[t].cancelled
  /\ IF wf[t].cancelled THEN End(t, "finalize", "cancelled") ELSE Goto(t, "admit")
  /\ UNCHANGED rowVars

\* A kick, a cancellation, or _QUEUE_POLL_INTERVAL, which is always running.
Wake(t) ==
  /\ At(t, "queued")
  /\ IF wf[t].cancelled THEN End(t, "finalize", "cancelled") ELSE Goto(t, "admit")
  /\ UNCHANGED rowVars

-----------------------------------------------------------------------------
(* The step loop.                                                          *)

\* What the wait is for.
Awaited(t) == gates[t][wf[t].gate]

MoreToDo(t) == (~wf[t].done \/ wf[t].turns > 0) /\ wf[t].steps < MaxSteps

BeginStep(t) ==
  /\ At(t, "top") /\ MoreToDo(t) /\ ~wf[t].cancelled /\ ~wf[t].paused
  /\ wf' = [wf EXCEPT ![t].stage = "step", ![t].turns = 0]
  /\ UNCHANGED rowVars

\* mark_task_paused_activity only moves between running and paused.
MarkPaused(t, from, to) ==
  \/ state' = [state EXCEPT ![t] = IF @ \in from THEN to ELSE @]
  \/ "unmarked_pause" \in Faults /\ UNCHANGED state

Park(t) ==
  /\ At(t, "top") /\ MoreToDo(t) /\ ~wf[t].cancelled /\ wf[t].paused
  /\ MarkPaused(t, {"running", "queued"}, "paused")
  /\ Goto(t, "paused")
  /\ UNCHANGED <<stop, runs, gates>>

Unpark(t) ==
  /\ At(t, "paused") /\ (~wf[t].paused \/ wf[t].cancelled)
  /\ MarkPaused(t, {"paused"}, "running")
  /\ Goto(t, "top")
  /\ UNCHANGED <<stop, runs, gates>>

\* The step is committed: the agent has answered, or goes on.
StepDone(t) ==
  /\ At(t, "step")
  /\ \E done \in BOOLEAN :
       wf' = [wf EXCEPT ![t].stage = "top", ![t].steps = @ + 1, ![t].done = done]
  /\ UNCHANGED rowVars

NewGate(kind) == [kind |-> kind, status |-> "pending", told |-> FALSE, lost |-> FALSE]

\* A row that asks somebody, and a run that waits for it.
Ask(t, kind) ==
  /\ Len(gates[t]) < MaxGates[t]
  /\ gates' = [gates EXCEPT ![t] = Append(@, NewGate(kind))]
  /\ runs' = [runs EXCEPT ![t][wf[t].run] = Waiting[kind]]

\* Wrong: the workflow goes on without waiting.
StepAsksInPassing(t) ==
  /\ At(t, "step")
  /\ \E kind \in Kinds : Ask(t, kind)
  /\ wf' = [wf EXCEPT ![t].stage = "top", ![t].steps = @ + 1, ![t].done = FALSE]
  /\ UNCHANGED <<state, stop>>

StepAsks(t) ==
  /\ At(t, "step")
  /\ \E kind \in Kinds : Ask(t, kind)
  /\ wf' = [wf EXCEPT ![t].stage = "asked", ![t].steps = @ + 1, ![t].done = FALSE,
                      ![t].gate = Len(gates'[t])]
  /\ UNCHANGED <<state, stop>>

\* An activity fails for good.  A call whose outcome is unknown closes the run
\* row at once.
StepFails(t) ==
  /\ At(t, "step") \/ (At(t, "resolve") /\ Awaited(t).kind # "question")
  /\ End(t, "wrap", IF wf[t].cancelled THEN "cancelled" ELSE "failed")
  /\ \/ UNCHANGED runs
     \/ runs' = [runs EXCEPT ![t][wf[t].run] = "failed"]
  /\ UNCHANGED <<state, stop, gates>>

\* The model call sees the stop first: generation_cancelled.
StepStopped(t) ==
  /\ At(t, "step") /\ stop[t] = "set"
  /\ wf' = [wf EXCEPT ![t].stage = "wrap", ![t].cancelled = TRUE, ![t].outcome = "cancelled"]
  /\ UNCHANGED rowVars

\* Cancelled before a tool of the step ran: nothing is committed.
StepCut(t) ==
  /\ At(t, "step") /\ wf[t].cancelled
  /\ End(t, "wrap", "cancelled")
  /\ UNCHANGED rowVars

-----------------------------------------------------------------------------
(* Waiting for people.                                                     *)

ReviewApproved(t) == Awaited(t).kind = "review" /\ Awaited(t).status = "yes"

\* The row can be decided, and the decision signalled, before the result of the
\* activity that asked reaches the workflow.
BeginWait(t) ==
  /\ At(t, "asked")
  /\ Goto(t, "await")
  /\ UNCHANGED rowVars

Hear(t) ==
  /\ At(t, "await") /\ wf[t].gate \in wf[t].heard
  /\ Awaited(t).kind = "question" => ~wf[t].cancelled
  /\ wf' = [wf EXCEPT ![t].stage = "resolve", ![t].heard = @ \ {wf[t].gate}]
  /\ UNCHANGED rowVars

\* Wrong: a wait for an approval or a review cannot be cancelled.
HearStopAtQuestion(t) ==
  /\ At(t, "await") /\ wf[t].cancelled
  /\ Awaited(t).kind = "question"
  /\ End(t, "wrap", "cancelled")
  /\ UNCHANGED rowVars

\* A decision that has been heard is acted on, also when a stop came with it.
HearStop(t) ==
  /\ At(t, "await") /\ wf[t].cancelled
  /\ Awaited(t).kind # "question" => wf[t].gate \notin wf[t].heard
  /\ End(t, "wrap", "cancelled")
  /\ UNCHANGED rowVars

\* _PERSON_ANSWER_WAIT.  Approvals and reviews wait without an end.
GiveUp(t) ==
  /\ At(t, "await") /\ Awaited(t).kind = "question" /\ ~wf[t].cancelled
  /\ Goto(t, "resolve")
  /\ UNCHANGED rowVars

\* The run goes on with the answer, or with the news that nobody answered.
ResolveQuestion(t) ==
  /\ At(t, "resolve") /\ Awaited(t).kind = "question"
  /\ gates' = [gates EXCEPT ![t][wf[t].gate].status = IF @ = "pending" THEN "expired" ELSE @]
  /\ runs' = [runs EXCEPT ![t][wf[t].run] = "running"]
  /\ Goto(t, "top")
  /\ UNCHANGED <<state, stop>>

\* deliver_question_answer fails in every attempt: neither the row nor the run
\* hears of the answer, and the loop goes on.
LoseAnswer(t) ==
  /\ "lost_delivery" \in Faults
  /\ At(t, "resolve") /\ Awaited(t).kind = "question"
  /\ gates' = [gates EXCEPT ![t][wf[t].gate].lost = TRUE]
  /\ Goto(t, "top")
  /\ UNCHANGED <<state, stop, runs>>

\* The tool worker reads the row: the call has run or is refused for good.
Settle(t) ==
  /\ At(t, "resolve") /\ Awaited(t).kind # "question" /\ Awaited(t).status \in Decided
  /\ runs' = [runs EXCEPT ![t][wf[t].run] = "running"]
  /\ Goto(t, "top")
  /\ UNCHANGED <<state, stop, gates>>

\* An approved review leaves the call to a human approval, which is awaited.
StageApproval(t) ==
  /\ At(t, "resolve") /\ ReviewApproved(t)
  /\ Ask(t, "approval")
  /\ wf' = [wf EXCEPT ![t].stage = "asked", ![t].gate = Len(gates'[t])]
  /\ UNCHANGED <<state, stop>>

\* Another policy matches.  commit_review_projection names its review in
\* waiting_review_id, of which the workflow takes no notice.
ParkAgain(t) ==
  /\ SecondPolicy
  /\ At(t, "resolve") /\ ReviewApproved(t)
  /\ Ask(t, "review")
  /\ Goto(t, "top")
  /\ UNCHANGED <<state, stop>>

-----------------------------------------------------------------------------
(* The end: workspace cleanup, the terminal projection, the kick.          *)

Leave(t) ==
  /\ At(t, "top") /\ (~MoreToDo(t) \/ wf[t].cancelled)
  /\ End(t, "wrap", CASE wf[t].cancelled -> "cancelled"
                      [] ~wf[t].cancelled /\ wf[t].done -> "completed"
                      [] OTHER -> "failed")
  /\ UNCHANGED rowVars

\* A turn that came in during the cleanup of a completed run is still answered.
CleanUp(t) ==
  /\ At(t, "wrap")
  /\ IF wf[t].outcome = "completed" /\ wf[t].turns > 0 /\ wf[t].steps < MaxSteps
       THEN wf' = [wf EXCEPT ![t].stage = "top", ![t].done = FALSE, ![t].outcome = "none"]
       ELSE Goto(t, "finalize")
  /\ UNCHANGED rowVars

Withdraw(g) ==
  IF g.status = "pending" /\ g.kind # "review" THEN [g EXCEPT !.status = "cancelled"] ELSE g

\* finalize_run_projection_activity.  Reviews outlive the run.
Finalize(t) ==
  /\ At(t, "finalize")
  /\ state' = [state EXCEPT ![t] = wf[t].outcome]
  /\ IF wf[t].run = None
       THEN Goto(t, "closed") /\ UNCHANGED <<runs, gates>>
       ELSE /\ runs' = [runs EXCEPT ![t][wf[t].run] = wf[t].outcome]
            /\ gates' = [gates EXCEPT ![t] = [g \in DOMAIN @ |-> Withdraw(@[g])]]
            /\ Goto(t, "kick")
  /\ UNCHANGED stop

LoseFinalize(t) ==
  /\ "lost_finalize" \in Faults
  /\ At(t, "finalize")
  /\ Goto(t, "lost")
  /\ UNCHANGED rowVars

Oldest(T) == {t \in T : \A u \in T : t <= u}
InQueue == {t \in Tasks : state[t] = "queued"}

\* _kick_queued: the oldest queued task of the agent, and the oldest of all.
\* A retry of the activity finds the run closed and kicks nobody.
Kick(t) ==
  /\ At(t, "kick")
  /\ LET kicked == Oldest(InQueue \cap OfAgent(AgentOf[t])) \cup Oldest(InQueue) IN
       \/ wf' = [u \in Tasks |->
                   IF u = t THEN [wf[u] EXCEPT !.stage = "closed"]
                   ELSE IF u \in kicked /\ wf[u].stage \notin Ended THEN [wf[u] EXCEPT !.kick = TRUE]
                   ELSE wf[u]]
       \/ "lost_kick" \in Faults /\ Goto(t, "closed")
  /\ UNCHANGED rowVars

-----------------------------------------------------------------------------
(* The API.  A signal reaches an execution that has not closed.            *)

Signal(t) == state[t] \in ActiveState /\ wf[t].stage \notin Ended

Instruct(t) ==
  /\ "instruct" \in Requests[t]
  /\ Signal(t) /\ wf[t].turns < MaxTurns
  /\ wf' = [wf EXCEPT ![t].turns = @ + 1]
  /\ UNCHANGED rowVars

PauseOrResume(t) ==
  /\ "pause" \in Requests[t]
  /\ Signal(t)
  /\ wf' = [wf EXCEPT ![t].paused = ~@]
  /\ UNCHANGED rowVars

\* stop_requested_at is committed first, under no lock; the signal may fail.
RequestStop(t) ==
  /\ "stop" \in Requests[t]
  /\ state[t] \in ActiveState /\ stop[t] \in {"none", "lost"}
  /\ \/ stop' = [stop EXCEPT ![t] = "set"]
     \/ At(t, "admit") /\ Unlocked(t) /\ stop' = [stop EXCEPT ![t] = "unseen"]
  /\ UNCHANGED <<state, runs, gates, wf>>

SignalStop(t) ==
  /\ Signal(t) /\ stop[t] # "none"
  /\ wf' = [wf EXCEPT ![t].cancelled = TRUE]
  /\ UNCHANGED rowVars

\* change_queued without a text, under the lock of the workspace.
WithdrawTurn(t) ==
  /\ "withdraw" \in Requests[t]
  /\ Unlocked(t) /\ stop[t] # "unseen"
  /\ state[t] = "queued" /\ runs[t] = <<>>
  /\ state' = [state EXCEPT ![t] = "cancelled"]
  /\ stop' = [stop EXCEPT ![t] = "set"]
  /\ UNCHANGED <<runs, gates, wf>>

\* A question may be answered late; an approval or a review is decided once.
Decide(t) ==
  /\ \E g \in DOMAIN gates[t], verdict \in Decided :
       /\ \/ gates[t][g].status = "pending"
          \/ gates[t][g].status = "expired" /\ gates[t][g].kind = "question"
       /\ gates[t][g].kind = "question" => verdict = "yes"
       /\ gates' = [gates EXCEPT ![t][g].status = verdict]
  /\ UNCHANGED <<state, stop, runs, wf>>

\* Committed before it is signalled; the same decision again only signals.
Tell(t, g) ==
  /\ wf[t].stage \notin Ended
  /\ gates[t][g].status \in Decided
  /\ gates' = [gates EXCEPT ![t][g].told = TRUE]
  /\ wf' = [wf EXCEPT ![t].heard = @ \cup {g}]
  /\ UNCHANGED <<state, stop, runs>>

SignalDecision(t) == \E g \in DOMAIN gates[t] : Tell(t, g)
TellAtLast(t) == \E g \in DOMAIN gates[t] : ~gates[t][g].told /\ Tell(t, g)

-----------------------------------------------------------------------------

\* What the workflow and its activities do by themselves.
Advance(t) ==
  \/ Admit(t) \/ Queue(t) \/ Queued(t) \/ DenyWithdrawn(t) \/ DenyAdmission(t) \/ Wake(t)
  \/ BeginStep(t) \/ Park(t) \/ Unpark(t)
  \/ StepDone(t) \/ StepAsks(t) \/ StepFails(t) \/ StepStopped(t) \/ StepCut(t)
  \/ BeginWait(t) \/ Hear(t) \/ HearStop(t)
  \/ ResolveQuestion(t) \/ Settle(t) \/ StageApproval(t) \/ ParkAgain(t)
  \/ Leave(t) \/ CleanUp(t) \/ Finalize(t) \/ Kick(t)

People(t) ==
  \/ Instruct(t) \/ PauseOrResume(t) \/ RequestStop(t) \/ SignalStop(t)
  \/ WithdrawTurn(t) \/ Decide(t) \/ SignalDecision(t)

Next ==
  \E t \in Tasks :
    \/ Advance(t) \/ GiveUp(t) \/ People(t)
    \/ LoseAdmission(t) \/ LoseAnswer(t) \/ LoseFinalize(t)

Spec == Init /\ [][Next]_vars

\* Temporal drives every workflow on; a decision that was taken is signalled
\* once, by the call that took it or, when that fails, by its repetition.
\* People owe nothing else.
FairSpec ==
  /\ Spec
  /\ \A t \in Tasks : WF_vars(Advance(t)) /\ WF_vars(TellAtLast(t))

-----------------------------------------------------------------------------
(* Properties.                                                             *)

\* Admission: agents and the workspace never have more active runs than slots,
\* however many tasks ask at once and in whatever order the others end.
SlotsAreLimited ==
  /\ \A a \in Agents : Cardinality(ActiveRuns(OfAgent(a))) <= AgentLimit[a]
  /\ Cardinality(ActiveRuns(Tasks)) <= WorkspaceLimit

\* The turns of a conversation run one after the other (queue_after_task_id),
\* whichever of them a free slot wakes first.
TurnsInOrder ==
  \A t \in Tasks : After[t] # None /\ runs[t] # <<>> => state[After[t]] \in Terminal

\* The loop never takes the next step past an approval or a question that is
\* open, whatever is signalled while the step that asked for it ends, unless the
\* delivery of the answer failed for good (_await_person_answer suppresses that).
CallsAreAwaited ==
  [][\A t \in Tasks : At(t, "top") /\ wf'[t].stage = "step" =>
       \A g \in DOMAIN gates[t] :
         gates[t][g].kind \in {"approval", "question"} /\ ~gates[t][g].lost
           => gates[t][g].status # "pending"]_vars

\* The slots of RunSlots: a run row is one while its status is active, and a task
\* is over when its state is terminal.
Slots == INSTANCE RunSlots WITH
  taken <- [t \in Tasks |-> Len(runs[t])],
  held  <- ActiveRuns(Tasks),
  over  <- {t \in Tasks : state[t] \in Terminal}

\* The admission, the end and the withdrawal of tasks, with the retries of their
\* activities, implement RunSlots: who is withdrawn or over takes no slot, a
\* retry takes another one only while the first is still held, and only the
\* newest is laid down (resolve_snapshot_activity, finalize_run_projection_activity,
\* change_queued).
KeepsSlots == Slots!SlotsSpec

\* A stop that reached the workflow ends it, wherever it is.
StopEnds == \A t \in Tasks : wf[t].cancelled ~> wf[t].stage \in Ended

Undecided(t) == At(t, "await") /\ gates[t][wf[t].gate].status \notin Decided

\* A workflow only stands still where it waits for a slot that is taken, for a
\* person who has not decided, or because it is paused: a kick or a decision
\* that comes before the wait does not leave it behind.
NeverStranded ==
  \A t \in Tasks :
    []<>(\/ wf[t].stage \in Ended \/ Undecided(t)
         \/ At(t, "paused") /\ wf[t].paused
         \/ At(t, "queued") /\ Blocked(t))

=============================================================================
