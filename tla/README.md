# A TLA+ model of Jhin

Jhin runs AI agents as durable work: people and external events create tasks, a
Temporal workflow drives each task through model calls and tool calls, and
Postgres holds everything that must survive a restart. What is hard in this
system is hardly ever in one function. It is in the order in which several
processes that may die at any moment reach a handful of shared rows. The modules
here describe that order, TLC checks small instances of it, and TLAPS proves the
most important consequences for every size.

All paths below are relative to the repository, which `PROJECT.json` calls `src/`.

## 1. The system

### Parts, state and operations

| Component | Code | State it owns | Operations |
|---|---|---|---|
| Tool gateway | `packages/tools/.../gateway.py`, run by `services/tool_worker` | `tool_call`, `approval`, `work_review` rows, audit events; an advisory lock per invocation | request, resolve an approval, a rejection or a review; claim, dispatch, execute, reconcile |
| Rollback command | `services/tool_worker/.../rollback.py` | none | closes claims before an older image starts |
| Event worker | `services/event_worker` | `trigger_invocation` rows, what it has seen | fetch, match, record, reconcile, start a workflow, acknowledge |
| Triggered workflows | `packages/workflows/.../triggered_task`, `trigger_activities.py` | task rows for external entities | prepare, run a child |
| Agent task workflow | `packages/workflows/.../agent_task`, `services/agent_worker` | `task`, `agent_run`, messages; flags set by signals | admission, queue, step loop, waits, cleanup, terminal projection, kick |
| API: tasks and conversations | `apps/api/.../tasks`, `conversations` | tasks, messages, stop requests, decisions, answers | send, steer, queue, resume, stop, withdraw, decide |
| Work requests, delegation | `packages/tools/.../work_requests.py`, `coordination_activities.py`, `work_request_task`, `delegated_task` | `work_request` rows, continuation tasks | ask, accept, decline, clarify, finish, continue the requester |
| Sandbox runner | `services/sandbox_runner`, `packages/connectors/.../cli`, `tool_worker/.../sandbox_reconcile.py` | jobs, ledger and workspace holds in memory, containers; `sandbox_job` rows | dispatch, submit, run, cancel, forget, restart, reap, sweep |
| Sandbox workspaces | `packages/connectors/.../cli/workspace.py`, `conversation_workspace.py`, `tool_worker/.../cleanup_activities.py` | `sandbox_workspace` rows: holder, last holder, size, state, pending reset; the volumes behind them | bind, renew, recycle, sweep, evict, measure, release, reset, take control |
| OAuth | `packages/oauth`, `apps/api/.../oauth`, `connections`, `oauth_refresh` | tokens, status and failure count of a connection; authorization handles | authorize, exchange, poll, renew, require reauthorization, check, disable, delete |
| Event ingress | `apps/api/.../webhooks`, `packages/events` | webhook deliveries, streams | verify, publish, normalize |
| Schedules | `packages/tools/.../schedule*`, `workflows/.../schedules` | schedules and occurrences | create, claim an occurrence |
| Memory, catalog, media, personas, skills, policy, secrets, models, connectors, web | the packages of those names, `apps/web` | records, configuration, clients | no protocol between processes |

How they meet: a webhook becomes a message on a JetStream stream; the event
worker turns it into an invocation row and a workflow start; the workflow creates
a task and starts an agent task workflow as its child; that workflow calls
activities on the agent worker (database and model) and on the tool worker (the
gateway); the gateway parks a call on a person by writing a row; the API writes
the decision and then signals the workflow, which asks the gateway to resume the
same call. A turn that a person sends is a row and a message that the API commits
before it starts or signals that workflow. A step may ask a colleague for work: the
request's own workflow runs the colleague's task, and the result comes back as a
later turn of the same conversation through an outbox. A shell command runs as a
job of the sandbox runner, which knows its jobs only in memory, on a disk that the
bind before it has leased to the run; a connector call first renews the connection's token. Signals only wake; rows decide. Every arrow can be repeated (activity
retry, redelivery, a second click) and can be cut (a worker dies, an answer is
lost, a signal fails).

### What is hard, and what makes each part correct

`PROJECT.json` lists the hazards by line. In short:

* **Gateway.** A retry cannot know whether the executor of the previous attempt
  ran. Correct means: an effect that cannot be repeated happens at most once; a
  recorded refusal is true; what may have happened is never recorded as not
  having happened; a person's decision covers exactly the call it was asked for.
* **Triggers.** The same change is reported more than once, to more than one
  replica, any of which may die between its row and the start it recorded.
  Correct means: work starts exactly for the changes that were acknowledged, and
  not twice.
* **Agent task.** Signals arrive between any two awaits, activities are retried,
  slots are counted in one place and freed in another. Correct means: slots are
  neither overbooked nor lost, a decision, an instruction or a stop is never
  dropped, and what a finished run leaves behind is consistent.
* **Conversations.** The API commits, calls Temporal, and commits what came of it,
  and the run reads rows and signals all the while. Correct means: a repeated
  request is one turn, an instruction heard in time is read, a withdrawn turn never
  runs, and no turn waits for ever.
* **Work requests.** A decider, the requester's turn, the colleague's workflow, a
  stop and the dispatcher of the outbox write the same rows. Correct means: an armed
  result comes back once, in its turn, or is suppressed by a stop that comes first.
* **Sandbox.** A call is dispatched again by a worker that cannot know what the
  dead one did, to a runner that may have forgotten. Correct means: one container
  for a call, one container on a disk, and a row that is closed only, and always,
  when its job is over.
* **Workspaces.** A disk outlives its runs, and whoever binds next may empty it, or
  its neighbours, on the word of rows and of a runner that refuses. Correct means: a
  live run's tree stays, a row does not call a full disk empty, what is destroyed
  for the budget brings the tenant home, and a chat's disk has one writer.
* **OAuth.** A refresh token is good once, and what replaces it can be lost on its
  way. Correct means: no token is spent twice, a new grant is not overwritten by an
  old renewal, a dead credential is noticed, and a receipt is true.

## 2. The modules

| Module | Models | Extends or instantiates |
|---|---|---|
| `ToolGateway` | one invocation: its row, its decisions, the attempts that race for it | instantiates `ToolEffect` |
| `ToolEffect` | what the gateway promises of an invocation, without its mechanism | |
| `TriggerDispatch` | consumer, matcher, ledger, workflow start, prepare activity | |
| `AgentTask` | admission, queue, steps, waits, end of every task of a workspace | instantiates `RunSlots` |
| `RunSlots` | what admission promises of the slots of agents and workspace, without its rows and retries | |
| `Conversations` | the requests of a conversation and the workflows that run its turns | |
| `WorkRequests` | the requests of one turn, their decisions, results, continuations and outbox | instantiates `ResultOutbox` |
| `ResultOutbox` | what a turn is promised of the results it asked for, without rows, locks and workflows | |
| `SandboxRunner` | a call's dispatches, the runner's memory, containers, restarts and the sweep | |
| `SandboxWorkspaces` | which disk a run's jobs run on, who holds it, when it is emptied | |
| `OAuthConnections` | one connection: renewals, an authorization, the administrator | |
| `ToolGatewayProofs`, `TriggerDispatchProofs`, `AgentTaskProofs`, `ConversationsProofs`, `WorkRequestsProofs`, `SandboxRunnerProofs`, `SandboxWorkspacesProofs`, `OAuthConnectionsProofs` | the theorems of section 5 | extend their module and `TLAPS` |
| `MCToolGateway`, `MCTriggerDispatch`, `MCAgentTask`, `MCConversations`, `MCWorkRequests`, `MCSandboxRunner`, `MCSandboxWorkspaces`, `MCOAuthConnections` | values of the constants for TLC | extend their module |

A definition that begins with the comment *Wrong:* is not part of a
specification. It is what the definition below it would be with a plausible
bug, and `PROJECT.json` ("mutants") pairs it with the property that notices.

The models compose by what each leaves abstract. A step of `AgentTask` that
asks for a decision is a `ToolGateway` attempt that answers `needs_approval` or
`needs_review`; `Settle` is the attempt that resolves it. The child of a
`TriggerDispatch` run is one task of `AgentTask`, and so is each turn of
`Conversations`, which keeps of a run only what reads and writes messages, and
each task of `WorkRequests`. A `SandboxRunner` dispatch and an `OAuthConnections`
tool call are what the executor of a `ToolGateway` attempt does.
`SandboxWorkspaces` keeps of a job that it waits for its disk, mounts it and ends, and
of a run that its cleanup comes before its status. Their state meets
in few rows and they are kept apart so that each can be checked exhaustively.

### ToolGateway

The variable `row` is the `tool_call` row, `dispatches` the number of
`tool.call.dispatched` audit events, from which the code itself counts its
budget. An attempt is one activity attempt that runs `request` or one of the
`resolve_*` functions; `pc` says between which two transactions it stands, and
each action is one transaction of the code. `session` is the database connection
that both holds the advisory lock and carries the attempt's work: it can be lost
while the attempt lives, after which the lock is free and the attempt still
reaches the statements that use a connection of their own (`MarkDispatched`).

What grants, rules, validators and the tool registry answer is read again by the
code at every decision and is therefore chosen again in the model. `effects` and
`doubt` are history: how often the executor was entered, and whether one that was
dispatched stopped without anybody knowing what it did.

### TriggerDispatch

`rows` are the `trigger_invocation` rows and `runs` the workflow executions, whose
id is the idempotency key: Temporal refuses a start while an execution with the
same id is open and allows it afterwards. A worker holds one event at a time and
walks through the matching triggers in order. The prepare activity is two actions,
its read and its insert, since nothing locks what it reads; a timed-out attempt
may still insert (`LateInsert`).

### AgentTask

Each task has one workflow, `wf[t]`, whose `stage` is the await it stands at, and
the rows that others can see: `state`, `stop` (`stop_requested_at`), `runs`,
`gates` (the review, approval and question rows of the task). Signals write the
flags in `wf[t]` at any stage, as Temporal delivers them. Admission locks the
workspace and the agent, so that what it counts can only become less, and is one
action, its commit. The row of the task it reads without a lock: `RequestStop` may put
its stamp there after that read (`unseen`), and `WriteBack` may put `metadata_json` back
as it was read, without the stamp (`lost`). Until that commit no other admission and no
withdrawal moves (`Unlocked`), since they take the lock of the workspace too. The result
of an activity reaches the workflow in a later action than its commit wherever something
can happen in between (`StepAsks` and `BeginWait`, `Finalize` and `Kick`,
`LoseAdmission`). When `deliver_question_answer` fails for good, the workflow suppresses
that and takes its next step, with the question open and the run waiting
(`LoseAnswer`); the history field `lost` of a gate remembers it.

Left out: delegations, waits for corpus syncs, two asks in one step, the contents
of prompts. `Queue` is the refusal and `Queued` its arrival, which clears the flag
a kick may have set in between; that kick is lost, as in the code, and
`NeverStranded` has to hold without it. `Admit` is one action with the arrival of
its answer.

`RunSlots` says what the slots of a workspace are to a reader who knows nothing of
rows and workflows: a turn takes one when its agent and the workspace have one free and
the turn it follows is over, lays the newest down, and takes none after that. The
mapping is short. A row of `runs` is a slot while its status is active, and a task is
over when its `state` is terminal. That a lost answer costs a slot is part of the
promise and not hidden by it: a retry takes a second slot only while the first is still
held, and only the newest is ever laid down.

### Conversations

`tasks` are the rows of a conversation's turns, oldest first, `message[c]` the
message that the API call `c` wrote, `wf[t]` what a turn's workflow holds. A call
chooses on arrival whether it sends a new turn, repeats an earlier one or presses
resume, and then goes through the commits and remote calls of `_run_turn`,
`resume_conversation` and `start_workflow` one by one; between any two the run
moves on, people stop or withdraw turns, and one mishap may strike. `lock` is the
row lock of the conversation. Resuming and promoting do not take it: the model
shows two turns at work at once after either.

`Signal` works on the row as the session read it, because the session factory sets
`expire_on_commit=False` and the identity map returns the loaded row: a workflow
that was recorded in between is out of reach, and the instruction is promoted.
`Refused` writes `failed` over whatever the row says, and `Admit` does not ask
whether it failed. The drain of `_pending_instructions` at the head of the loop and
the reading of the history are one step. `late` is history: instructions that came
during the final projection or when no step was left. A request that is refused
(409, 422) leaves nothing and is no action.

An admission is a read of the turn's row, which it does not lock, and a commit under
the lock of the workspace. The stages `claiming` and `refusing` are what lies between,
with the columns it has read in `wf[t].row`. `Looks` lets the read happen with the first
change of the row that it does not see (a stop, a press of resume, a refused start), and
otherwise with the commit, which loses no behaviour and keeps the instance small.
`WriteBack` is the commit: the unit of work writes the state if it differs from the one
that was read, and where an entry of the queue comes, changes or goes it writes
`metadata_json` as it was read. A stop may so come too late for the run (`late`) or be
written away (`lost`), and so may the link to a successor (`cut`); once a turn has its
run nobody asks for the stamp, and whether that one is still there is not told apart. `Withdraw` takes the
lock of the workspace and comes before or after. An admission that fails after it read
the row (`Deny`) is one action.

Left out: archiving, deleting and branching, editing a queued turn, pause and
resume of a run (`AgentTask`), editorial assignments, attachments, secure inputs,
the event stream, and the other keys of `metadata_json` with their writers (the answers
to questions, what a memory capture adds). `signal_task` reads `metadata_json` and writes
it back too; that pair is one step here.

### WorkRequests

`req[r]` is a `work_request` row with the continuation task that its result becomes
and that task's workflow; `turn`, `starts` and `src` are the requester's workflow
and row. `sess` holds what a decider has read: `Read` and the write that follows are
two actions, since nothing locks the row. `holder` is the dispatcher that holds the
row `FOR UPDATE`; it checks, starts the workflow and acknowledges, and may die
after each. Auto-activation is on, which is the default.

`ResultOutbox` is the same seen from the turn that asked. A result enters an order, is
claimed by whoever dispatches, sent once, and worked off when it is the foremost and the
asking turn is at rest. A stop drops what nobody had claimed before it, and what was sent
by then no longer keeps the order. `StageOf` maps a row and
its task to the stage of a result; the order is that of the continuation tasks, and a
result is claimed while a dispatcher holds its row.

Left out: delegated tasks, caps and policy, the wording of messages. A lost
dispatch can leave a continuation marked `cancelled_before_dispatch` that is running;
a step that commits its request and then fails leaves the request accepted
without a workflow, as does a person's accept whose start fails.

### SandboxRunner

A job is `<<call, n>>`, the n-th dispatch of a tool call, and all calls share one
workspace. `worker`, `prior`, `row` and `follows` belong to the tool worker; `record`,
`ledger`, `holder`, `since` and `forgotten` are the runner's memory and are gone after
`Crash` or `Close`; `container` is Docker's, and outlives the runner until `Start`
reaps it. The sweep reads a row and the runner's memory in `SweepBegin` and probes
and writes in `SweepEnd`. Time is a counter, since retention, grace and deadlines
are compared with each other: this is the one module where a timeout happens at
a time.

Assumed: worker and runner read one clock, the worker's ahead by no more than the
skew the runner tolerates; a call is dispatched again only when its earlier worker is
dead. The fault `overlap` lifts the second, and then a slow worker that read an empty
history may submit after a restart, and a call runs twice. The fault `docker` lets the
kill and the removal of a container both fail, which ends the job with its process
still on the disk, whatever the comment at `jobs.py:1303` says. `EffectOnce` and
`OneContainer` are therefore checked without them and `RowsClose` with them.

Left out: leases and volumes (`SandboxWorkspaces`), previews, log capture, retained output, secrets. The outcomes of a job are one.

### SandboxWorkspaces

A disk is named by what its key is derived from: an agent, a chat, or the run whose
private disk it is. `rows` are the committed `sandbox_workspace` rows, `vol` what a
volume really holds, `tree` whose work is on it, `busy` whose container has it
mounted. `bind_workspace` is one transaction: `Acquire` takes the row of the agent's
disk, `Settle` recycles it, `EvictIdle` and `EvictLargest` destroy one neighbour at a
time, and `Decide` commits; `txn` holds what it has written and so locked, and `plan`
what the select of `_sweep` read before the first deletion. Other binds read the old
rows meanwhile and volumes go at once, so that a bind that dies (`Die`) leaves volumes
gone and rows unchanged. `Kept` is the runner's refusal, because a container has
the volume mounted or for no reason, and every caller goes on from it as the code
does. `call` is the tool call of a run from bind to record. `displaced` and `parted` are
history: the runs whose lease an operator took, and those whose cleanup gave their
disk away although an instruction kept them going.

Abstracted: all disks are one tenant's. The rows of agents and chats exist from the
start. A chat's bind is one action, since it destroys nothing. A volume that nobody has
used for `idle_eviction` is `stale`; how long that is does not matter. `Die` is
also the one of two sweeps that PostgreSQL ends when each waits for a row of the other.
Sizes are what a job leaves (`Leaves`) and are read by the measurement before the next
job, which may fail (`known`).

Left out: disks of delegated tasks, snapshots of run outputs, staging, what a person
writes, file checkpoints, workspaces from before the table, and what
`workspace_repositories` and `readable_binding` read.

### OAuthConnections

A token set is the number of its refresh token; the provider honours each once and
rotates. `conn` is the connection row with its secret, `renewer` the tool calls and
the refresh workflow, `handle` and `visit` an authorization handle of the code or
the device flow and its two deliveries, and `test` and `deleting` what the
administrator has under way. `Written` states what the unit of work does: a flush
writes the columns that differ from what the session loaded, so a status that was
read early may be written late.

Folded: the three waits of the refresh workflow into `Idle`; the deadlock of a
callback (secret, then row) with a renewal (row, then secret) into a failed save.
Left out: Composio, the GitHub App manifest flow, discovery, registration, PKCE,
credential rotation, webhook secrets.

## 3. The runs

| Run | Instance | States | Shows |
|---|---|---|---|
| `gateway_once` | unrepeatable tool, 4 attempts, 1 approval, 2 review policies, sessions are lost, the rollback command runs | 982,371 | entered at most once; no run escapes its approval; doubt, refusals and answers stay true |
| `gateway_safe` | repeatable tool with a budget of 2, 3 attempts | 99,550 | budget, refinement of `ToolEffect`, every attempt ends |
| `gateway_rollback` | 3 attempts and the rollback command | | a counterexample, see 6 |
| `trigger_faults` | one event, delivered twice, two replicas, every fault | 36,577 | acknowledged means started, all is worked off |
| `agent_queue` | 4 tasks of 3 agents, 1 slot each, 2 in the workspace, one later turn that may be withdrawn, no faults | 419,108 | slots, order of turns, refinement of `RunSlots`, nobody is left in the queue |
| `agent_steps` | 1 task, 2 steps, 2 decisions, 2 instructions, every request and every fault | 286,024 | no step past an open decision, unless the delivery of its answer failed for good; stops end |
| `conversation_turns` | a first turn, 2 calls, 2 steps, 1 stop, 1 mishap of four kinds | 1,790,157 | no turn twice, none that was withdrawn, instructions are read, every turn ends |
| `requests_outbox` | 2 requests, deciders interfere with one, every fault | 228,486 | refinement of `ResultOutbox`: each result comes back once, in its turn, or is stopped; all are worked off |
| `sandbox_disk` | one call dispatched twice, another on the same disk, 1 restart, skewed clocks | 2,804,671 | one container per call and per disk, true rows, one memory |
| `sandbox_rows` | one call dispatched twice, overlap and Docker errors, 1 restart | 467,074 | every row is closed in the end |
| `sandbox_leases` | 2 runs of an agent, 1 in a chat, a neighbour's disk; 1 job, 1 mishap, 1 errand | 1,361,981 | live trees stay, evicted is empty, sweeps and refusals are justified, one writer per chat |
| `oauth_connection` | 1 tool call, the refresher, 1 handle delivered twice, 1 decision, 1 mishap | 1,148,601 | no replay, new grants stay, dead ones are noticed, receipts are true |

The type invariants are in no run, since each is a theorem of section 5, and neither
are the strengthenings that the proofs need, such as `OnceInv`. `ContinuesOnce` is in
none either: `KeepsOutbox` says more.

**Bounds and why they are enough.** The hazards of the gateway are about an
attempt that is alive without its lock, one that holds it, and one that comes
afterwards: three attempts; a fourth lets a resolution follow a request that
follows a lost one. A budget of two dispatches separates the first, the last and
the one too many. Two policies are what it takes for a review to be followed by
another. An event that reaches two replicas twice shows every overlap of a
redelivery with what it repeats; a second trigger would only be walked to after the
first, and is beyond what the liveness check affords. Four tasks let an agent's
limit, the workspace's and the order of a conversation hold up different tasks at
the same time; no fault strikes there, and what lost admissions do to the slots is left
to the theorems. Two steps are the first and the last; a decision and its follower are
two gates. Two calls beside the first turn are a delivery and its repetition, two
presses, a turn and what steers it, or a turn and what queues behind it; one mishap
is one process or one answer, and the code repairs none of the combinations by
another path. Two requests are a result and the one it must not run beside; that
deciders touch only one of them (`Decidable`) loses no order, because two requests
meet only in the line of their continuations; a second task for one request, which two
racing accepts create, is left to the theorem. Two dispatches of one call are a first
and a redispatch, and a second call is what a workspace is contended by; times of
three and four instants let a job outlive its deadline, its grace and its retention
around one restart. One tool call beside the refresher is the two renewals that can
meet; three issued tokens are the stored one, its replacement and a new grant's;
one mishap may be a lost answer, a failed commit, a death or a revocation.
Two runs of an agent are a holder and the one that finds the disk held, binds beside it
or takes it over; the run in the chat meets them in the budget alone. One size above
the cap and the budget makes every measured disk one too many, so that each bind has
something to recycle and something to evict; with one neighbour there is a plan with
one victim and a plan with two. One job, one mishap (a refused deletion, a death, a
lost answer or a lost cleanup) and one errand (a reset, a person, a week gone by, a
late instruction) are each the first of their kind; two jobs were checked outside the
project (5,684,777 states) with the same result. Counters are capped by `MaxTurns`, `MaxGates`, `MaxSteps`, `MaxAttempts`,
`MaxDeliver`, `MaxPrepare`, `MaxCalls`, `MaxStops`, `MaxMishaps`, `MaxTasks`, `MaxTime`,
`MaxJobs`, `MaxErrands`, `Leaves`, `Restarts`, `Tended`, `MaxIssued`, `Decisions` and
`Mishaps`; of these `MaxSteps`,
`MaxAttempts`, `MaxDeliver` and `MaxPrepare` are limits of the code.

**Symmetry** is used in `gateway_once` and `gateway_rollback`, over attempts,
approvals and policies that no definition names, and in `sandbox_leases` over the two
runs of one agent; never together with a liveness property.

**Deadlock** is not checked: an invocation that is answered, an event that is
acknowledged, a task that has ended, a row that is closed, a run that has left its disk
and a clock at its last instant are states in which nothing has to happen. What must not stop is stated as
liveness instead.

## 4. Fairness

* `ToolGateway!FairSpec`: each attempt that was started keeps going. Statements
  return or raise, an executor has a timeout, and PostgreSQL grants a free lock.
  Crashes are allowed and are not forced. Nothing makes a person decide or a
  retry start.
* `TriggerDispatch!FairSpec`: JetStream delivers what is left to deliver, a
  worker goes on with the event it holds, a workflow with its activities: all of
  them have timeouts, and the agent task bounds its steps.
* `AgentTask!FairSpec`: Temporal drives an open execution on, which includes the
  thirty-second poll of a queued workflow. A decision that was committed is
  signalled once, by the call that took it or, when that signal fails, by the
  same decision again, which the API allows for that purpose. People owe nothing:
  no decision, no resume, no stop. Timers of questions may never fire
  (`GiveUp` is not fair, since a required question waits without an end).

* `Conversations!FairSpec`: a call that has committed goes on to its start, and
  workflows go on, one fairness condition for all of them together, which is weaker
  than one for each. It is enough because everything is bounded. Nobody has to
  press, stop or send anything, and a call that died does nothing more:
  `EveryTurnEnds` excepts it, since nothing in the code starts a turn that was
  committed and not started.
* `WorkRequests!FairSpec`: the requester's turn and admitted continuations run on,
  and the dispatch loop ticks. Temporal may refuse again and again, but not for
  ever: starts and acknowledgements are strongly fair. Deciders owe nothing.
* `SandboxRunner!FairSpec`: the runner is restarted (its restart policy), its event
  loop serves every job, a worker that has committed its row submits or dies, and
  the sweep comes round again.
* `OAuthConnections!FairSpec`: a tool call that holds the row goes on, tokens become
  stale, and the refresh workflow goes through its sweeps while it runs; a sweep may
  be held up by a lock, which is why its fairness is strong. `DeadIsNoticed` asks
  for a refresh workflow, which only a successful authorization starts.

Properties that a queue or a person may hold up for ever say so:
`NeverStranded` allows a paused task, an undecided wait and a slot that is taken.

## 5. The proofs

Each component has one module of proofs, and TLAPS checks every theorem in it for all
values of the constants that the named assumptions allow. In most of them the argument
has the same shape: lemmas say, action by action, what a step does to the rows that
matter (`StepDoes`, `NextMoves`, `Touches`), and the invariants are then shown from
these classes of steps and not from thirty actions each. TLC checked the strengthenings on
small instances first, and refuted several early forms of them.

### What is proved

| Theorem | States | Where | Hypothesis |
|---|---|---|---|
| `RunsAtMostOnce` | `AtMostOnce` | `ToolGatewayProofs` | |
| `RefusalsAreTrue` | `RefusedNeverRan` | | |
| `DoubtIsRecorded` | `DoubtIsKept` | | |
| `ApprovalsAreKept` | `ApprovedBeforeRun` | | `Exclusive` |
| `AnswersAreDurable` | `AnswerIsDurable` | | `Exclusive` |
| `BudgetIsKept` | `DispatchBudget` | | `~SessionsFail` |
| `PromiseIsKept` | `KeepsPromise`, the refinement of `ToolEffect` | | `~SessionsFail`, `~RollbackRuns` |
| `AckedHasStarted` | `AckedIsStarted` | `TriggerDispatchProofs` | |
| `TypeCorrect` | `TypeOK` | `AgentTaskProofs` | |
| `SlotsHold` | `SlotsAreLimited` | | |
| `SlotsAreKept` | `KeepsSlots`, the refinement of `RunSlots` | | |
| `TurnsKeepOrder` | `TurnsInOrder` | | |
| `CallsAwaited` | `CallsAreAwaited` | | |
| `TurnsAreSentOnce` | `OneTurnPerId` | `ConversationsProofs` | |
| `TurnsAreResumedOnce` | `ResumedOnce` | | |
| `WithdrawnStaysOut` | `WithdrawnNeverRuns` | | |
| `InstructionsAreRead` | `HeardIsRead` | | |
| `ContinuedOnce` | `ContinuesOnce`, which no run checks | `WorkRequestsProofs` | |
| `OutboxIsKept` | `KeepsOutbox`, the refinement of `ResultOutbox` | | |
| `StopIsKept` | `StoppedStaysStopped` | | |
| `OneWriter` | `OneWriterUnstopped` | | |
| `OneLifetime` | `LedgerIsMemory` | `SandboxRunnerProofs` | |
| `OneContainerRuns` | `OneContainer` | | no fault `docker` |
| `ClosedRowsAreOver` | `ClosedIsOver` | | no fault `docker` |
| `OneEffect` | `EffectOnce` | | no fault `overlap` |
| `OneWriterAtATime` | `ChatHasOneWriter` | `SandboxWorkspacesProofs` | |
| `EvictionsAreTrue` | `EvictedIsEmpty` | | |
| `TreesAreSafe` | `TreesAreKept` | | |
| `PlansHold` | the strengthening that the next two rest on | | |
| `BudgetIsSpentWell` | `SpentWell` | | |
| `RefusalsAreJustified` | `RefusalIsJustified` | | |
| `NoTokenIsReplayed` | `NoReplay` | `OAuthConnectionsProofs` | |
| `NewGrantIsKept` | `NewGrantStays` | | |
| `LandingsAreTrue` | `LandingIsTrue` | | |

Every module of proofs also has a theorem `TypeCorrect`. A hypothesis is never needed by
the proof alone: for each there is an instance without it that TLC refutes (section 6).
`Exclusive` says that a tool that may be dispatched again does not meet lost sessions;
the others are constants of the model, and each run that checks the property has
values that satisfy its hypothesis.

### The inductive invariants

* **Gateway.** `AtMostOnce` is not inductive: that the executor has run once does not by
  itself keep an attempt from being on its way to run it again. `OnceInv` adds who
  may be on that way. Only an attempt with a live session holds the lock
  (`LiveHoldsLock`), a reconnected one has run already (`BareHasRun`), the row of a claim
  is moved between claim and executor only by a detached attempt's
  compare-and-set or by the rollback command (`ClaimIsHeld`), and once something ran,
  the row is in doubt or closed and the holder of the lock is past the executor
  (`EnteredOnce`). `DoubtParts` goes on from there. `Sessions` says that whoever works
  under the lock holds it, under `Exclusive`; on it rest `ApprovedKept`, which ties a
  row that is trusted to run to an approval that was granted, and `AnswerParts`, which
  makes a settled row final. `BudgetParts` counts what each place of an attempt may
  still spend, and `PromiseParts` ties what an attempt knows to what was entered, which
  is what each step of the refinement needs.
* **Triggers.** `Promise`: a worker has dealt with each trigger it left behind, an
  event it has seen or acknowledged is settled, and a row with a task has its workflow.
  Rows and executions only grow, so that what was settled once stays so.
* **Agent task.** `TypeOK` relates the stage of a workflow to the rows it refers to
  and is inductive. Slots: only an admission adds an active run, and it counts under
  the lock; while a workflow is in its loop its run is active (`LoopHasSlot`), so that
  a run parked on a person takes no slot it did not have. Turns: what is over stays
  over (`FinishedIsFinal`). Calls: the gate a loop waits at is the open one
  (`OpenAreAwaited`), or one whose delivery is lost. The refinement needs one part more, `NewestKnown`: the run that an
  execution knows is the newest row of its task, and before it knows one, every row that
  a lost attempt left still counts. Each step is then of one of four kinds (`Rests`,
  `Claims`, `Lays`, `Ends`), and each kind is one action of `RunSlots` or none.
* **Conversations.** A turn's message is looked up and written under one lock
  (`TurnParts`), a successor is written with the stamp that refuses the next one
  (`ResumeParts`), the call that opened a turn is the one that starts it
  (`StartParts`). An instruction is followed through the workflow: pending, seen, or
  late (`HearParts`). That a withdrawn turn stays out needs `Sighted`: where an
  admission that starts the run has looked, no stop is there that it could have seen.
  A commit leaves a row's links (`Keeps`): the one to a successor goes only where `cut`
  says so, and `ResumeParts` asks it of every other turn that was resumed.
* **Work requests.** `Episodes` gives each continuation its places in the outbox in
  order. `QueueParts` is about the line of continuations: what has begun found its
  turn and everything before it over, and what waits does so for the last of them
  that is not. `OneWriterUnstopped` follows by counting to one. The refinement adds
  `HandParts`, who may have a result in hand and what its row and task say then. The
  actions become the kinds `Rests`, `Lines`, `Gives`, `Claims`, `Sends`, `Releases`,
  `Works`, `Closes` and `Quits` of steps on the stages, each one action of `ResultOutbox`
  or none; `ForemostBegins` is the one place where the line matters.
* **Sandbox runner.** `Memory` ties the ledger to the records in both directions.
  `Disk` gives a job that prepares or runs the workspace, and a running container a job
  that watches it. `Closed` compares the clocks: a submission comes within the
  grace and the sweep after the deadline and the grace. `Effect` orders the dispatches of
  a call and says what a later one has read of an earlier, and what the runner
  still remembers, or admits to have forgotten, of each.
* **Workspaces.** `Base`: open binds lock disjoint rows, which no live run holds, and
  change neither holder nor person of the rows they evict (`Locks`, `Apart`), and the
  runner has jobs only of runs that wait for them or have lost them (`Jobs`). On it
  rest `Leased` (a live run holds what it writes on), `Single` (so does anybody who
  writes on a chat's disk), `Planted` (the run whose work is on a disk holds it until
  it parts with it) and `Emptied` (what a row, or an open bind, calls evicted is clean).
  `Plans` follows a sweep through its deletions: what it may still take is on its books
  and free (`Stands`), what it has destroyed for the budget is enough together with the
  victims that remain (`Spends`), and every disk that is free, known and not empty was
  considered (`Considers`). They compare sums over sets of disks of any size, and that
  a sum splits at a member is shown by the smallest set where it would not.
* **OAuth.** `Mutex` is the row lock; `SavingParts` and `CarriedParts` say that the new
  tokens of each renewal and each delivery are fresh and nobody else's, so that
  `NoReplay` survives whatever is saved next. `ClaimParts`, `CodeParts` and
  `AnswerParts` say whose grant the handle is, and that after "connected" nobody is
  left who would say otherwise.

### Assumptions

Budgets, bounds and limits are naturals, and positive where the code rejects zero
(`GatewayAssumption`, `TriggerAssumption`, `AgentTaskAssumption`,
`ConversationsAssumption`, `WorkRequestAssumption`, `BoundsAssumption`,
`TimesAssumption`, `TimeoutAssumption`, `SizesAssumption`, `GiveUpAssumption`). There are
finitely many runs, agents and chats, however many (`FiniteAssumption`), without which a
sum of sizes means nothing. A value
that stands for "none" is not a name (`NoneAssumption`, and in several of the others).
A sandbox job is a pair of a call and a dispatch number (`JobsAssumption`), the worker's
clock is ahead of the runner's by no more than the tolerated skew (`ClockAssumption`),
and disks of agents, chats and runs differ, as their keys begin with the kind of their
owner (`NamesAssumption`, `OwnersAssumption`). TLC evaluates all of them in the runs.
No theorem bounds the number of attempts, tasks, calls, requests, jobs, disks or mishaps.

### Only model-checked

* All liveness properties (`EveryTurnEnds`, `NeverStranded`, `RowsClose` and the
  others): liveness under fairness needs ENABLED, which the provers do not have.
* Nothing else. Every safety property of a passing run and each of the three refinements is proved,
  seven of them under the hypotheses of the table, which the runs that check them meet.

## 6. Where the code and its documentation disagree

One is a run whose property states what a comment says.

* `gateway_rollback`: `rollback.py:27-31` calls the race with live workers safe in
  both directions. The refresh between claim and dispatch can read the closed row
  and then enters the executor outside the compare-and-set.

The others are steps of the models that no property forbids. They are listed for
whoever changes that code, and no run is claimed for them.

* *Gateway.* With lost connections or a rollback an executor entered outside the
  compare-and-set (`UnclearUnfenced`) has an exception of it recorded as `failed`.
  `doubt` counts only what was dispatched, and `DoubtIsKept` is about that. An attempt
  that lost its session works on without the lock. If its tool may be dispatched
  again, it goes round the retry loop, and `_claim_parked_call`
  (`gateway.py:1712-1729`) compares only the status of the row: an attempt that came
  with one approval can claim a call that was parked again under another.
  `ApprovedBeforeRun`, and with the rollback command `AnswerIsDurable`, are refuted
  there, and `Exclusive` says where they hold. The dispatch that an attempt without
  its session marks can also leave the holder of the lock with a claim it has no budget
  for (four attempts, and two approvals or the rollback command), and `KeepsPromise`
  fails with either fault.
* *Triggers.* A workflow id suppresses a duplicate while the first execution is
  open, not afterwards (`matcher.py:364`, against `events.md:103-106`). The check for
  an active task of an entity and the insert of one are not atomic
  (`trigger_activities.py:131`). A prepare attempt that was lost after its commit is
  taken for somebody else's task by its own retry (`triggered_task/workflows.py:72`);
  `EveryTaskEnds` excepts it. An event whose deliveries all fail is dropped.
* *Agent task.* An answer whose delivery fails in every attempt is suppressed
  (`agent_task/workflows.py:1121-1139`), and the loop takes its next step while the
  question is open and the run `waiting_person`; `CallsAreAwaited` excepts that
  question. A stop that is stamped while an admission is under way
  (`tasks/service.py:682-687`, which takes no lock, and `activities.py:318-467`) does not
  keep the turn from a run, and the admission may write the stamp away
  (`activities.py:392-399`, `448-451`); it is then up to the signal.
  An admission retried after a lost answer leaves a run row that
  nobody closes (`activities.py:428`). A call that is parked on a second review is
  not awaited (`agent_task/workflows.py:793`); `CallsAreAwaited` is about approvals
  and questions.
* *Conversations.* An instruction that the last step has read is promoted to a turn
  of its own when the signal comes too late, although
  `conversations/service.py:1990` says that nothing will ever read it. A start that is
  reported as failed and arrived, followed by a press of resume, runs the same words
  twice. It may do so a third time: an admission of the first workflow that read the row
  before the press writes `metadata_json` back without `resumed_by_task_id`
  (`activities.py:392-399`), and the next press finds no successor, although the endpoint
  calls itself "safe to press twice" (`conversations/service.py:2142`). `ResumedOnce`
  excepts such a turn; without the exception an instance with three calls refutes it. A
  process that dies between the commit of a turn and its start leaves that
  turn queued, and those behind it.
* *Work requests.* `docs/architecture/coordination.md:367` promises that a request
  always reaches a terminal state. A person's accept is committed before the
  workflow is started (`coordination/service.py:256`), and a failed start is never
  tried again (`StartByDeciderFails`). Two accepts that race create two tasks
  (`coordination.md:50`). A stop that lands between the dispatch of two continuations
  lets the second begin beside the turn that is stopping, which
  `work_requests.py:871-873` excludes; `OneWriterUnstopped` is the rule while nobody
  stops the turn.
* *Sandbox.* The sweep may write "never submitted, nothing ran" for a redispatch that
  was attached to the first job and whose worker then died
  (`sandbox_reconcile.py:335`).
* *Workspaces.* `workspace.py:459-467` and the console (`cli/commands.py:1627`) promise
  a run whose lease was taken by a forced reset that its next call fails with
  `workspace_lease_lost`. It does not when another run has bound in between and was
  refused or has left: the reset is done and the lease free, and the displaced run binds
  an emptied disk. The console writes what it read before it asked the operator: the
  lease may be another live run's by then, and that run is told nothing
  (`commands.py:1587`); `TreesAreKept` excepts it. A chat bind says that "chat disks were
  preserved" (`conversation_workspace.py:189`), but the sweep of an agent's bind takes
  idle or large chat disks too, also one a person controls, and leaves the row
  `evicted`, out of sight of later sweeps while the chat fills the disk again;
  `EvictedIsEmpty` is about the others, and allows one more case: a job that outlived
  its run, or whose run was displaced, may begin on a disk that has been evicted while
  the job waited for it (TLC finds it with two errands). The binds of agents' disks do not ask
  `has_unconfirmed_jobs`: a job that an ended run left waiting may begin on the tree of
  the next one, although `sandboxing.md:516` calls the disk provably idle. A cleanup
  that a late instruction overtakes has given the disk away, and deleted a private
  one, while the run goes on (`parted`); the same worker process then skips the last
  cleanup (`cleanup_activities.py:110`), and what the run bound again stays held until
  its status frees it. A refused eviction writes the size back that the sweep read,
  over a newer measurement (`workspace.py:775`).
* *OAuth.* A check that began before an administrator disabled a connection writes
  its verdict over the disabled status (`connections/service.py:1262-1266` means to
  prevent that), and so does `mark_needs_reauth`. Of two overlapping polls of a device
  sign-in the refused one deletes the handle the other has yet to claim
  (`oauth/service.py:1622-1624`). A failure after the grant was committed leaves a
  receipt that says "failed"; `LandingIsTrue` allows it only then. A renewal that
  ends in `needs_reauth` beside a new authorization may leave fresh tokens under
  that status.

## 7. Not modelled, and the plan

Modelled in this order, the part people depend on most first; what is left:

1. `ToolGateway` with `ToolEffect`: modelled; every safety property that a run checks,
   and the refinement, are proved as far as they hold.
2. `TriggerDispatch`, `AgentTask`, `Conversations`, `WorkRequests`, `SandboxRunner`,
   `SandboxWorkspaces`, `OAuthConnections`: modelled as far as section 2 says; every
   safety property that a run checks is proved.
3. Abstract specifications: `ToolEffect` for the gateway, `RunSlots` for `AgentTask` and
   `ResultOutbox` for `WorkRequests` are written, checked and proved to be implemented.
   Not written: a disk with one writer for `SandboxRunner`, which its theorems
   `OneContainerRuns` and `OneEffect` state one by one, and a grant that is spent once
   for `OAuthConnections`.
4. Schedules (an occurrence is claimed with its task under the row lock of the
   schedule), the two sessions of reviewers (`reviews.py:463` reads the status without
   a lock): not modelled. Each is a protocol of its own and would be a module of its own.

Not planned: event ingress (one row and one message for a delivery, whose
repetition the ledger absorbs), memory maintenance, engineering tickets, avatars,
the blog corpus and heartbeats (workflows without state shared with another
component), authentication, authorization and record keeping in the API (single
transactions, well covered by tests), the policy evaluator (a pure decision
function whose verdict is an input of `ToolGateway`), model providers, connectors,
rendering and text assembly, the web application, telemetry and deployment.
Outside `SandboxRunner` timing is not modelled: a timeout is something that may
happen, never something that happens first.

## 8. Running

```
tlc -workers 2 -config GatewayOnce.cfg MCToolGateway.tla
tlapm ToolGatewayProofs.tla
```

The other runs are named in `PROJECT.json` with their module and configuration.
Each finishes within four minutes on two cores.
