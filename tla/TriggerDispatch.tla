-------------------------- MODULE TriggerDispatch --------------------------
(***************************************************************************)
(* From a canonical connector event to a unit of agent work: the EVENTS    *)
(* consumer and TriggerMatcher of the event worker, the trigger_invocation *)
(* rows, Temporal's rule for workflow ids, and the prepare step of         *)
(* TriggeredTaskWorkflow (EngineeringTicketWorkflow runs the same one).    *)
(*                                                                         *)
(* JetStream delivers an event again until it is acknowledged, also to a   *)
(* second replica while the first is still at it (ack_wait), MaxDeliver    *)
(* times.  Which triggers match is settled: every trigger in Specs does.   *)
(***************************************************************************)
EXTENDS Naturals, Sequences, FiniteSets

CONSTANTS
  Workers,     \* event worker replicas, each one consumer loop
  Events,      \* messages on the EVENTS stream
  Triggers,
  Entities,
  Changes,     \* transition fingerprints with their time bucket
  Specs,       \* the matching triggers, in the order _triggers_for returns them
  Entity,      \* the external entity an event is about
  Change,      \* what an event says happened to it
  MaxDeliver,  \* max_deliver of the consumer
  MaxPrepare,  \* maximum_attempts of _PREPARE_RETRY
  Faults       \* what may go wrong, of PossibleFaults

PossibleFaults ==
  {"abandoned",       \* a worker dies, or its handler raises
   "rejected_start",  \* a workflow start fails
   "lost_reply",      \* a workflow start succeeds and its caller is told it failed
   "lost_attempt",    \* a prepare attempt dies or times out
   "no_agent"}        \* the target agent is paused or archived

ASSUME TriggerAssumption ==
  /\ Specs \in Seq(Triggers) /\ Specs # <<>>
  /\ Entity \in [Events -> Entities]
  /\ Change \in [Events -> Changes]
  /\ MaxDeliver \in Nat \ {0}
  /\ MaxPrepare \in Nat \ {0}
  /\ Faults \subseteq PossibleFaults

\* build_idempotency_key.  The workflow id is derived from the key alone.
Keys == Triggers \X Entities \X Changes
Key(t, e) == <<t, Entity[e], Change[e]>>
EntityOf(k) == k[2]

VARIABLES
  delivered,  \* how often JetStream handed out each event
  acked,      \* events the consumer has acknowledged
  at,         \* where each worker stands, on which event, trigger and row
  seen,       \* event ids each worker remembers (EventProcessor._seen)
  rows,       \* trigger_invocation rows; `duplicate` rows, which nobody reads, are left out
  runs,       \* workflow executions, the id of each being its key
  tasks,      \* task rows created for external entities
  late,       \* executions with a timed-out prepare attempt that will still insert
  agentActive \* does the target of the triggers resolve to an active agent?

streamVars == <<delivered, acked>>
workerVars == <<at, seen>>
workVars   == <<runs, tasks, late>>
vars == <<streamVars, workerVars, rows, workVars, agentActive>>

None == 0  \* no row, no task
Idle == [stage |-> "idle"]
Stages == {"record", "reconcile", "dispatch", "fail", "ack"}
Handling == [stage : Stages, event : Events, spec : DOMAIN Specs, row : Nat]

Preparing == {"check", "insert", "found", "made"}
Open      == Preparing \cup {"child"}
Closed    == {"done", "skipped", "failed"}

TypeOK ==
  /\ delivered \in [Events -> 0..MaxDeliver]
  /\ acked \subseteq Events
  /\ at \in [Workers -> {Idle} \cup Handling]
  /\ seen \in [Workers -> SUBSET Events]
  /\ rows \in Seq([key : Keys, status : {"started", "failed"},
                   error : {"none", "no_agent", "dispatch"}, task : Nat])
  /\ runs \in Seq([key : Keys, row : DOMAIN rows, stage : Open \cup Closed,
                   attempt : 1..MaxPrepare, task : Nat])
  /\ tasks \in Seq([entity : Entities, active : BOOLEAN, by : DOMAIN runs])
  /\ late \subseteq DOMAIN runs
  /\ agentActive \in BOOLEAN

Init ==
  /\ delivered = [e \in Events |-> 0]
  /\ acked = {}
  /\ at = [w \in Workers |-> Idle]
  /\ seen = [w \in Workers |-> {}]
  /\ rows = <<>> /\ runs = <<>> /\ tasks = <<>> /\ late = {}
  /\ agentActive = TRUE

-----------------------------------------------------------------------------
(* The consumer loop.                                                      *)

KeyAt(w) == Key(Specs[at[w].spec], at[w].event)

Goto(w, stage, row) == at' = [at EXCEPT ![w].stage = stage, ![w].row = row]

\* The next matching trigger, or the end of handle_event.
Onward(w) ==
  IF at[w].spec = Len(Specs)
    THEN Goto(w, "ack", None)
    ELSE at' = [at EXCEPT ![w].stage = "record", ![w].spec = at[w].spec + 1, ![w].row = None]

\* An event this process has seen to the end is acknowledged unread.
Fetch(w, e) ==
  /\ at[w] = Idle
  /\ e \notin acked /\ delivered[e] < MaxDeliver
  /\ delivered' = [delivered EXCEPT ![e] = @ + 1]
  /\ IF e \in seen[w]
       THEN acked' = acked \cup {e} /\ UNCHANGED at
       ELSE /\ at' = [at EXCEPT ![w] =
                        [stage |-> "record", event |-> e, spec |-> 1, row |-> None]]
            /\ UNCHANGED acked
  /\ UNCHANGED <<seen, rows, workVars, agentActive>>

\* Remembered after the dispatch and before the acknowledgement.
Ack(w) ==
  /\ at[w].stage = "ack"
  /\ seen' = [seen EXCEPT ![w] = @ \cup {at[w].event}]
  /\ acked' = acked \cup {at[w].event}
  /\ at' = [at EXCEPT ![w] = Idle]
  /\ UNCHANGED <<delivered, rows, workVars, agentActive>>

\* The process dies and forgets, or the handler raises and naks.
Abandon(w) ==
  /\ "abandoned" \in Faults
  /\ at[w] # Idle
  /\ at' = [at EXCEPT ![w] = Idle]
  /\ \/ UNCHANGED seen
     \/ seen' = [seen EXCEPT ![w] = {}]
  /\ UNCHANGED <<streamVars, rows, workVars, agentActive>>

-----------------------------------------------------------------------------
(* TriggerMatcher._invoke, for one trigger.                                *)

Started(k) == {i \in DOMAIN rows : rows[i].key = k /\ rows[i].status = "started"}

NewRow(k, status, error) == [key |-> k, status |-> status, error |-> error, task |-> None]

\* _record_started with its commit.  The partial unique index lets one started
\* row through for a key, however many workers find none.
RecordStarted(w) ==
  /\ at[w].stage = "record"
  /\ Started(KeyAt(w)) = {} /\ agentActive
  /\ rows' = Append(rows, NewRow(KeyAt(w), "started", "none"))
  /\ Goto(w, "dispatch", Len(rows'))
  /\ UNCHANGED <<streamVars, seen, workVars, agentActive>>

RecordNoAgent(w) ==
  /\ at[w].stage = "record"
  /\ Started(KeyAt(w)) = {} /\ ~agentActive
  /\ rows' = Append(rows, NewRow(KeyAt(w), "failed", "no_agent"))
  /\ Onward(w)
  /\ UNCHANGED <<streamVars, seen, workVars, agentActive>>

\* The duplicate row is committed; what the started row says is read after that.
RecordDuplicate(w) ==
  /\ at[w].stage = "record"
  /\ Started(KeyAt(w)) # {}
  /\ Goto(w, "reconcile", None)
  /\ UNCHANGED <<streamVars, seen, rows, workVars, agentActive>>

Unfinished(k) == {i \in Started(k) : rows[i].task = None}

\* Wrong: a duplicate stops, whatever became of the row it duplicates.
ReconcileNever(w) ==
  /\ at[w].stage = "reconcile"
  /\ Onward(w)
  /\ UNCHANGED <<streamVars, seen, rows, workVars, agentActive>>

\* A started row without a task never reached Temporal, as far as anyone knows.
\* When its agent is gone it is left as it is.
Reconcile(w) ==
  /\ at[w].stage = "reconcile"
  /\ IF agentActive /\ Unfinished(KeyAt(w)) # {}
       THEN \E i \in Unfinished(KeyAt(w)) : Goto(w, "dispatch", i)
       ELSE Onward(w)
  /\ UNCHANGED <<streamVars, seen, rows, workVars, agentActive>>

OpenRuns(k) == {r \in DOMAIN runs : runs[r].key = k /\ runs[r].stage \in Open}

NewRun(k, row) == [key |-> k, row |-> row, stage |-> "check", attempt |-> 1, task |-> None]

\* Temporal rejects a second start while the first execution is open, and only
\* then; WorkflowAlreadyStartedError counts as success.
StartWorkflow(w) ==
  /\ at[w].stage = "dispatch"
  /\ IF OpenRuns(KeyAt(w)) = {}
       THEN runs' = Append(runs, NewRun(KeyAt(w), at[w].row))
       ELSE UNCHANGED runs
  /\ Onward(w)
  /\ UNCHANGED <<streamVars, seen, rows, tasks, late, agentActive>>

\* Any other error, whatever Temporal did before it.
StartFails(w) ==
  /\ at[w].stage = "dispatch"
  /\ \/ "rejected_start" \in Faults /\ UNCHANGED runs
     \/ /\ "lost_reply" \in Faults
        /\ OpenRuns(KeyAt(w)) = {}
        /\ runs' = Append(runs, NewRun(KeyAt(w), at[w].row))
  /\ Goto(w, "fail", at[w].row)
  /\ UNCHANGED <<streamVars, seen, rows, tasks, late, agentActive>>

\* Wrong: the start is tried again on the spot instead of being nak'd.
FailStartedRetrying(w) ==
  /\ at[w].stage = "fail"
  /\ Goto(w, "dispatch", at[w].row)
  /\ UNCHANGED <<streamVars, seen, rows, workVars, agentActive>>

\* _fail_started_authority, then the nak.  Its own failure is contained.
FailStarted(w) ==
  /\ at[w].stage = "fail"
  /\ LET row == at[w].row IN
       \/ /\ rows[row].status = "started"
          /\ rows' = [rows EXCEPT ![row].status = "failed", ![row].error = "dispatch"]
       \/ UNCHANGED rows
  /\ at' = [at EXCEPT ![w] = Idle]
  /\ UNCHANGED <<streamVars, seen, workVars, agentActive>>

-----------------------------------------------------------------------------
(* TriggeredTaskWorkflow: prepare, then the child AgentTaskWorkflow.       *)

ActiveTasks(entity) == {t \in DOMAIN tasks : tasks[t].entity = entity /\ tasks[t].active}

Enter(r, stage) == runs' = [runs EXCEPT ![r].stage = stage]

\* _link_invocation
Link(r, t) == rows' = [rows EXCEPT ![runs[r].row].task = t]

\* The read of prepare_triggered_task_activity.  An active task of the entity
\* is linked and reported; nothing locks the absence of one.
PrepareCheck(r) ==
  /\ runs[r].stage = "check"
  /\ LET active == ActiveTasks(EntityOf(runs[r].key)) IN
       \/ \E t \in active :
            /\ Link(r, t)
            /\ runs' = [runs EXCEPT ![r].stage = "found", ![r].task = t]
       \/ active = {} /\ Enter(r, "insert") /\ UNCHANGED rows
  /\ UNCHANGED <<streamVars, workerVars, tasks, late, agentActive>>

\* The trigger was deleted: a non-retryable error closes the workflow.
PrepareRefused(r) ==
  /\ runs[r].stage = "check"
  /\ Enter(r, "failed")
  /\ UNCHANGED <<streamVars, workerVars, rows, tasks, late, agentActive>>

CreateTask(r) ==
  /\ tasks' = Append(tasks, [entity |-> EntityOf(runs[r].key), active |-> TRUE, by |-> r])
  /\ Link(r, Len(tasks'))

PrepareInsert(r) ==
  /\ runs[r].stage = "insert"
  /\ CreateTask(r)
  /\ runs' = [runs EXCEPT ![r].stage = "made", ![r].task = Len(tasks')]
  /\ UNCHANGED <<streamVars, workerVars, late, agentActive>>

\* Nobody stops an attempt that Temporal gave up on.
LateInsert(r) ==
  /\ r \in late
  /\ CreateTask(r)
  /\ late' = late \ {r}
  /\ UNCHANGED <<streamVars, workerVars, runs, agentActive>>

\* Wrong: a task this workflow created is taken for somebody else's.
PreparedSkips(r) ==
  /\ runs[r].stage \in {"found", "made"}
  /\ Enter(r, "skipped")
  /\ UNCHANGED <<streamVars, workerVars, rows, tasks, late, agentActive>>

\* The activity's result reaches the workflow: `created` decides what follows.
Prepared(r) ==
  /\ \/ runs[r].stage = "found" /\ Enter(r, "skipped")
     \/ runs[r].stage = "made"  /\ Enter(r, "child")
  /\ UNCHANGED <<streamVars, workerVars, rows, tasks, late, agentActive>>

\* The attempt dies or times out, before or after its commit: Temporal tries
\* again from the top, and fails the workflow when it may not.
LoseAttempt(r) ==
  /\ "lost_attempt" \in Faults
  /\ runs[r].stage \in Preparing
  /\ runs' = [runs EXCEPT ![r] =
       IF @.attempt = MaxPrepare
         THEN [@ EXCEPT !.stage = "failed"]
         ELSE [@ EXCEPT !.stage = "check", !.attempt = runs[r].attempt + 1, !.task = None]]
  /\ \/ UNCHANGED late
     \/ runs[r].stage = "insert" /\ late' = late \cup {r}
  /\ UNCHANGED <<streamVars, workerVars, rows, tasks, agentActive>>

\* The child AgentTaskWorkflow runs the task to its end.
ChildEnds(r) ==
  /\ runs[r].stage = "child"
  /\ Enter(r, "done")
  /\ tasks' = [tasks EXCEPT ![runs[r].task].active = FALSE]
  /\ UNCHANGED <<streamVars, workerVars, rows, late, agentActive>>

AgentStops ==
  /\ "no_agent" \in Faults
  /\ agentActive' = FALSE
  /\ UNCHANGED <<streamVars, workerVars, rows, workVars>>

-----------------------------------------------------------------------------

\* What a worker does by itself with the event it holds.
Handle(w) ==
  \/ RecordStarted(w) \/ RecordNoAgent(w) \/ RecordDuplicate(w) \/ Reconcile(w)
  \/ StartWorkflow(w) \/ StartFails(w) \/ FailStarted(w) \/ Ack(w)

\* What a workflow does by itself.
Work(r) ==
  \/ PrepareCheck(r) \/ PrepareRefused(r) \/ PrepareInsert(r) \/ Prepared(r) \/ ChildEnds(r)

Next ==
  \/ \E w \in Workers : (\E e \in Events : Fetch(w, e)) \/ Handle(w) \/ Abandon(w)
  \/ \E r \in DOMAIN runs : Work(r) \/ LateInsert(r) \/ LoseAttempt(r)
  \/ AgentStops

Spec == Init /\ [][Next]_vars

\* JetStream redelivers, handlers and activities return (every call of theirs
\* has a timeout), and agents finish: AgentTaskWorkflow bounds its steps.
MaxRuns == Cardinality(Events) * MaxDeliver * Len(Specs)
FairSpec ==
  /\ Spec
  /\ WF_vars(\E w \in Workers, e \in Events : Fetch(w, e))
  /\ \A w \in Workers : WF_vars(Handle(w))
  /\ \A r \in 1..MaxRuns : WF_vars(r \in DOMAIN runs /\ Work(r))

-----------------------------------------------------------------------------
(* Properties.                                                             *)

\* No prepare attempt was lost, no start failed.
NoneLost == late = {} /\ \A r \in DOMAIN runs : runs[r].attempt = 1 /\ runs[r].stage # "failed"
NoneFailed(k) == \A i \in DOMAIN rows : rows[i].key = k => rows[i].error # "dispatch"

HasRun(k) == \E r \in DOMAIN runs : runs[r].key = k

\* An acknowledged event has had its workflow started for every trigger it
\* matched, also when a worker died between the started row and Temporal
\* (_unfinished_started_authority), unless its agent is gone or a start failed:
\* an event acknowledged on a row that another replica marked failed is excepted.
AckedIsStarted ==
  agentActive =>
    \A e \in acked, i \in DOMAIN Specs :
      NoneFailed(Key(Specs[i], e)) => HasRun(Key(Specs[i], e))

\* Every task that is created is worked off, unless a prepare attempt was lost.
EveryTaskEnds ==
  \A t \in 1..MaxRuns :
    (t \in DOMAIN tasks /\ tasks[t].active) ~> (t \in DOMAIN tasks /\ ~tasks[t].active) \/ ~NoneLost

\* Every event is acknowledged or out of deliveries in the end, and no worker
\* is stuck with one (run_pull_consumer handles one message at a time).
EveryEventSettles ==
  <>[](/\ \A e \in Events : e \in acked \/ delivered[e] = MaxDeliver
       /\ \A w \in Workers : at[w] = Idle)

=============================================================================
