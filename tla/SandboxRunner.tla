---------------------------- MODULE SandboxRunner ----------------------------
(***************************************************************************)
(* A tool call that runs in the sandbox: the tool worker records a         *)
(* sandbox_job row, submits the job to the runner and polls it             *)
(* (jhin_connectors/cli/tools.py, runner_client.py); the runner keeps its  *)
(* jobs, the invocation ledger and the workspace hold in memory            *)
(* (jhin_sandbox_runner/jobs.py); a sweep closes the rows whose worker     *)
(* died (jhin_tool_worker/sandbox_reconcile.py).                           *)
(*                                                                         *)
(* A job is <<call, n>>, the n-th dispatch of a tool call.  All calls      *)
(* share one workspace.  Worker and runner read one clock, the worker's    *)
(* being Ahead of the runner's by at most the runner's Skew.               *)
(***************************************************************************)
EXTENDS Integers, FiniteSets, FiniteSetsExt

CONSTANTS
  Jobs,        \* the dispatches, pairs <<call, n>> with n counted from 1
  None,        \* the absent value
  MaxTime,     \* the last instant of the run
  Timeout,     \* timeout_seconds of every job
  Grace,       \* the sweep's grace past a job's own deadline
  Retention,   \* sandbox_job_record_retention_seconds
  Skew,        \* _INCARNATION_SKEW
  Ahead,       \* how far the worker's clock runs ahead of the runner's
  Restarts,    \* bound: how often the runner stops
  Tended,      \* bound: the jobs whose worker may die and whose row is swept
  Faults       \* which of "overlap" and "docker" may happen

ASSUME TimesAssumption ==
  {MaxTime, Timeout, Grace, Retention, Skew, Ahead, Restarts} \subseteq Nat
ASSUME ClockAssumption == Ahead <= Skew
\* A job's timeout is positive (JobRequest.timeout_seconds).
ASSUME TimeoutAssumption == Timeout > 0
\* A job is a pair, and its dispatches are counted from one.
ASSUME JobsAssumption ==
  /\ \A j \in Jobs : j = <<j[1], j[2]>> /\ j[2] \in Nat \ {0}
  /\ None \notin Jobs /\ None \notin Nat
ASSUME FaultsAssumption == Faults \subseteq {"overlap", "docker"}

VARIABLES
  now,         \* the runner's clock
  worker,      \* how far the worker of each dispatch has come
  prior,       \* the prior_dispatch_at it read, None for "there was none"
  row,         \* the sandbox_job row of each dispatch
  follows,     \* the job the runner named on submission
  serving,     \* whether the runner process answers
  since,       \* _serving_since
  forgotten,   \* _forgotten_through
  record,      \* _jobs
  ledger,      \* _invocations: the job that answers for each call
  holder,      \* _workspace_holders of the one workspace
  container,   \* what Docker holds of each job
  sweep,       \* the row the sweep is looking at, with what it read
  stops        \* how often the runner has stopped

wvars == <<worker, prior, row, follows>>
rvars == <<serving, since, forgotten, record, ledger, holder, stops>>
vars == <<now, wvars, rvars, container, sweep>>

Times == 0..(MaxTime + Ahead)
Calls == {j[1] : j \in Jobs}
Siblings(j) == {k \in Jobs : k[1] = j[1]}
WorkerStages ==
  {"none", "submitting", "polling", "answered", "dead"}

NoRow == [at |-> 0, status |-> "none", code |-> "none"]
Rows == {NoRow} \cup
  [at : Times, status : {"running", "closed"},
   code : {"none", "runner_error", "reported", "redispatch_unprovable",
           "reaped", "never_submitted", "outcome_forgotten"}]

NoRecord == [at |-> 0, stage |-> "none", end |-> 0, cancel |-> FALSE]
Records == {NoRecord} \cup
  [at : Times, end : 0..(MaxTime + Timeout), cancel : BOOLEAN,
   stage : {"queued", "preparing", "watching", "ended", "gaveup"}]

NoSweep == [job |-> None, moment |-> 0, code |-> "none", since |-> None]
Sweeps == {NoSweep} \cup
  [job : Jobs, moment : Times, code : {"none", "runner_error"},
   since : Times \cup {None}]

TypeOK ==
  /\ now \in 0..MaxTime
  /\ worker \in [Jobs -> WorkerStages]
  /\ prior \in [Jobs -> Times \cup {None}]
  /\ row \in [Jobs -> Rows]
  /\ follows \in [Jobs -> Jobs \cup {None}]
  /\ serving \in BOOLEAN
  /\ since \in Times
  /\ forgotten \in Times \cup {None}
  /\ record \in [Jobs -> Records]
  /\ ledger \in [Calls -> Jobs \cup {None}]
  /\ holder \in Jobs \cup {None}
  /\ container \in [Jobs -> {"none", "running", "gone"}]
  /\ sweep \in Sweeps
  /\ stops \in 0..Restarts

Init ==
  /\ now = 0
  /\ worker = [j \in Jobs |-> "none"]
  /\ prior = [j \in Jobs |-> None]
  /\ row = [j \in Jobs |-> NoRow]
  /\ follows = [j \in Jobs |-> None]
  /\ serving = TRUE
  /\ since = 0
  /\ forgotten = None
  /\ record = [j \in Jobs |-> NoRecord]
  /\ ledger = [c \in Calls |-> None]
  /\ holder = None
  /\ container = [j \in Jobs |-> "none"]
  /\ sweep = NoSweep
  /\ stops = 0

(***************************************************************************)
(* The worker: history, row, submission, poll.                             *)
(***************************************************************************)

\* Recovery dispatches a call again once the worker that had it is gone.  A
\* worker that is only slow may still be at work when it does ("overlap").
Redispatchable(j) ==
  \A k \in Siblings(j) : k[2] < j[2] =>
    \/ worker[k] = "dead"
    \/ "overlap" \in Faults /\ worker[k] # "none"

\* _dispatch_history: the earliest started_at of the call's rows.
Earlier(j) ==
  LET stamps == {row[k].at : k \in {k \in Siblings(j) : row[k] # NoRow}} IN
  IF stamps = {} THEN None ELSE Min(stamps)

\* _run_job: when the call was dispatched before, then a row of this job's
\* own, committed before anything is submitted.  No other dispatch of the call
\* writes rows in between.  A history that cannot be read, and a row that
\* cannot be written, refuse the dispatch.
Dispatch(j) ==
  /\ worker[j] = "none"
  /\ Redispatchable(j)
  /\ \/ /\ prior' = [prior EXCEPT ![j] = Earlier(j)]
        /\ row' = [row EXCEPT ![j] =
             [at |-> now + Ahead, status |-> "running", code |-> "none"]]
        /\ worker' = [worker EXCEPT ![j] = "submitting"]
     \/ /\ worker' = [worker EXCEPT ![j] = "answered"]
        /\ UNCHANGED <<prior, row>>
  /\ UNCHANGED <<now, follows, rvars, container, sweep>>

\* The worker ends its dispatch and closes the row, whatever the row says by
\* then (_JobEvidence.closed).  An update that fails is only lost, and leaves
\* the row as the worker's death does.
Conclude(j, status, code) ==
  /\ worker' = [worker EXCEPT ![j] = "answered"]
  /\ prior' = [prior EXCEPT ![j] = None]
  /\ row' = [row EXCEPT ![j].status = status, ![j].code = code]

\* A runner that does not answer leaves the row running (SandboxRunnerError).
Uncertain(j) == Conclude(j, "running", "runner_error")

WorkerDies(j) ==
  /\ j \in Tended
  /\ worker[j] \in {"submitting", "polling"}
  /\ worker' = [worker EXCEPT ![j] = "dead"]
  /\ prior' = [prior EXCEPT ![j] = None]
  /\ UNCHANGED <<now, row, follows, rvars, container, sweep>>

(***************************************************************************)
(* The runner's memory.                                                    *)
(***************************************************************************)

Ended(j) == record[j].stage \in {"ended", "gaveup"}

Forgettable(j) ==
  Ended(j) /\ now >= record[j].end + Retention

\* _forget_expired: a record and its ledger entry go together, and the
\* watermark moves past the dispatch that went.
Dropped == {j \in Jobs : Forgettable(j)}
Kept == [j \in Jobs |-> IF j \in Dropped THEN NoRecord ELSE record[j]]
KeptLedger == [c \in Calls |-> IF ledger[c] \in Dropped THEN None ELSE ledger[c]]
Watermark ==
  LET gone == {record[j].at : j \in {j \in Dropped : ledger[j[1]] = j}}
      known == gone \cup ({forgotten} \ {None})
  IN  IF known = {} THEN None ELSE Max(known)

\* Wrong: forgetting leaves no trace.
RememberingSinceStart == since

\* _remembering_since, once the expired records have been forgotten.
RememberingSince == Max({since} \cup ({Watermark} \ {None}))

\* The dispatch may be one that ran before this memory begins, or its stamp
\* shows clocks that disagree by more than the comparison tolerates.
Unaccountable(j) ==
  /\ prior[j] # None
  /\ prior[j] > now + Skew \/ prior[j] <= RememberingSince + Skew

Attach(j) ==
  /\ KeptLedger[j[1]] # None
  /\ Kept[KeptLedger[j[1]]] # NoRecord
  /\ follows' = [follows EXCEPT ![j] = KeptLedger[j[1]]]
  /\ worker' = [worker EXCEPT ![j] = "polling"]
  /\ prior' = [prior EXCEPT ![j] = None]
  /\ record' = Kept
  /\ ledger' = KeptLedger
  /\ UNCHANGED row

Refuse(j) ==
  /\ IF KeptLedger[j[1]] # None
       THEN Kept[KeptLedger[j[1]]] = NoRecord
       ELSE Unaccountable(j)
  /\ Conclude(j, "closed", "redispatch_unprovable")
  /\ record' = Kept
  /\ ledger' = KeptLedger
  /\ UNCHANGED follows

Accept(j) ==
  /\ KeptLedger[j[1]] = None
  /\ ~Unaccountable(j)
  /\ record' = [Kept EXCEPT ![j] =
       [at |-> now, stage |-> "queued", end |-> now, cancel |-> FALSE]]
  /\ ledger' = [KeptLedger EXCEPT ![j[1]] = j]
  /\ follows' = [follows EXCEPT ![j] = j]
  /\ worker' = [worker EXCEPT ![j] = "polling"]
  /\ prior' = [prior EXCEPT ![j] = None]
  /\ UNCHANGED row

\* POST /v1/jobs: one synchronous stretch of the runner's event loop.
Submit(j) ==
  /\ worker[j] = "submitting"
  /\ \/ /\ ~serving
        /\ Uncertain(j)
        /\ UNCHANGED <<follows, rvars>>
     \/ /\ serving
        /\ Attach(j) \/ Refuse(j) \/ Accept(j)
        /\ forgotten' = Watermark
        /\ UNCHANGED <<serving, since, holder, stops>>
  /\ UNCHANGED <<now, container, sweep>>

\* GET /v1/jobs/{id} of the job the runner named.  A poll may fail while the
\* runner serves; a submission whose answer is lost is one whose first poll fails.
Poll(j) ==
  LET f == follows[j] IN
  /\ worker[j] = "polling"
  /\ \/ Uncertain(j)
     \/ /\ serving
        /\ Ended(f)
        /\ Conclude(j, "closed", "reported")
  /\ UNCHANGED <<now, follows, rvars, container, sweep>>

\* The client's deadline passes: it cancels the job it follows and gives up.
\* The kill reaches a container only once it runs (JobManager.cancel).
Expire(j) ==
  LET f == follows[j] IN
  /\ worker[j] = "polling"
  /\ serving
  /\ record[f] # NoRecord
  /\ ~Ended(f)
  /\ now + Ahead > row[j].at + Timeout
  /\ record' = [record EXCEPT ![f].cancel = TRUE]
  /\ container' = IF container[f] = "running"
                    THEN [container EXCEPT ![f] = "gone"] ELSE container
  /\ Uncertain(j)
  /\ UNCHANGED <<now, follows, serving, since, forgotten, ledger, holder,
                 stops, sweep>>

(***************************************************************************)
(* The runner's jobs (JobManager._run), each a task of one event loop.     *)
(***************************************************************************)

\* The later of the job's ending and its own deadline: what retention counts
\* from (_forgettable).
End(j, stage) ==
  record' = [record EXCEPT ![j].stage = stage,
                           ![j].end = Max({now, record[j].at + Timeout})]

\* _workspace_is_free tests and claims in one step.
Hold(j) ==
  /\ serving
  /\ record[j].stage = "queued"
  /\ ~record[j].cancel
  /\ holder \in {None, j}
  /\ holder' = j
  /\ record' = [record EXCEPT ![j].stage = "preparing"]
  /\ UNCHANGED <<now, wvars, serving, since, forgotten, ledger, stops,
                 container, sweep>>

\* Wrong: a dispatch that gave up stays in the ledger.
WithDispatch(j) == ledger

\* _forget_dispatch: a dispatch that ran nothing is no answer about its call.
WithoutDispatch(j) ==
  [c \in Calls |-> IF ledger[c] = j THEN None ELSE ledger[c]]

GiveUp(j) ==
  /\ serving
  /\ record[j].stage = "queued"
  /\ record[j].cancel \/ holder \notin {None, j}
  /\ End(j, "gaveup")
  /\ ledger' = WithoutDispatch(j)
  /\ UNCHANGED <<now, wvars, serving, since, forgotten, holder, stops,
                 container, sweep>>

\* The volume's init container, the create or the start may fail; what was
\* created is deleted before the workspace is let go.
PrepareFails(j) ==
  /\ serving
  /\ record[j].stage = "preparing"
  /\ End(j, "ended")
  /\ holder' = IF holder = j THEN None ELSE holder
  /\ UNCHANGED <<now, wvars, serving, since, forgotten, ledger, stops,
                 container, sweep>>

StartContainer(j) ==
  /\ serving
  /\ record[j].stage = "preparing"
  /\ container' = [container EXCEPT ![j] = "running"]
  /\ record' = [record EXCEPT ![j].stage = "watching"]
  /\ UNCHANGED <<now, wvars, serving, since, forgotten, ledger, holder,
                 stops, sweep>>

\* The container ended by itself, at its timeout or by a kill; it is
\* force-removed and only then the workspace is let go.
Collect(j) ==
  /\ serving
  /\ record[j].stage = "watching"
  /\ End(j, "ended")
  /\ container' = [container EXCEPT ![j] = "gone"]
  /\ holder' = IF holder = j THEN None ELSE holder
  /\ UNCHANGED <<now, wvars, serving, since, forgotten, ledger, stops, sweep>>

\* Docker answers the kill or the status read, and then the removal, with an
\* error: both are suppressed and the job ends with its container running.
CollectFails(j) ==
  /\ "docker" \in Faults
  /\ serving
  /\ record[j].stage = "watching"
  /\ container[j] = "running"
  /\ End(j, "ended")
  /\ holder' = IF holder = j THEN None ELSE holder
  /\ UNCHANGED <<now, wvars, serving, since, forgotten, ledger, stops,
                 container, sweep>>

(***************************************************************************)
(* The runner's process.  The registry lives in memory; Docker's           *)
(* containers outlive it until the next start reaps them.                  *)
(***************************************************************************)

Stop ==
  /\ serving
  /\ stops < Restarts
  /\ stops' = stops + 1
  /\ serving' = FALSE
  /\ record' = [j \in Jobs |-> NoRecord]
  /\ ledger' = [c \in Calls |-> None]
  /\ holder' = None
  /\ forgotten' = None
  /\ UNCHANGED since

\* A process that dies leaves its containers running.
Crash ==
  /\ Stop
  /\ UNCHANGED <<now, wvars, container, sweep>>

\* close: no request is answered any more, every job in flight is killed.
Close ==
  /\ Stop
  /\ container' = [j \in Jobs |->
       IF container[j] = "running" THEN "gone" ELSE container[j]]
  /\ UNCHANGED <<now, wvars, sweep>>

\* Wrong: the runner serves without reaping.
StartUnreaped ==
  /\ ~serving
  /\ since' = now
  /\ serving' = TRUE
  /\ UNCHANGED <<now, wvars, forgotten, record, ledger, holder, stops,
                 container, sweep>>

\* start: reap every labelled container, then begin to serve.
Start ==
  /\ ~serving
  /\ container' = [j \in Jobs |->
       IF container[j] = "none" THEN "none" ELSE "gone"]
  /\ since' = now
  /\ serving' = TRUE
  /\ UNCHANGED <<now, wvars, forgotten, record, ledger, holder, stops, sweep>>

(***************************************************************************)
(* The sweep: an overdue row, the runner's memory, then the probe and a    *)
(* compare-and-set on what was read.                                       *)
(***************************************************************************)

\* Wrong: a row whose worker lost the runner is not looked at.
OverdueUnmarked(j) ==
  /\ row[j].status = "running"
  /\ row[j].code = "none"
  /\ row[j].at + Timeout + Grace <= now + Ahead

Overdue(j) ==
  row[j].status = "running" /\ row[j].at + Timeout + Grace <= now + Ahead

SweepBegin(j) ==
  /\ sweep = NoSweep
  /\ j \in Tended
  /\ Overdue(j)
  /\ sweep' = [job |-> j, moment |-> now + Ahead, code |-> row[j].code,
               since |-> IF serving THEN since ELSE None]
  /\ UNCHANGED <<now, wvars, rvars, container>>

\* absence_of: what a 404 proves, by what the runner said it remembers.
Absence ==
  LET started == row[sweep.job].at IN
  IF started < sweep.since THEN "reaped"
  ELSE IF sweep.moment < started + Timeout + Retention THEN "never_submitted"
  ELSE "outcome_forgotten"

SweepCloses(j, code) ==
  IF row[j].status = "running" /\ row[j].code = sweep.code
    THEN row' = [row EXCEPT ![j].status = "closed", ![j].code = code]
    ELSE UNCHANGED row

\* Wrong: a runner that cannot be asked counts as one that does not know.
SweepEndUnasked ==
  LET j == sweep.job IN
  /\ sweep # NoSweep
  /\ IF record[j] = NoRecord
       THEN IF sweep.since = None THEN UNCHANGED row ELSE SweepCloses(j, Absence)
       ELSE IF Ended(j) THEN SweepCloses(j, "reported") ELSE UNCHANGED row
  /\ sweep' = NoSweep
  /\ UNCHANGED <<now, worker, prior, follows, rvars, container>>

SweepEnd ==
  LET j == sweep.job IN
  /\ sweep # NoSweep
  /\ \/ ~serving /\ UNCHANGED row
     \/ /\ serving
        /\ record[j] = NoRecord
        /\ IF sweep.since = None THEN UNCHANGED row
                                 ELSE SweepCloses(j, Absence)
     \/ /\ serving
        /\ record[j] # NoRecord
        /\ IF Ended(j) THEN SweepCloses(j, "reported") ELSE UNCHANGED row
  /\ sweep' = NoSweep
  /\ UNCHANGED <<now, worker, prior, follows, rvars, container>>

\* Time.  A worker that has committed its row submits within the grace (the
\* submission's own HTTP timeout is a tenth of it).
Tick ==
  /\ now < MaxTime
  /\ \A j \in Jobs : worker[j] = "submitting" => now + Ahead < row[j].at + Grace
  /\ now' = now + 1
  /\ UNCHANGED <<wvars, rvars, container, sweep>>

JobStep(j) ==
  Hold(j) \/ GiveUp(j) \/ PrepareFails(j) \/ StartContainer(j) \/ Collect(j)

Next ==
  \/ \E j \in Jobs :
       \/ Dispatch(j) \/ Submit(j) \/ Poll(j) \/ Expire(j)
       \/ WorkerDies(j) \/ JobStep(j) \/ CollectFails(j)
       \/ SweepBegin(j)
  \/ SweepEnd \/ Crash \/ Close \/ Start \/ Tick

Spec == Init /\ [][Next]_vars

\* The runner is restarted, its event loop serves every job, the sweep comes
\* round again, a worker that has committed its row submits or dies, and
\* time passes.
FairSpec ==
  /\ Spec
  /\ WF_vars(Start) /\ WF_vars(Tick) /\ WF_vars(SweepEnd)
  /\ \A j \in Jobs : WF_vars(JobStep(j)) /\ SF_vars(SweepBegin(j))
  /\ \A j \in Jobs : WF_vars(Submit(j))

(***************************************************************************)
(* Properties.                                                             *)
(***************************************************************************)

\* However often a call is dispatched, whatever dies or is forgotten in
\* between, at most one of its jobs ever gets a container (submit's promise:
\* "a second dispatch of an edit therefore cannot apply the edit twice").
EffectOnce ==
  \A c \in Calls :
    Cardinality({j \in Jobs : j[1] = c /\ container[j] # "none"}) <= 1

\* Two containers never run on the workspace's disk at once, in one runner's
\* life or across two (_run: "the next job on this disk must not start while
\* this one still has a process on it").
OneContainer ==
  Cardinality({j \in Jobs : container[j] = "running"}) <= 1

\* The ledger and the records have one lifetime: an entry names a job the
\* runner still holds and that did not give up in the queue, and every such
\* job is the one that answers for its call (_invocations: "one authority,
\* one lifetime").
LedgerIsMemory ==
  /\ \A c \in Calls : ledger[c] # None =>
       /\ record[ledger[c]] # NoRecord
       /\ record[ledger[c]].stage # "gaveup"
  /\ \A j \in Jobs : record[j] # NoRecord /\ record[j].stage # "gaveup" =>
       ledger[j[1]] = j

\* A row that says its job has ended, whoever closed it and on whatever
\* reading, is the row of a job with no running container ("closing a live
\* job's row costs a tool call that gets two answers").
ClosedIsOver ==
  \A j \in Jobs : row[j].status = "closed" =>
    container[j] # "running"

\* No row stays running: the worker or the sweep closes it in the end, however
\* its worker ended and however often the runner restarted.
RowsClose ==
  \A j \in Jobs :
    row[j].status = "running" /\ row[j].at + Timeout + Grace <= MaxTime
      ~> row[j].status # "running"

=============================================================================
