------------------------- MODULE SandboxWorkspaces -------------------------
(***************************************************************************)
(* Which disk a run's sandbox jobs run on, who holds it, and when it is    *)
(* destroyed (jhin_connectors/cli/workspace.py, conversation_workspace.py; *)
(* cleanup_activities.py of the tool worker; the reset of jhin-admin; a    *)
(* person's control of a chat's disk in jhin_api/runtime/service.py).      *)
(*                                                                         *)
(* A bind is one transaction that takes the row of the agent's disk, calls *)
(* the runner to destroy volumes, its own and its neighbours', and commits *)
(* at the end: binds of other runs read the old rows meanwhile, and wait   *)
(* for the ones it has written.  All disks belong to one tenant.           *)
(*                                                                         *)
(* A disk is named by what its key is derived from: an agent, a chat, or   *)
(* the run whose private disk it is.                                       *)
(***************************************************************************)
EXTENDS Naturals, FiniteSets, FiniteSetsExt, Functions

CONSTANTS
  Runs, Agents, Chats,
  AgentOf,     \* the agent of each run
  ChatOf,      \* the chat of a run that has one with a disk of its own, or None
  None,        \* the absent value
  Leaves,      \* bound: what a run can leave on a disk, in bytes
  Cap,         \* max_workspace_bytes
  Total,       \* total_workspace_bytes
  MaxJobs,     \* bound: the jobs of all runs
  MaxMishaps,  \* bound: refused deletions, deaths, lost answers and cleanups
  MaxErrands   \* bound: what operators, people and the calendar do

ASSUME SizesAssumption ==
  {Cap, Total} \cup Leaves \subseteq Nat /\ Cap <= Total
ASSUME FiniteAssumption == IsFiniteSet(Runs) /\ IsFiniteSet(Agents) /\ IsFiniteSet(Chats)
ASSUME BoundsAssumption == {MaxJobs, MaxMishaps, MaxErrands} \subseteq Nat
ASSUME OwnersAssumption ==
  AgentOf \in [Runs -> Agents] /\ ChatOf \in [Runs -> Chats \cup {None}]
\* The keys of disks begin with the kind of their owner.
ASSUME NamesAssumption ==
  /\ Agents \cap Chats = {} /\ Agents \cap Runs = {} /\ Chats \cap Runs = {}
  /\ None \notin Agents \cup Chats \cup Runs

Disks == Agents \cup Chats \cup Runs

VARIABLES
  live,      \* runs whose agent_run.status is not terminal
  call,      \* the tool call of each run: how far it is, its disk, its job's measure
  rows,      \* the committed sandbox_workspace rows
  txn,       \* the rows each open bind has written, and so locked
  plan,      \* what the sweep of each open bind has read and done
  vol,       \* what each volume really holds, 0 when there is none
  tree,      \* the run whose work is on each disk
  busy,      \* the run whose container has each volume mounted
  pending,   \* <<run, disk>>: jobs the runner has, and not yet their disk
  lost,      \* runs with a job row nobody waits for and nobody has closed
  attempted, \* runs a worker process remembers to have cleaned up
  console,   \* what an operator's reset command has read
  jobs, mishaps, errands,
  displaced, \* history: live runs whose lease an operator took
  parted     \* history: runs whose cleanup gave their disk away

sweepVars   == <<txn, plan>>
volumeVars  == <<vol, tree, busy>>
jobVars     == <<pending, lost, jobs>>
historyVars == <<displaced, parted>>
vars == <<live, call, rows, sweepVars, volumeVars, jobVars, attempted, console,
          errands, mishaps, historyVars>>

Row(exists) ==
  [exists |-> exists, held |-> None, last |-> None, size |-> 0, known |-> TRUE,
   stale |-> FALSE, evicted |-> FALSE, reset |-> FALSE, user |-> FALSE]

Call(at, d, push) == [at |-> at, disk |-> d, push |-> push, measure |-> None]
Idle     == Call("idle", None, FALSE)
Ending   == Call("ending", None, FALSE)
Bound(d) == Call("bound", d, FALSE)
NoPlan == [seen |-> <<>>, live |-> {}, idle |-> {}, left |-> {}, gone |-> {},
           paid |-> {}, foiled |-> FALSE]
NoRead == [agent |-> None, held |-> None, last |-> None]

\* Runs that are over have left what they have on the disks that last.
Init ==
  /\ live = Runs
  /\ call = [r \in Runs |-> Idle]
  /\ vol \in {v \in [Disks -> Leaves \cup {0}] : \A d \in Disks : v[d] = 0 <=> d \in Runs}
  /\ rows = [d \in Disks |-> [Row(d \notin Runs) EXCEPT !.size = vol[d]]]
  /\ txn = [r \in Runs |-> <<>>] /\ plan = [r \in Runs |-> NoPlan]
  /\ tree = [d \in Disks |-> None] /\ busy = [d \in Disks |-> None]
  /\ pending = {} /\ lost = {} /\ attempted = {} /\ console = NoRead
  /\ jobs = 0 /\ mishaps = 0 /\ errands = 0
  /\ displaced = {} /\ parted = {}

-----------------------------------------------------------------------------
(* Rows, locks and volumes.                                                *)

At(r, s) == call[r].at = s
Goto(r, c) == call' = [call EXCEPT ![r] = c]
Mishap == mishaps < MaxMishaps /\ mishaps' = mishaps + 1
Errand == errands < MaxErrands /\ errands' = errands + 1

\* No other transaction has written the row of d.
Unlocked(d, r) == \A q \in Runs \ {r} : d \notin DOMAIN txn[q]

\* Wrong: the lease of a run that has not moved for a week is up for taking.
UnheldOrOld(row) == row.held \notin live \/ row.stale

\* _holder_finished and _unheld: the holder's own status decides, not its id.
Unheld(row) == row.held \notin live

\* Wrong: a run that ended without its cleanup holds its disk for ever.
HeldById(row, running) == row.held # None

\* _held_by_a_live_run, on the statuses a sweep has read.
HeldByLive(row, running) == row.held \in running

\* has_unconfirmed_jobs
HasUnconfirmedJobs(r) == r \in lost \cup {q \in Runs : At(q, "job")}

\* The runner's answer to DELETE: Docker refuses while a container has the
\* volume mounted, and the call may fail.
Removed(d) ==
  /\ busy[d] = None
  /\ vol' = [vol EXCEPT ![d] = 0]
  /\ tree' = [tree EXCEPT ![d] = None]
  /\ UNCHANGED <<busy, mishaps>>
Kept(d) ==
  /\ IF busy[d] = None THEN Mishap ELSE UNCHANGED mishaps
  /\ UNCHANGED volumeVars

\* What a transaction sees, what it writes, and its commit.
View(d, t) == IF d \in DOMAIN t THEN t[d] ELSE rows[d]
Write(t, d, row) == [e \in DOMAIN t \cup {d} |-> IF e = d THEN row ELSE t[e]]
Commit(t) == rows' = [d \in Disks |-> View(d, t)]

\* What a disk costs the budget; one nobody could measure costs the cap.
Charge(row) == IF row.known \/ row.size > Cap THEN row.size ELSE Cap

-----------------------------------------------------------------------------
(* bind_workspace.                                                         *)

OwnDisk(r) == r \in live /\ At(r, "idle") /\ ChatOf[r] = None
Holdings(r) == {d \in Disks : rows[d].exists /\ rows[d].held = r}

\* _renew: a run that holds a disk keeps it, however long ago it was.
Renew(r, push) ==
  /\ OwnDisk(r)
  /\ \E d \in Holdings(r) :
       /\ Unlocked(d, r)
       /\ rows' = [rows EXCEPT ![d].stale = FALSE]
       /\ IF push \/ (rows[d].known /\ rows[d].size <= Cap)
            THEN Goto(r, Bound(d))
            ELSE UNCHANGED call
  /\ UNCHANGED <<live, sweepVars, volumeVars, jobVars, attempted, console, errands,
                 mishaps, historyVars>>

\* _lost_the_lease: the call is refused, and nothing changes.
LostTheLease(r) ==
  LET row == rows[AgentOf[r]] IN
    /\ row.last = r
    /\ \/ row.held \notin {None, r}
       \/ row.held = None /\ row.reset

\* _acquire.  The row stays locked until the bind ends.
Acquire(r, push) ==
  /\ OwnDisk(r) /\ Holdings(r) = {} /\ ~LostTheLease(r)
  /\ LET a == AgentOf[r]
         row == rows[a] IN
       /\ Unlocked(a, r) /\ Unheld(row)
       /\ txn' = [txn EXCEPT ![r] = Write(<<>>, a,
            [row EXCEPT !.held = r, !.last = IF row.held # None THEN row.held ELSE @])]
  /\ Goto(r, Call("acquired", AgentOf[r], push))
  /\ UNCHANGED <<live, rows, plan, volumeVars, jobVars, attempted, console, errands,
                 mishaps, historyVars>>

\* _private_binding, when a live run holds the agent's disk.
BindPrivate(r) ==
  /\ OwnDisk(r) /\ Holdings(r) = {} /\ ~LostTheLease(r)
  /\ Unlocked(AgentOf[r], r) /\ ~Unheld(rows[AgentOf[r]])
  /\ rows' = [rows EXCEPT ![r] = [Row(TRUE) EXCEPT !.held = r]]
  /\ Goto(r, Bound(r))
  /\ UNCHANGED <<live, sweepVars, volumeVars, jobVars, attempted, console, errands,
                 mishaps, historyVars>>

\* Does the bind empty its own disk first?
Recycles(r, row) ==
  row.reset \/ row.evicted \/ (~call[r].push /\ row.size > Cap) \/ row.stale

\* What the select of _sweep reads, with the bind's own row as it has it, and
\* what it may take: for age, and for the budget.
SweepPlan(r, t) ==
  LET seen == [d \in {d \in Disks : View(d, t).exists /\ ~View(d, t).evicted} |-> View(d, t)]
      free == {d \in DOMAIN seen : ~HeldByLive(seen[d], live)}
      idle == {d \in free : seen[d].stale}
      own  == IF call[r].push THEN {} ELSE {AgentOf[r]}
  IN [NoPlan EXCEPT
       !.seen = seen, !.live = live, !.idle = idle,
       !.left = {d \in (free \cup own) \ idle : seen[d].known /\ seen[d].size > 0}]

\* The bind is refused: the lease it took goes back with what it has done.
Refuse(r, t) ==
  /\ Commit([t EXCEPT ![AgentOf[r]].held = None])
  /\ txn' = [txn EXCEPT ![r] = <<>>]
  /\ Goto(r, Idle)

\* The row is acquired: the disk is emptied when it has to be, a disk of
\* unknown size is refused, and otherwise the sweep begins.
Settle(r) ==
  /\ At(r, "acquired")
  /\ LET a   == AgentOf[r]
         row == txn[r][a]
         Proceed(new) ==
           LET t == Write(<<>>, a, [new EXCEPT !.stale = FALSE]) IN
             IF ~call[r].push /\ ~new.known
               THEN Refuse(r, Write(<<>>, a, new)) /\ UNCHANGED plan
               ELSE /\ txn' = [txn EXCEPT ![r] = t]
                    /\ plan' = [plan EXCEPT ![r] = SweepPlan(r, t)]
                    /\ Goto(r, [call[r] EXCEPT !.at = "sweep"]) /\ UNCHANGED rows
     IN \/ /\ Recycles(r, row) /\ Removed(a)
           /\ Proceed([row EXCEPT !.size = 0, !.known = TRUE, !.reset = FALSE, !.evicted = FALSE])
        \/ /\ Recycles(r, row) /\ Kept(a)
           /\ Proceed([row EXCEPT !.evicted = FALSE])
        \/ /\ ~Recycles(r, row) /\ UNCHANGED <<volumeVars, mishaps>>
           /\ Proceed(row)
  /\ UNCHANGED <<live, jobVars, attempted, console, errands, historyVars>>

-----------------------------------------------------------------------------
(* _sweep and _evict.                                                      *)

SizeOf(p, S) == SumFunctionOnSet([d \in DOMAIN p.seen |-> p.seen[d].size], S)
Stays(p)   == DOMAIN p.seen \ p.gone
Bytes(p)   == SizeOf(p, Stays(p))
Charged(p) == SumFunctionOnSet([d \in DOMAIN p.seen |-> Charge(p.seen[d])], Stays(p))

\* Wrong: the sweep destroys what it may, whether or not that is enough.
PaysAnyway(p) == p.idle = {} /\ p.left # {} /\ Bytes(p) > Total

\* The gate of the budget pass, before its first victim and before each other:
\* what is left to take brings the tenant home.
Pays(p) ==
  /\ p.idle = {} /\ p.left # {}
  /\ Bytes(p) > Total
  /\ Bytes(p) - SizeOf(p, p.left) <= Total

Largest(p) == {d \in p.left : \A e \in p.left : p.seen[e].size <= p.seen[d].size}

Evicted(row) == [row EXCEPT !.evicted = TRUE, !.size = 0, !.known = TRUE]

\* Wrong: the claim stands although the volume does.
StillEvicted(row, seen) == Evicted(row)

\* The runner refused: the claim is undone, with the size that was read before.
Restored(row, seen) == [row EXCEPT !.size = seen.size, !.known = seen.known]

Foiled(p, d) == [p EXCEPT !.foiled = TRUE, !.paid = @ \ {d}]

Evict(r, d, p) ==
  LET claim == rows[d].exists /\ Unheld(rows[d]) /\ ~rows[d].evicted IN
    /\ Unlocked(d, r)
    /\ \/ /\ claim /\ Removed(d)
          /\ txn' = [txn EXCEPT ![r] = Write(@, d, Evicted(rows[d]))]
          /\ plan' = [plan EXCEPT ![r] = [p EXCEPT !.gone = @ \cup {d}]]
       \/ /\ claim /\ Kept(d)
          /\ txn' = [txn EXCEPT ![r] = Write(@, d, Restored(rows[d], p.seen[d]))]
          /\ plan' = [plan EXCEPT ![r] = Foiled(p, d)]
       \/ /\ ~claim
          /\ plan' = [plan EXCEPT ![r] = Foiled(p, d)]
          /\ UNCHANGED <<txn, volumeVars, mishaps>>

EvictIdle(r) ==
  /\ At(r, "sweep")
  /\ \E d \in plan[r].idle : Evict(r, d, [plan[r] EXCEPT !.idle = @ \ {d}])
  /\ UNCHANGED <<live, call, rows, jobVars, attempted, console, errands, historyVars>>

\* The bind's own disk is a victim too, and is emptied for the run to use.
RecycleOwn(r, p) ==
  LET a == AgentOf[r] IN
    \/ /\ Removed(a)
       /\ txn' = [txn EXCEPT ![r][a].size = 0, ![r][a].known = TRUE, ![r][a].reset = FALSE]
       /\ plan' = [plan EXCEPT ![r] = [p EXCEPT !.gone = @ \cup {a}]]
    \/ /\ Kept(a)
       /\ plan' = [plan EXCEPT ![r] = Foiled(p, a)]
       /\ UNCHANGED txn

EvictLargest(r) ==
  /\ At(r, "sweep") /\ Pays(plan[r])
  /\ \E d \in Largest(plan[r]) :
       LET p == [plan[r] EXCEPT !.left = @ \ {d}, !.paid = @ \cup {d}] IN
         IF d = AgentOf[r] THEN RecycleOwn(r, p) ELSE Evict(r, d, p)
  /\ UNCHANGED <<live, call, rows, jobVars, attempted, console, errands, historyVars>>

Swept(r) == At(r, "sweep") /\ plan[r].idle = {} /\ ~Pays(plan[r])
OverBudget(r) == ~call[r].push /\ Charged(plan[r]) > Total

\* The sweep is over: the bind is served, or refused with workspace_tenant_full.
Decide(r) ==
  /\ Swept(r)
  /\ IF OverBudget(r)
       THEN Refuse(r, txn[r])
       ELSE /\ Commit(txn[r])
            /\ txn' = [txn EXCEPT ![r] = <<>>]
            /\ Goto(r, Bound(AgentOf[r]))
  /\ plan' = [plan EXCEPT ![r] = NoPlan]
  /\ UNCHANGED <<live, volumeVars, jobVars, attempted, console, errands, mishaps,
                 historyVars>>

\* The worker dies inside the transaction, its connection breaks, or PostgreSQL
\* ends one of two sweeps that wait for each other's rows.
Die(r) ==
  /\ call[r].at \in {"acquired", "sweep"}
  /\ Mishap
  /\ txn' = [txn EXCEPT ![r] = <<>>]
  /\ plan' = [plan EXCEPT ![r] = NoPlan]
  /\ Goto(r, Idle)
  /\ UNCHANGED <<live, rows, volumeVars, jobVars, attempted, console, errands, historyVars>>

-----------------------------------------------------------------------------
(* bind_conversation_workspace, and a person's control of a chat's disk.   *)

\* Wrong: a final run is taken for the end of its commands.
OverByStatus(row) == row.held \notin live

\* The holder is over, and so is every job of its that was ever started.
Over(row) == row.held \notin live /\ ~HasUnconfirmedJobs(row.held)

\* What the tenant's disks cost its budget.
TenantCharge ==
  MapThenSumSet(LAMBDA d : IF rows[d].exists THEN Charge(rows[d]) ELSE 0, Disks)

BindChat(r, push) ==
  LET c   == ChatOf[r]
      row == rows[c] IN
    /\ r \in live /\ At(r, "idle") /\ c # None
    /\ Unlocked(c, r)
    /\ ~row.user
    /\ row.held = r \/ Over(row)
    /\ push \/ /\ TenantCharge <= Total
               /\ row.known /\ row.size <= Cap
    /\ rows' = [rows EXCEPT ![c].held = r, ![c].stale = FALSE]
    /\ Goto(r, Bound(c))
    /\ UNCHANGED <<live, sweepVars, volumeVars, jobVars, attempted, console, errands,
                   mishaps, historyVars>>

\* check_idle and control
TakeControl(c) ==
  /\ Errand
  /\ ~rows[c].user /\ Over(rows[c])
  /\ \A r \in Runs : c \notin DOMAIN txn[r]
  /\ rows' = [rows EXCEPT ![c].held = None, ![c].user = TRUE]
  /\ UNCHANGED <<live, call, sweepVars, volumeVars, jobVars, attempted, console, mishaps,
                 historyVars>>

GiveBack(c) ==
  /\ rows[c].user
  /\ \A r \in Runs : c \notin DOMAIN txn[r]
  /\ rows' = [rows EXCEPT ![c].user = FALSE]
  /\ UNCHANGED <<live, call, sweepVars, volumeVars, jobVars, attempted, console, errands,
                 mishaps, historyVars>>

-----------------------------------------------------------------------------
(* _run_job and the runner.  The row of a job is written before the job is *)
(* submitted, and the runner lets a job wait for its disk.                 *)

Submit(r) ==
  LET job == <<r, call[r].disk>> IN
    /\ At(r, "bound") /\ jobs < MaxJobs /\ job \notin pending
    /\ jobs' = jobs + 1
    /\ pending' = pending \cup {job}
    /\ Goto(r, [call[r] EXCEPT !.at = "job"])
    /\ UNCHANGED <<live, rows, sweepVars, volumeVars, lost, attempted, console, errands,
                   mishaps, historyVars>>

\* Its earlier dispatches cannot be read, or its row cannot be written.
NotSubmitted(r) ==
  /\ At(r, "bound") /\ Goto(r, Idle)
  /\ UNCHANGED <<live, rows, sweepVars, volumeVars, jobVars, attempted, console, errands,
                 mishaps, historyVars>>

\* The volume is measured, in full or as far as the walk comes, and mounted.
Begin(r, d) ==
  /\ <<r, d>> \in pending /\ busy[d] = None
  /\ pending' = pending \ {<<r, d>>}
  /\ busy' = [busy EXCEPT ![d] = r]
  /\ IF At(r, "job") /\ call[r].disk = d
       THEN \E m \in {[size |-> vol[d], known |-> TRUE]} \cup
                     {[size |-> 0, known |-> FALSE]} :
              Goto(r, [call[r] EXCEPT !.measure = m])
       ELSE UNCHANGED call
  /\ UNCHANGED <<live, rows, sweepVars, vol, tree, lost, jobs, attempted, console,
                 errands, mishaps, historyVars>>

\* The job has waited too long, or its container cannot be made.
GiveUp(r, d) ==
  /\ <<r, d>> \in pending
  /\ pending' = pending \ {<<r, d>>}
  /\ UNCHANGED <<live, call, rows, sweepVars, volumeVars, lost, jobs, attempted, console,
                 errands, mishaps, historyVars>>

\* The command is done, and leaves its work on the disk.
End(d) ==
  /\ busy[d] # None
  /\ \E n \in Leaves : vol' = [vol EXCEPT ![d] = n]
  /\ tree' = [tree EXCEPT ![d] = busy[d]]
  /\ busy' = [busy EXCEPT ![d] = None]
  /\ UNCHANGED <<live, call, rows, sweepVars, jobVars, attempted, console, errands,
                 mishaps, historyVars>>

AtTheRunner(r) == (\E d \in Disks : busy[d] = r) \/ (\E d \in Disks : <<r, d>> \in pending)

\* The worker has the outcome: record_size, and the job's row is closed.
Report(r) ==
  LET d == call[r].disk
      m == call[r].measure IN
    /\ At(r, "job") /\ busy[d] # r /\ <<r, d>> \notin pending
    /\ IF m # None /\ rows[d].exists
         THEN Unlocked(d, r) /\ rows' = [rows EXCEPT ![d].size = m.size, ![d].known = m.known]
         ELSE UNCHANGED rows
    /\ Goto(r, Idle)
    /\ UNCHANGED <<live, sweepVars, volumeVars, jobVars, attempted, console, errands,
                   mishaps, historyVars>>

\* The worker is gone, or has lost the runner; the container is left to run.
WalkAway(r) ==
  /\ At(r, "job") /\ Mishap
  /\ lost' = lost \cup {r}
  /\ Goto(r, Idle)
  /\ UNCHANGED <<live, rows, sweepVars, volumeVars, pending, jobs, attempted, console,
                 errands, historyVars>>

\* The sweep of overdue rows closes what the runner says is over.
ReconcileJobs(r) ==
  /\ r \in lost /\ ~AtTheRunner(r)
  /\ lost' = lost \ {r}
  /\ UNCHANGED <<live, call, rows, sweepVars, volumeVars, pending, jobs, attempted,
                 console, errands, mishaps, historyVars>>

-----------------------------------------------------------------------------
(* The end of a run: its cleanup comes before its status.                  *)

\* release_run_bindings: a disk that lasts goes back, a private one goes.
Released(r) ==
  [d \in Disks |->
     IF ~rows[d].exists \/ rows[d].held # r THEN rows[d]
     ELSE IF d = r THEN Row(FALSE)
     ELSE [rows[d] EXCEPT !.held = None, !.stale = FALSE,
                          !.last = IF d \in Agents THEN r ELSE None]]

Leave(r) == r \in live /\ At(r, "idle") /\ Goto(r, Ending)

Cleanup(r) ==
  /\ Leave(r)
  /\ \A d \in Holdings(r) : Unlocked(d, r)
  /\ attempted' = attempted \cup {r}
  /\ IF HasUnconfirmedJobs(r) /\ Holdings(r) # {}
       THEN UNCHANGED <<rows, volumeVars, mishaps, parted>>
       ELSE /\ rows' = Released(r)
            /\ parted' = parted \cup {r}
            /\ IF r \in Holdings(r) \/ Holdings(r) = {}
                 THEN Removed(r) \/ Kept(r)
                 ELSE UNCHANGED <<volumeVars, mishaps>>
  /\ UNCHANGED <<live, sweepVars, jobVars, console, errands, displaced>>

\* The process remembers a cleanup of this run, or the activity never ran.
SkipCleanup(r) ==
  /\ Leave(r)
  /\ IF r \in attempted THEN UNCHANGED mishaps ELSE Mishap
  /\ UNCHANGED <<live, rows, sweepVars, volumeVars, jobVars, attempted, console, errands,
                 historyVars>>

\* An instruction came while the cleanup ran, and the loop goes on.
Continue(r) ==
  /\ At(r, "ending") /\ Errand
  /\ Goto(r, Idle)
  /\ UNCHANGED <<live, rows, sweepVars, volumeVars, jobVars, attempted, console, mishaps,
                 historyVars>>

Finish(r) ==
  /\ r \in live /\ At(r, "ending")
  /\ live' = live \ {r}
  /\ Goto(r, Idle)
  /\ attempted' = attempted \ {r}
  /\ parted' = parted \ {r}
  /\ UNCHANGED <<rows, sweepVars, volumeVars, jobVars, console, errands, mishaps, displaced>>

-----------------------------------------------------------------------------
(* agent_workspace_reset, and the calendar.                                *)

\* The command reads the row, and asks the operator.
ResetRead(a) ==
  /\ Errand /\ console = NoRead
  /\ console' = [agent |-> a, held |-> rows[a].held, last |-> rows[a].last]
  /\ UNCHANGED <<live, call, rows, sweepVars, volumeVars, jobVars, attempted, mishaps,
                 historyVars>>

\* It writes the columns that differ from what it has read, and no other.
ResetWrite(force) ==
  LET a     == console.agent
      takes == force /\ console.held # None IN
    /\ console # NoRead
    /\ \A r \in Runs : a \notin DOMAIN txn[r]
    /\ rows' = [rows EXCEPT
         ![a].reset = TRUE,
         ![a].held = IF takes THEN None ELSE @,
         ![a].last = IF takes /\ console.held # console.last THEN console.held ELSE @]
    /\ displaced' = displaced \cup (IF takes THEN {rows[a].held} \cap live ELSE {})
    /\ console' = NoRead
    /\ UNCHANGED <<live, call, sweepVars, volumeVars, jobVars, attempted, errands, mishaps,
                   parted>>

\* A disk nobody has used for idle_eviction days.
Age(d) ==
  /\ Errand /\ rows[d].exists /\ ~rows[d].stale /\ busy[d] = None
  /\ \A r \in Runs : d \notin DOMAIN txn[r]
  /\ rows' = [rows EXCEPT ![d].stale = TRUE]
  /\ UNCHANGED <<live, call, sweepVars, volumeVars, jobVars, attempted, console, mishaps,
                 historyVars>>

-----------------------------------------------------------------------------
Binding ==
  \E r \in Runs :
    \/ BindPrivate(r) \/ Settle(r) \/ EvictIdle(r) \/ EvictLargest(r) \/ Decide(r) \/ Die(r)
    \/ \E push \in BOOLEAN :
         Renew(r, push) \/ Acquire(r, push) \/ BindChat(r, push)

Working ==
  \/ \E r \in Runs : Submit(r) \/ NotSubmitted(r) \/ Report(r) \/ WalkAway(r) \/ ReconcileJobs(r)
  \/ \E r \in Runs, d \in Disks : Begin(r, d) \/ GiveUp(r, d)
  \/ \E d \in Disks : End(d)

Leaving ==
  \E r \in Runs : Cleanup(r) \/ SkipCleanup(r) \/ Continue(r) \/ Finish(r)

People ==
  \/ \E c \in Chats : TakeControl(c) \/ GiveBack(c)
  \/ \E a \in Agents : ResetRead(a)
  \/ \E force \in BOOLEAN : ResetWrite(force)
  \/ \E d \in Disks : Age(d)

Next == Binding \/ Working \/ Leaving \/ People
Spec == Init /\ [][Next]_vars

-----------------------------------------------------------------------------
(* Properties.                                                             *)

\* What a live run has on its disk is neither destroyed nor built over by
\* another live run, unless an operator took the lease or its own cleanup gave
\* the disk away: no bind, sweep, eviction or cleanup, whatever sizes and ages
\* it reads, reaches it (_unheld, _held_by_a_live_run, release_run_bindings).
\* A job that an ended or displaced run has left with the runner still may.
TreesAreKept ==
  [][\A d \in Disks :
       LET r == tree[d] IN
         r \in live \ (displaced \cup parted') =>
           \/ tree'[d] = r
           \/ tree'[d] \notin (live \ displaced) \cup {None}]_vars

\* A row committed as evicted has no bytes behind it, but for those of a job
\* whose run the operator displaced or that outlived its run, and had waited
\* for the disk meanwhile (_evict, and the state a bind takes on trust).
EvictedIsEmpty ==
  \A d \in Agents \cup Runs :
    rows[d].exists /\ rows[d].evicted /\ vol[d] > 0 => tree[d] \in displaced \cup (Runs \ live)

\* A sweep that destroyed for the budget brought the tenant home, unless the
\* runner or another bind refused it a victim (all-or-nothing in _sweep).
SpentWell ==
  \A r \in Runs :
    Swept(r) /\ plan[r].paid # {} => plan[r].foiled \/ Bytes(plan[r]) <= Total

\* A bind is refused for its neighbours only when the space is out of reach: on
\* the disk of a run that has not finished, or of a size nobody knows.
RefusalIsJustified ==
  \A r \in Runs :
    Swept(r) /\ OverBudget(r) =>
      \/ plan[r].foiled
      \/ \E d \in Stays(plan[r]) \ {AgentOf[r]} :
           plan[r].seen[d].held \in plan[r].live \/ ~plan[r].seen[d].known

\* A chat's disk has one writer: the person who controls it, the run that is
\* bound to it, or the container of a run, its abandoned ones included.
Writers(c) ==
  (IF rows[c].user THEN {"person"} ELSE {})
    \cup {r \in Runs : call[r].at \in {"bound", "job"} /\ call[r].disk = c}
    \cup {r \in Runs : busy[c] = r \/ <<r, c>> \in pending}

ChatHasOneWriter == \A c \in Chats : Cardinality(Writers(c)) <= 1

=============================================================================
