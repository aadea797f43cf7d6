----------------------- MODULE TriggerDispatchProofs -----------------------
(***************************************************************************)
(* What TriggerDispatch promises, for any number of workers, events,       *)
(* triggers and deliveries: an event is acknowledged only when each        *)
(* trigger it matched has its workflow.                                    *)
(***************************************************************************)
EXTENDS TriggerDispatch, TLAPS

-----------------------------------------------------------------------------
(* Rows at the end of a table, and rows that change.                       *)

\* What appending does.
LEMMA Appended ==
  ASSUME NEW S, NEW s \in Seq(S), NEW e \in S
  PROVE  /\ Append(s, e) \in Seq(S) /\ Len(Append(s, e)) = Len(s) + 1
         /\ DOMAIN Append(s, e) = 1..(Len(s) + 1) /\ Append(s, e)[Len(s) + 1] = e
         /\ DOMAIN s \subseteq DOMAIN Append(s, e) /\ Len(s) + 1 \in DOMAIN Append(s, e)
         /\ \A i \in DOMAIN s : Append(s, e)[i] = s[i]
OBVIOUS

\* What changing one row does.
LEMMA Changed ==
  ASSUME NEW S, NEW s \in Seq(S), NEW i \in DOMAIN s, NEW e \in S
  PROVE  /\ [s EXCEPT ![i] = e] \in Seq(S) /\ DOMAIN [s EXCEPT ![i] = e] = DOMAIN s
         /\ [s EXCEPT ![i] = e][i] = e
         /\ \A j \in DOMAIN s \ {i} : [s EXCEPT ![i] = e][j] = s[j]
OBVIOUS

\* A sequence whose rows are all of a narrower type.
LEMMA Narrowed ==
  ASSUME NEW S, NEW T, NEW s \in Seq(S), \A i \in DOMAIN s : s[i] \in T
  PROVE  s \in Seq(T)
OBVIOUS

RowType == [key : Keys, status : {"started", "failed"},
            error : {"none", "no_agent", "dispatch"}, task : Nat]
RunType == [key : Keys, row : Nat, stage : Open \cup Closed, attempt : 1..MaxPrepare, task : Nat]
TaskType == [entity : Entities, active : BOOLEAN, by : Nat]

\* The keys of matched triggers are keys.
LEMMA KeysOf ==
  /\ DOMAIN Specs = 1..Len(Specs) /\ Len(Specs) \in Nat \ {0}
  /\ \A j \in DOMAIN Specs, e \in Events : Key(Specs[j], e) \in Keys
  /\ \A k \in Keys : EntityOf(k) \in Entities
<1>1. Specs \in Seq(Triggers) /\ Specs # <<>>
  BY TriggerAssumption
<1>2. DOMAIN Specs = 1..Len(Specs) /\ Len(Specs) \in Nat \ {0} /\ \A j \in DOMAIN Specs : Specs[j] \in Triggers
  BY <1>1
<1> QED BY <1>2, TriggerAssumption DEF Key, Keys, EntityOf

-----------------------------------------------------------------------------
(* Types, and the rows that others point to.                               *)

StreamTypes == delivered \in [Events -> 0..MaxDeliver] /\ acked \subseteq Events
WorkerTypes == at \in [Workers -> {Idle} \cup Handling] /\ seen \in [Workers -> SUBSET Events]
TableTypes  ==
  /\ rows \in Seq(RowType) /\ runs \in Seq(RunType) /\ tasks \in Seq(TaskType)
  /\ agentActive \in BOOLEAN

\* A workflow knows the row it was started for, a task the workflow.
Pointers ==
  /\ \A r \in DOMAIN runs : runs[r].row \in DOMAIN rows /\ rows[runs[r].row].key = runs[r].key
  /\ \A t \in DOMAIN tasks : tasks[t].by \in DOMAIN runs
  /\ late \subseteq DOMAIN runs

\* So does a worker that is to start one.
HasRow(w) ==
  at[w].stage \in {"dispatch", "fail"} => at[w].row \in DOMAIN rows /\ rows[at[w].row].key = KeyAt(w)

Base == StreamTypes /\ WorkerTypes /\ TableTypes /\ Pointers /\ \A w \in Workers : HasRow(w)

\* A worker is idle, or handles an event.
LEMMA Standing ==
  /\ Idle.stage = "idle"
  /\ \A x \in {Idle} \cup Handling : x = Idle \/ (x \in Handling /\ x.stage \in Stages)
  /\ \A x \in Handling : /\ x # Idle /\ x.stage \in Stages /\ x.stage # "idle"
                         /\ x.event \in Events /\ x.spec \in DOMAIN Specs /\ x.row \in Nat
BY DEF Idle, Handling, Stages

\* The worker w goes on, the others stay.
Moved(w) ==
  /\ WorkerTypes' /\ at[w] \in Handling /\ at'[w] \in Handling /\ at'[w].event = at[w].event
  /\ \A v \in Workers \ {w} : at'[v] = at[v]

\* To another stage of the same trigger.
LEMMA GotoDoes ==
  ASSUME WorkerTypes, NEW w \in Workers, at[w].stage # "idle", NEW stage \in Stages, NEW row \in Nat,
         Goto(w, stage, row), UNCHANGED seen
  PROVE  Moved(w) /\ at'[w].stage = stage /\ at'[w].row = row /\ at'[w].spec = at[w].spec
<1> DEFINE x == [at[w] EXCEPT !.stage = stage, !.row = row]
<1>1. at[w] \in Handling
  BY Standing DEF WorkerTypes
<1>2. x \in Handling /\ x.stage = stage /\ x.row = row /\ x.spec = at[w].spec /\ x.event = at[w].event
  BY <1>1 DEF Handling
<1>3. at' = [at EXCEPT ![w] = x]
  BY DEF Goto, WorkerTypes
<1> HIDE DEF x
<1> QED BY <1>1, <1>2, <1>3 DEF Moved, WorkerTypes

\* To the next trigger, or to the acknowledgement.
Onwards(w) ==
  /\ Moved(w)
  /\ \/ at[w].spec = Len(Specs) /\ at'[w].spec = at[w].spec /\ at'[w].stage = "ack"
     \/ at[w].spec # Len(Specs) /\ at'[w].spec = at[w].spec + 1 /\ at'[w].stage = "record"

\* This is what Onward does.
LEMMA OnwardDoes ==
  ASSUME WorkerTypes, NEW w \in Workers, at[w].stage # "idle", Onward(w), UNCHANGED seen
  PROVE  Onwards(w)
<1>1. at[w] \in Handling /\ at[w].spec \in 1..Len(Specs) /\ Len(Specs) \in Nat
  BY Standing, KeysOf DEF WorkerTypes
<1>2. CASE at[w].spec = Len(Specs)
  <2>1. Goto(w, "ack", None) /\ "ack" \in Stages /\ None \in Nat
    BY <1>2 DEF Onward, Stages, None
  <2> QED BY <1>2, <2>1, GotoDoes DEF Onwards
<1>3. CASE at[w].spec # Len(Specs)
  <2> DEFINE x == [at[w] EXCEPT !.stage = "record", !.spec = at[w].spec + 1, !.row = None]
  <2>1. at[w].spec + 1 \in DOMAIN Specs
    BY <1>1, <1>3, KeysOf
  <2>2. x \in Handling /\ x.stage = "record" /\ x.spec = at[w].spec + 1 /\ x.event = at[w].event
    BY <1>1, <2>1 DEF Handling, Stages, None
  <2>3. at' = [at EXCEPT ![w] = x]
    BY <1>3 DEF Onward, WorkerTypes
  <2> HIDE DEF x
  <2> QED BY <1>1, <1>3, <2>2, <2>3 DEF Onwards, Moved, WorkerTypes
<1> QED BY <1>2, <1>3

\* A worker that is idle again.
Rests(w) ==
  WorkerTypes' /\ at'[w] = Idle /\ \A v \in Workers \ {w} : at'[v] = at[v]

-----------------------------------------------------------------------------
(* What a step does to the tables.                                         *)

\* Rows are added without a task, and keep their key; what was started is
\* started or has failed to start.
RowsGrow ==
  /\ rows' \in Seq(RowType) /\ DOMAIN rows \subseteq DOMAIN rows'
  /\ \A i \in DOMAIN rows :
       /\ rows'[i].key = rows[i].key
       /\ rows[i].error = "dispatch" => rows'[i].error = "dispatch"
       /\ rows[i].status = "started" => rows'[i].status = "started" \/ rows'[i].error = "dispatch"
  /\ \A i \in DOMAIN rows' :
       rows'[i].task # None =>
         i \in DOMAIN rows /\ (rows'[i].task = rows[i].task \/ \E r \in DOMAIN runs : runs[r].row = i)

\* Workflows are added, and keep their key and their row.
RunsGrow ==
  /\ runs' \in Seq(RunType) /\ DOMAIN runs \subseteq DOMAIN runs'
  /\ \A r \in DOMAIN runs : runs'[r].key = runs[r].key /\ runs'[r].row = runs[r].row

\* A row that is added.
LEMMA RowAdded ==
  ASSUME TableTypes, NEW k \in Keys, NEW status \in {"started", "failed"},
         NEW error \in {"none", "no_agent"}, rows' = Append(rows, NewRow(k, status, error))
  PROVE  RowsGrow /\ Len(rows') \in DOMAIN rows' /\ Len(rows') \in Nat /\ rows'[Len(rows')].key = k
<1> DEFINE n == NewRow(k, status, error)
<1>1. n \in RowType /\ n.key = k /\ n.task = None
  BY DEF NewRow, RowType, None
<1> HIDE DEF n
<1>2. rows \in Seq(RowType) /\ rows' = Append(rows, n)
  BY DEF TableTypes, n
<1>3. /\ rows' \in Seq(RowType) /\ Len(rows') = Len(rows) + 1 /\ Len(rows) \in Nat
      /\ DOMAIN rows' = 1..(Len(rows) + 1) /\ rows'[Len(rows) + 1] = n
      /\ DOMAIN rows \subseteq DOMAIN rows' /\ DOMAIN rows = 1..Len(rows)
      /\ \A i \in DOMAIN rows : rows'[i] = rows[i]
  BY <1>1, <1>2, Appended
<1>4. \A i \in DOMAIN rows' : i \in DOMAIN rows \/ i = Len(rows) + 1
  BY <1>3
<1> QED BY <1>1, <1>3, <1>4 DEF RowsGrow

\* A row that fails to start, or is linked to a task.
LEMMA RowSet ==
  ASSUME TableTypes, NEW i \in DOMAIN rows, NEW v \in RowType, rows' = [rows EXCEPT ![i] = v],
         v.key = rows[i].key, rows[i].error = "dispatch" => v.error = "dispatch",
         rows[i].status = "started" => v.status = "started" \/ v.error = "dispatch",
         v.task = rows[i].task \/ \E r \in DOMAIN runs : runs[r].row = i
  PROVE  RowsGrow
<1>1. /\ rows' \in Seq(RowType) /\ DOMAIN rows' = DOMAIN rows /\ rows'[i] = v
      /\ \A j \in DOMAIN rows \ {i} : rows'[j] = rows[j]
  BY Changed DEF TableTypes
<1> QED BY <1>1 DEF RowsGrow

\* A task linked to the row of a workflow (_link_invocation).
LEMMA Linking ==
  ASSUME TableTypes, Pointers, NEW r \in DOMAIN runs, NEW t \in Nat, Link(r, t)
  PROVE  RowsGrow
<1>1. PICK i \in DOMAIN rows : i = runs[r].row
  BY DEF Pointers
<1>2. rows[i] \in RowType
  BY DEF TableTypes
<1> DEFINE v == [rows[i] EXCEPT !.task = t]
<1>3. v \in RowType /\ v.key = rows[i].key /\ v.error = rows[i].error /\ v.status = rows[i].status
  BY <1>2 DEF RowType
<1>4. rows' = [rows EXCEPT ![i] = v]
  BY <1>1 DEF Link, TableTypes
<1> HIDE DEF v
<1> QED BY <1>1, <1>3, <1>4, RowSet

\* The tables stay as they are.
LEMMA TablesStay ==
  ASSUME TableTypes
  PROVE  (UNCHANGED rows => RowsGrow) /\ (UNCHANGED runs => RunsGrow)
BY DEF TableTypes, RowsGrow, RunsGrow

\* A workflow changes its stage, its attempt or its task.
LEMMA RunSet ==
  ASSUME TableTypes, NEW r \in DOMAIN runs, NEW stage \in Open \cup Closed, NEW n \in 1..MaxPrepare,
         NEW t \in Nat,
         \/ runs' = [runs EXCEPT ![r] = [@ EXCEPT !.stage = stage]]
         \/ runs' = [runs EXCEPT ![r] = [@ EXCEPT !.stage = stage, !.task = t]]
         \/ runs' = [runs EXCEPT ![r] = [@ EXCEPT !.stage = stage, !.attempt = n, !.task = t]]
  PROVE  RunsGrow /\ DOMAIN runs' = DOMAIN runs
<1>1. runs[r] \in RunType /\ runs \in Seq(RunType)
  BY DEF TableTypes
<1>2. PICK v \in RunType : v.key = runs[r].key /\ v.row = runs[r].row /\ runs' = [runs EXCEPT ![r] = v]
  <2>1. /\ [runs[r] EXCEPT !.stage = stage] \in RunType
        /\ [runs[r] EXCEPT !.stage = stage, !.task = t] \in RunType
        /\ [runs[r] EXCEPT !.stage = stage, !.attempt = n, !.task = t] \in RunType
    BY <1>1 DEF RunType
  <2> QED BY <1>1, <2>1 DEF RunType
<1>3. /\ runs' \in Seq(RunType) /\ DOMAIN runs' = DOMAIN runs /\ runs'[r] = v
      /\ \A j \in DOMAIN runs \ {r} : runs'[j] = runs[j]
  BY <1>1, <1>2, Changed
<1> QED BY <1>2, <1>3 DEF RunsGrow

\* A workflow that is started for a row.
StartsRun(k, row) ==
  /\ Len(runs) + 1 \in DOMAIN runs' /\ DOMAIN runs' = DOMAIN runs \cup {Len(runs) + 1}
  /\ runs'[Len(runs) + 1].key = k /\ runs'[Len(runs) + 1].row = row

\* It is added to the others.
LEMMA RunAdded ==
  ASSUME TableTypes, NEW k \in Keys, NEW row \in Nat, runs' = Append(runs, NewRun(k, row))
  PROVE  RunsGrow /\ StartsRun(k, row)
<1> DEFINE n == NewRun(k, row)
<1>1. n \in RunType /\ n.key = k /\ n.row = row
  BY TriggerAssumption DEF NewRun, RunType, Open, Preparing, None
<1> HIDE DEF n
<1>2. runs \in Seq(RunType) /\ runs' = Append(runs, n)
  BY DEF TableTypes, n
<1>3. /\ runs' \in Seq(RunType) /\ Len(runs) \in Nat
      /\ DOMAIN runs' = 1..(Len(runs) + 1) /\ runs'[Len(runs) + 1] = n
      /\ DOMAIN runs \subseteq DOMAIN runs' /\ DOMAIN runs = 1..Len(runs)
      /\ \A i \in DOMAIN runs : runs'[i] = runs[i]
  BY <1>1, <1>2, Appended
<1>4. DOMAIN runs' = DOMAIN runs \cup {Len(runs) + 1}
  BY <1>3
<1> QED BY <1>1, <1>3, <1>4 DEF RunsGrow, StartsRun

\* The tasks: one is added by a workflow, or one ends.
TasksGrow ==
  /\ tasks' \in Seq(TaskType)
  /\ \A t \in DOMAIN tasks' : tasks'[t].by \in DOMAIN runs

\* A task that is created, and linked (prepare_triggered_task_activity).
LEMMA TaskCreated ==
  ASSUME TableTypes, Pointers, NEW r \in DOMAIN runs, CreateTask(r)
  PROVE  TasksGrow /\ Len(tasks') \in Nat /\ RowsGrow
<1> DEFINE n == [entity |-> EntityOf(runs[r].key), active |-> TRUE, by |-> r]
<1>0. runs[r] \in RunType /\ r \in Nat /\ runs \in Seq(RunType)
  BY DEF TableTypes
<1>1. n \in TaskType /\ n.by = r
  <2>1. EntityOf(runs[r].key) \in Entities
    BY <1>0, KeysOf DEF RunType
  <2> QED BY <1>0, <2>1 DEF TaskType
<1>2. tasks \in Seq(TaskType) /\ tasks' = Append(tasks, n)
  BY DEF TableTypes, CreateTask
<1> HIDE DEF n
<1>3. /\ tasks' \in Seq(TaskType) /\ Len(tasks') = Len(tasks) + 1 /\ Len(tasks) \in Nat
      /\ DOMAIN tasks' = 1..(Len(tasks) + 1) /\ tasks'[Len(tasks) + 1] = n
      /\ DOMAIN tasks = 1..Len(tasks) /\ \A i \in DOMAIN tasks : tasks'[i] = tasks[i]
  BY <1>1, <1>2, Appended
<1>4. \A i \in DOMAIN tasks' : i \in DOMAIN tasks \/ i = Len(tasks) + 1
  BY <1>3
<1>5. TasksGrow
  BY <1>1, <1>3, <1>4 DEF TasksGrow, Pointers
<1>6. PICK l \in Nat : l = Len(tasks')
  BY <1>3
<1>7. Link(r, l)
  BY <1>6 DEF CreateTask, Link
<1> QED BY <1>3, <1>5, <1>7, Linking

\* What a step of a workflow does to the tables.
WorkMoves ==
  /\ RowsGrow /\ RunsGrow /\ TasksGrow /\ DOMAIN runs' = DOMAIN runs
  /\ late' \subseteq DOMAIN runs
  /\ UNCHANGED <<delivered, acked, at, seen, agentActive>>

\* Every step of a workflow is such.
LEMMA WorkDoes ==
  ASSUME TableTypes, Pointers, NEW r \in DOMAIN runs, Work(r) \/ LateInsert(r) \/ LoseAttempt(r)
  PROVE  WorkMoves
<1>0. /\ runs \in Seq(RunType) /\ runs[r] \in RunType /\ r \in DOMAIN runs /\ late \subseteq DOMAIN runs
      /\ None \in Nat /\ tasks \in Seq(TaskType)
  BY DEF TableTypes, Pointers, None
<1>1. (UNCHANGED rows => RowsGrow) /\ (UNCHANGED runs => RunsGrow /\ DOMAIN runs' = DOMAIN runs)
      /\ (UNCHANGED tasks => TasksGrow)
  BY <1>0, TablesStay DEF TasksGrow, Pointers
<1>2. {"check", "insert", "found", "made", "child", "done", "skipped", "failed"} = Open \cup Closed
  BY DEF Open, Closed, Preparing
<1>3. ASSUME NEW stage \in Open \cup Closed, Enter(r, stage)
      PROVE  RunsGrow /\ DOMAIN runs' = DOMAIN runs
  <2>1. runs' = [runs EXCEPT ![r] = [@ EXCEPT !.stage = stage]]
    BY <1>0, <1>3 DEF Enter
  <2> QED BY <1>0, <1>3, <2>1, RunSet DEF RunType
<1>4. CASE PrepareCheck(r)
  <2>1. CASE \E t \in DOMAIN tasks : Link(r, t) /\ runs' = [runs EXCEPT ![r].stage = "found", ![r].task = t]
    <3>1. PICK t \in DOMAIN tasks : Link(r, t) /\ runs' = [runs EXCEPT ![r].stage = "found", ![r].task = t]
      BY <2>1
    <3>2. t \in Nat
      BY <1>0
    <3>3. runs' = [runs EXCEPT ![r] = [@ EXCEPT !.stage = "found", !.task = t]]
      BY <1>0, <3>1
    <3>4. RunsGrow /\ DOMAIN runs' = DOMAIN runs
      BY <1>0, <1>2, <3>2, <3>3, RunSet DEF RunType
    <3>5. RowsGrow
      BY <3>1, <3>2, Linking
    <3> QED BY <1>0, <1>1, <1>4, <3>4, <3>5 DEF PrepareCheck, WorkMoves, streamVars, workerVars
  <2>2. CASE Enter(r, "insert") /\ UNCHANGED rows
    BY <1>0, <1>1, <1>2, <1>3, <1>4, <2>2 DEF PrepareCheck, WorkMoves, streamVars, workerVars
  <2> QED BY <1>4, <2>1, <2>2 DEF PrepareCheck, ActiveTasks
<1>5. CASE PrepareRefused(r)
  BY <1>0, <1>1, <1>2, <1>3, <1>5 DEF PrepareRefused, WorkMoves, streamVars, workerVars
<1>6. CASE PrepareInsert(r)
  <2>1. TasksGrow /\ Len(tasks') \in Nat /\ RowsGrow
    BY <1>6, TaskCreated DEF PrepareInsert
  <2>2. PICK l \in Nat : l = Len(tasks')
    BY <2>1
  <2>3. runs' = [runs EXCEPT ![r] = [@ EXCEPT !.stage = "made", !.task = l]]
    BY <1>0, <1>6, <2>2 DEF PrepareInsert
  <2>4. RunsGrow /\ DOMAIN runs' = DOMAIN runs
    BY <1>0, <1>2, <2>3, RunSet DEF RunType
  <2> QED BY <1>0, <1>6, <2>1, <2>4 DEF PrepareInsert, WorkMoves, streamVars, workerVars
<1>7. CASE Prepared(r)
  BY <1>0, <1>1, <1>2, <1>3, <1>7 DEF Prepared, WorkMoves, streamVars, workerVars
<1>8. CASE ChildEnds(r)
  <2>1. RunsGrow /\ DOMAIN runs' = DOMAIN runs
    BY <1>2, <1>3, <1>8 DEF ChildEnds
  <2>2. TasksGrow
    <3>1. PICK t : t = runs[r].task
      OBVIOUS
    <3>2. tasks' = [tasks EXCEPT ![t].active = FALSE]
      BY <1>8, <3>1 DEF ChildEnds
    <3>3. CASE t \in DOMAIN tasks
      <4>1. tasks[t] \in TaskType
        BY <1>0, <3>3
      <4>2. PICK v \in TaskType : v.by = tasks[t].by /\ tasks' = [tasks EXCEPT ![t] = v]
        <5>1. [tasks[t] EXCEPT !.active = FALSE] \in TaskType
          BY <4>1 DEF TaskType
        <5> QED BY <1>0, <3>2, <4>1, <5>1 DEF TaskType
      <4>3. /\ tasks' \in Seq(TaskType) /\ DOMAIN tasks' = DOMAIN tasks /\ tasks'[t] = v
            /\ \A j \in DOMAIN tasks \ {t} : tasks'[j] = tasks[j]
        BY <1>0, <3>3, <4>2, Changed
      <4> QED BY <4>2, <4>3 DEF TasksGrow, Pointers
    <3>4. CASE t \notin DOMAIN tasks
      <4>1. tasks' = tasks
        BY <1>0, <3>2, <3>4
      <4> QED BY <1>1, <4>1
    <3> QED BY <3>3, <3>4
  <2> QED BY <1>0, <1>1, <1>8, <2>1, <2>2 DEF ChildEnds, WorkMoves, workerVars, streamVars
<1>9. CASE LateInsert(r)
  <2>1. TasksGrow /\ RowsGrow
    BY <1>9, TaskCreated DEF LateInsert
  <2> QED BY <1>0, <1>1, <1>9, <2>1 DEF LateInsert, WorkMoves, streamVars, workerVars
<1>10. CASE LoseAttempt(r)
  <2>1. RunsGrow /\ DOMAIN runs' = DOMAIN runs
    <3>1. CASE runs[r].attempt = MaxPrepare
      <4>1. runs' = [runs EXCEPT ![r] = [@ EXCEPT !.stage = "failed"]]
        BY <1>0, <1>10, <3>1 DEF LoseAttempt
      <4> QED BY <1>0, <1>2, <4>1, RunSet DEF RunType
    <3>2. CASE runs[r].attempt # MaxPrepare
      <4>1. runs[r].attempt + 1 \in 1..MaxPrepare
        BY <1>0, <3>2, TriggerAssumption DEF RunType
      <4>2. PICK n \in 1..MaxPrepare : n = runs[r].attempt + 1
        BY <4>1
      <4>3. runs' = [runs EXCEPT ![r] = [@ EXCEPT !.stage = "check", !.attempt = n, !.task = None]]
        BY <1>0, <1>10, <3>2, <4>2 DEF LoseAttempt
      <4> QED BY <1>0, <1>2, <4>3, RunSet
    <3> QED BY <3>1, <3>2
  <2> QED BY <1>0, <1>1, <1>10, <2>1 DEF LoseAttempt, WorkMoves, streamVars, workerVars
<1> QED BY <1>4, <1>5, <1>6, <1>7, <1>8, <1>9, <1>10 DEF Work

-----------------------------------------------------------------------------
(* What a step of a worker does.                                           *)

\* In every one, the tables grow and the other workers stay.
HandlerMoves(w) ==
  /\ RowsGrow /\ RunsGrow /\ StreamTypes' /\ WorkerTypes'
  /\ UNCHANGED <<tasks, late, agentActive>>
  /\ \A r \in DOMAIN runs' \ DOMAIN runs :
       at[w].stage = "dispatch" /\ runs'[r].row = at[w].row /\ runs'[r].key = KeyAt(w)
  /\ \A v \in Workers \ {w} : at'[v] = at[v] /\ seen'[v] = seen[v]

\* And the worker is at one of these places.
Takes(w) ==
  /\ at'[w] \in Handling /\ at'[w].stage = "record" /\ at'[w].spec = 1
  /\ UNCHANGED <<acked, seen>>
Repeats(w) == \E e \in seen[w] : acked' = acked \cup {e} /\ UNCHANGED <<at, seen>>
Acknowledges(w) ==
  /\ at[w].stage = "ack" /\ Rests(w)
  /\ acked' = acked \cup {at[w].event} /\ seen'[w] = seen[w] \cup {at[w].event}
GivesUp(w) == Rests(w) /\ seen'[w] \subseteq seen[w] /\ UNCHANGED acked
Dispatches(w) ==
  /\ Moved(w) /\ at'[w].stage \in {"dispatch", "fail"} /\ at'[w].spec = at[w].spec
  /\ at'[w].row \in DOMAIN rows' /\ rows'[at'[w].row].key = KeyAt(w)
  /\ UNCHANGED <<acked, seen>>
Doubts(w) ==
  /\ Moved(w) /\ at'[w].stage = "reconcile" /\ at'[w].spec = at[w].spec
  /\ Started(KeyAt(w)) # {} /\ UNCHANGED <<acked, seen, rows>>
GoesOn(w) ==
  /\ Onwards(w) /\ UNCHANGED <<acked, seen>>
  /\ \/ ~agentActive
     \/ at[w].stage = "reconcile" /\ Unfinished(KeyAt(w)) = {}
     \/ \E r \in DOMAIN runs' : runs'[r].key = KeyAt(w)

\* Every step of a worker is such.
LEMMA WorkerDoes ==
  ASSUME Base, NEW w \in Workers, (\E e \in Events : Fetch(w, e)) \/ Handle(w) \/ Abandon(w)
  PROVE  /\ HandlerMoves(w)
         /\ \/ Takes(w) \/ Repeats(w) \/ Acknowledges(w) \/ GivesUp(w) \/ Dispatches(w)
            \/ Doubts(w) \/ GoesOn(w)
<1>0. /\ StreamTypes /\ WorkerTypes /\ TableTypes /\ HasRow(w)
      /\ at[w] \in {Idle} \cup Handling /\ Idle.stage = "idle" /\ None \in Nat
      /\ at[w].stage # "idle" => at[w] \in Handling
  BY Standing DEF Base, WorkerTypes, None
<1>1. (UNCHANGED rows => RowsGrow) /\ (UNCHANGED runs => RunsGrow)
  BY <1>0, TablesStay
<1>2. ASSUME at[w] \in Handling PROVE KeyAt(w) \in Keys /\ at[w].event \in Events
  BY <1>2, KeysOf, Standing DEF KeyAt
<1>3. CASE \E e \in Events : Fetch(w, e)
  <2>1. PICK e \in Events : Fetch(w, e)
    BY <1>3
  <2>2. StreamTypes' /\ UNCHANGED <<seen, rows, runs, tasks, late, agentActive>>
    <3>1. delivered[e] \in 0..MaxDeliver /\ delivered[e] < MaxDeliver /\ MaxDeliver \in Nat
      BY <1>0, <2>1, TriggerAssumption DEF Fetch, StreamTypes
    <3>2. PICK n \in 0..MaxDeliver : n = delivered[e] + 1
      BY <3>1
    <3>3. delivered' = [delivered EXCEPT ![e] = n]
      BY <2>1, <3>2 DEF Fetch
    <3>4. (acked' = acked \cup {e}) \/ UNCHANGED acked
      BY <2>1 DEF Fetch
    <3> QED BY <1>0, <2>1, <3>3, <3>4 DEF Fetch, StreamTypes, workVars
  <2>3. CASE e \in seen[w]
    <3>1. acked' = acked \cup {e} /\ UNCHANGED at
      BY <2>1, <2>3 DEF Fetch
    <3> QED BY <1>0, <1>1, <2>2, <2>3, <3>1 DEF HandlerMoves, Repeats, WorkerTypes
  <2>4. CASE e \notin seen[w]
    <3> DEFINE x == [stage |-> "record", event |-> e, spec |-> 1, row |-> None]
    <3>1. at' = [at EXCEPT ![w] = x] /\ UNCHANGED acked
      BY <2>1, <2>4 DEF Fetch
    <3>2. x \in Handling /\ x.stage = "record" /\ x.spec = 1
      BY <1>0, KeysOf DEF Handling, Stages
    <3> HIDE DEF x
    <3> QED BY <1>0, <1>1, <2>2, <3>1, <3>2 DEF HandlerMoves, Takes, WorkerTypes
  <2> QED BY <2>3, <2>4
<1>4. CASE Ack(w)
  <2>1. at[w] \in Handling /\ UNCHANGED <<delivered, rows, runs, tasks, late, agentActive>>
    BY <1>0, <1>4 DEF Ack, workVars
  <2>2. at' = [at EXCEPT ![w] = Idle] /\ seen' = [seen EXCEPT ![w] = @ \cup {at[w].event}]
        /\ acked' = acked \cup {at[w].event} /\ at[w].stage = "ack"
    BY <1>4 DEF Ack
  <2>3. WorkerTypes' /\ StreamTypes'
    BY <1>0, <1>2, <2>1, <2>2 DEF WorkerTypes, StreamTypes
  <2> QED BY <1>0, <1>1, <2>1, <2>2, <2>3 DEF HandlerMoves, Acknowledges, Rests, WorkerTypes
<1>5. CASE Abandon(w)
  <2>1. /\ at' = [at EXCEPT ![w] = Idle] /\ (seen' = seen \/ seen' = [seen EXCEPT ![w] = {}])
        /\ UNCHANGED <<delivered, acked, rows, runs, tasks, late, agentActive>>
    BY <1>5 DEF Abandon, streamVars, workVars
  <2>2. WorkerTypes' /\ StreamTypes'
    BY <1>0, <2>1 DEF WorkerTypes, StreamTypes
  <2> QED BY <1>0, <1>1, <2>1, <2>2 DEF HandlerMoves, GivesUp, Rests, WorkerTypes
<1>6. CASE RecordStarted(w)
  <2>1. at[w].stage = "record" /\ at[w] \in Handling /\ UNCHANGED <<delivered, acked, seen, runs, tasks, late, agentActive>>
    BY <1>0, <1>6 DEF RecordStarted, streamVars, workVars
  <2>2. RowsGrow /\ Len(rows') \in DOMAIN rows' /\ Len(rows') \in Nat /\ rows'[Len(rows')].key = KeyAt(w)
    BY <1>0, <1>2, <1>6, <2>1, RowAdded DEF RecordStarted
  <2>3. PICK l \in Nat : l = Len(rows')
    BY <2>2
  <2>4. Goto(w, "dispatch", l)
    BY <1>6, <2>3 DEF RecordStarted, Goto
  <2>5. Moved(w) /\ at'[w].stage = "dispatch" /\ at'[w].row = l /\ at'[w].spec = at[w].spec
    BY <1>0, <2>1, <2>4, GotoDoes DEF Stages
  <2> QED BY <1>0, <1>1, <2>1, <2>2, <2>3, <2>5 DEF HandlerMoves, Dispatches, Moved, StreamTypes
<1>7. CASE RecordNoAgent(w)
  <2>1. at[w].stage = "record" /\ at[w] \in Handling /\ ~agentActive
        /\ UNCHANGED <<delivered, acked, seen, runs, tasks, late, agentActive>>
    BY <1>0, <1>7 DEF RecordNoAgent, streamVars, workVars
  <2>2. RowsGrow
    BY <1>0, <1>2, <1>7, <2>1, RowAdded DEF RecordNoAgent
  <2>3. Onwards(w)
    BY <1>0, <1>7, <2>1, OnwardDoes DEF RecordNoAgent
  <2> QED BY <1>0, <1>1, <2>1, <2>2, <2>3 DEF HandlerMoves, GoesOn, Onwards, Moved, StreamTypes
<1>8. CASE RecordDuplicate(w)
  <2>1. /\ at[w].stage = "record" /\ at[w] \in Handling /\ Started(KeyAt(w)) # {}
        /\ UNCHANGED <<delivered, acked, seen, rows, runs, tasks, late, agentActive>>
    BY <1>0, <1>8 DEF RecordDuplicate, streamVars, workVars
  <2>2. Moved(w) /\ at'[w].stage = "reconcile" /\ at'[w].spec = at[w].spec
    BY <1>0, <1>8, <2>1, GotoDoes DEF RecordDuplicate, Stages
  <2> QED BY <1>0, <1>1, <2>1, <2>2 DEF HandlerMoves, Doubts, Moved, StreamTypes
<1>9. CASE Reconcile(w)
  <2>1. at[w].stage = "reconcile" /\ at[w] \in Handling
        /\ UNCHANGED <<delivered, acked, seen, rows, runs, tasks, late, agentActive>>
    BY <1>0, <1>9 DEF Reconcile, streamVars, workVars
  <2>2. CASE agentActive /\ Unfinished(KeyAt(w)) # {}
    <3>1. PICK i \in Unfinished(KeyAt(w)) : Goto(w, "dispatch", i)
      BY <1>9, <2>2 DEF Reconcile
    <3>2. i \in DOMAIN rows /\ rows[i].key = KeyAt(w) /\ i \in Nat
      BY <1>0 DEF Unfinished, Started, TableTypes
    <3>3. Moved(w) /\ at'[w].stage = "dispatch" /\ at'[w].row = i /\ at'[w].spec = at[w].spec
      BY <1>0, <2>1, <3>1, <3>2, GotoDoes DEF Stages
    <3> QED BY <1>0, <1>1, <2>1, <3>2, <3>3 DEF HandlerMoves, Dispatches, Moved, StreamTypes
  <2>3. CASE ~(agentActive /\ Unfinished(KeyAt(w)) # {})
    <3>1. Onwards(w)
      BY <1>0, <1>9, <2>1, <2>3, OnwardDoes DEF Reconcile
    <3> QED BY <1>0, <1>1, <2>1, <2>3, <3>1 DEF HandlerMoves, GoesOn, Onwards, Moved, StreamTypes
  <2> QED BY <2>2, <2>3
<1>10. ASSUME at[w].stage = "dispatch",
              \/ UNCHANGED runs
              \/ runs' = Append(runs, NewRun(KeyAt(w), at[w].row))
       PROVE  /\ RunsGrow
              /\ \A r \in DOMAIN runs' \ DOMAIN runs : runs'[r].row = at[w].row /\ runs'[r].key = KeyAt(w)
              /\ runs' # runs => \E r \in DOMAIN runs' : runs'[r].key = KeyAt(w)
  <2>1. CASE UNCHANGED runs
    BY <1>1, <2>1
  <2>2. CASE runs' = Append(runs, NewRun(KeyAt(w), at[w].row))
    <3>1. KeyAt(w) \in Keys /\ at[w].row \in Nat
      BY <1>0, <1>2, <1>10, Standing
    <3>2. RunsGrow /\ StartsRun(KeyAt(w), at[w].row)
      BY <1>0, <2>2, <3>1, RunAdded
    <3> QED BY <3>2 DEF StartsRun
  <2> QED BY <1>10, <2>1, <2>2
<1>11. CASE StartWorkflow(w)
  <2>1. /\ at[w].stage = "dispatch" /\ at[w] \in Handling
        /\ UNCHANGED <<delivered, acked, seen, rows, tasks, late, agentActive>>
    BY <1>0, <1>11 DEF StartWorkflow, streamVars
  <2>2. \/ runs' = Append(runs, NewRun(KeyAt(w), at[w].row))
        \/ UNCHANGED runs /\ OpenRuns(KeyAt(w)) # {}
    BY <1>11 DEF StartWorkflow
  <2>3. /\ RunsGrow
        /\ \A r \in DOMAIN runs' \ DOMAIN runs : runs'[r].row = at[w].row /\ runs'[r].key = KeyAt(w)
        /\ runs' # runs => \E r \in DOMAIN runs' : runs'[r].key = KeyAt(w)
    BY <1>10, <2>1, <2>2
  <2>4. \E r \in DOMAIN runs' : runs'[r].key = KeyAt(w)
    <3>1. CASE runs' # runs
      BY <2>3, <3>1
    <3>2. CASE UNCHANGED runs /\ OpenRuns(KeyAt(w)) # {}
      BY <3>2 DEF OpenRuns
    <3>3. CASE runs' = Append(runs, NewRun(KeyAt(w), at[w].row))
      <4>1. KeyAt(w) \in Keys /\ at[w].row \in Nat
        BY <1>2, <2>1, Standing
      <4> QED BY <1>0, <3>3, <4>1, RunAdded DEF StartsRun
    <3> QED BY <2>2, <3>2, <3>3
  <2>5. Onwards(w)
    BY <1>0, <1>11, <2>1, OnwardDoes DEF StartWorkflow
  <2> QED BY <1>0, <1>1, <2>1, <2>3, <2>4, <2>5 DEF HandlerMoves, GoesOn, Onwards, Moved, StreamTypes
<1>12. CASE StartFails(w)
  <2>1. /\ at[w].stage = "dispatch" /\ at[w] \in Handling /\ at[w].row \in Nat
        /\ UNCHANGED <<delivered, acked, seen, rows, tasks, late, agentActive>>
    BY <1>0, <1>12, Standing DEF StartFails, streamVars
  <2>2. \/ runs' = Append(runs, NewRun(KeyAt(w), at[w].row))
        \/ UNCHANGED runs
    BY <1>12 DEF StartFails
  <2>3. /\ RunsGrow
        /\ \A r \in DOMAIN runs' \ DOMAIN runs : runs'[r].row = at[w].row /\ runs'[r].key = KeyAt(w)
    BY <1>10, <2>1, <2>2
  <2>4. Moved(w) /\ at'[w].stage = "fail" /\ at'[w].row = at[w].row /\ at'[w].spec = at[w].spec
    BY <1>0, <1>12, <2>1, GotoDoes DEF StartFails, Stages
  <2>5. at[w].row \in DOMAIN rows /\ rows[at[w].row].key = KeyAt(w)
    BY <1>0, <2>1 DEF HasRow
  <2> QED BY <1>0, <1>1, <2>1, <2>3, <2>4, <2>5 DEF HandlerMoves, Dispatches, Moved, StreamTypes
<1>13. CASE FailStarted(w)
  <2>1. /\ at[w].stage = "fail" /\ at[w] \in Handling /\ at' = [at EXCEPT ![w] = Idle]
        /\ UNCHANGED <<delivered, acked, seen, runs, tasks, late, agentActive>>
    BY <1>0, <1>13 DEF FailStarted, streamVars, workVars
  <2>2. RowsGrow
    <3>1. PICK i \in DOMAIN rows : i = at[w].row
      BY <1>0, <2>1 DEF HasRow
    <3>2. rows[i] \in RowType
      BY <1>0 DEF TableTypes
    <3> DEFINE v == [rows[i] EXCEPT !.status = "failed", !.error = "dispatch"]
    <3>3. v \in RowType /\ v.key = rows[i].key /\ v.error = "dispatch" /\ v.task = rows[i].task
      BY <3>2 DEF RowType
    <3>4. rows' = [rows EXCEPT ![i] = v] \/ UNCHANGED rows
      BY <1>0, <1>13, <3>1 DEF FailStarted, TableTypes
    <3> HIDE DEF v
    <3> QED BY <1>0, <1>1, <3>3, <3>4, RowSet
  <2>3. WorkerTypes' /\ StreamTypes'
    BY <1>0, <2>1 DEF WorkerTypes, StreamTypes
  <2> QED BY <1>0, <1>1, <2>1, <2>2, <2>3 DEF HandlerMoves, GivesUp, Rests, WorkerTypes
<1> QED BY <1>3, <1>4, <1>5, <1>6, <1>7, <1>8, <1>9, <1>11, <1>12, <1>13 DEF Handle

-----------------------------------------------------------------------------
(* Type correctness.                                                       *)

\* Who points where still does.
LEMMA PointersStay ==
  ASSUME TableTypes, Pointers, RowsGrow, RunsGrow, late' \subseteq DOMAIN runs',
         \A t \in DOMAIN tasks' : tasks'[t].by \in DOMAIN runs,
         \A r \in DOMAIN runs' \ DOMAIN runs :
           runs'[r].row \in DOMAIN rows' /\ rows'[runs'[r].row].key = runs'[r].key
  PROVE  Pointers'
<1>1. ASSUME NEW r \in DOMAIN runs'
      PROVE  runs'[r].row \in DOMAIN rows' /\ rows'[runs'[r].row].key = runs'[r].key
  <2>1. CASE r \in DOMAIN runs
    <3>1. PICK i \in DOMAIN rows : i = runs[r].row /\ rows[i].key = runs[r].key
      BY <2>1 DEF Pointers
    <3>2. runs'[r].row = i /\ runs'[r].key = runs[r].key /\ i \in DOMAIN rows' /\ rows'[i].key = rows[i].key
      BY <2>1, <3>1 DEF RowsGrow, RunsGrow
    <3> QED BY <3>1, <3>2
  <2> QED BY <1>1, <2>1
<1>2. \A t \in DOMAIN tasks' : tasks'[t].by \in DOMAIN runs'
  BY DEF RunsGrow
<1> QED BY <1>1, <1>2 DEF Pointers

\* A worker that stays still has its row.
LEMMA HasRowStays ==
  ASSUME RowsGrow, NEW v, HasRow(v), at'[v] = at[v]
  PROVE  HasRow(v)'
<1>1. PICK x : x = at[v]
  OBVIOUS
<1>2. KeyAt(v)' = KeyAt(v)
  BY DEF KeyAt, Key
<1> QED BY <1>1, <1>2 DEF HasRow, RowsGrow

\* A worker without a row has none to lose.
LEMMA NoRowToLose ==
  ASSUME NEW v, at'[v].stage \notin {"dispatch", "fail"}
  PROVE  HasRow(v)'
BY DEF HasRow

\* The tables are well formed before and after a step.
LEMMA BaseHolds == Spec => []Base
<1>1. ASSUME Init PROVE Base
  <2>1. StreamTypes /\ WorkerTypes
    BY <1>1, TriggerAssumption DEF Init, StreamTypes, WorkerTypes
  <2>2. TableTypes /\ Pointers
    BY <1>1 DEF Init, TableTypes, Pointers
  <2>3. \A w \in Workers : HasRow(w)
    BY <1>1 DEF Init, HasRow, Idle
  <2> QED BY <2>1, <2>2, <2>3 DEF Base
<1>2. ASSUME Base, [Next]_vars PROVE Base'
  <2>0. /\ StreamTypes /\ WorkerTypes /\ TableTypes /\ Pointers /\ \A w \in Workers : HasRow(w)
        /\ (UNCHANGED rows => RowsGrow) /\ (UNCHANGED runs => RunsGrow)
    BY <1>2, TablesStay DEF Base
  <2>1. CASE \E w \in Workers : (\E e \in Events : Fetch(w, e)) \/ Handle(w) \/ Abandon(w)
    <3>1. PICK w \in Workers : (\E e \in Events : Fetch(w, e)) \/ Handle(w) \/ Abandon(w)
      BY <2>1
    <3>2. /\ HandlerMoves(w)
          /\ \/ Takes(w) \/ Repeats(w) \/ Acknowledges(w) \/ GivesUp(w) \/ Dispatches(w)
             \/ Doubts(w) \/ GoesOn(w)
      BY <1>2, <3>1, WorkerDoes
    <3>3. /\ RowsGrow /\ RunsGrow /\ StreamTypes' /\ WorkerTypes'
          /\ UNCHANGED <<tasks, late, agentActive>>
      BY <3>2 DEF HandlerMoves
    <3>4. TableTypes'
      BY <2>0, <3>3 DEF TableTypes, RowsGrow, RunsGrow
    <3>5. Pointers'
      <4>1. ASSUME NEW r \in DOMAIN runs' \ DOMAIN runs
            PROVE  runs'[r].row \in DOMAIN rows' /\ rows'[runs'[r].row].key = runs'[r].key
        <5>1. at[w].stage = "dispatch" /\ runs'[r].row = at[w].row /\ runs'[r].key = KeyAt(w)
          BY <3>2, <4>1 DEF HandlerMoves
        <5>2. at[w].row \in DOMAIN rows /\ rows[at[w].row].key = KeyAt(w)
          BY <2>0, <5>1 DEF HasRow
        <5> QED BY <3>3, <5>1, <5>2 DEF RowsGrow
      <4>2. late' \subseteq DOMAIN runs' /\ \A t \in DOMAIN tasks' : tasks'[t].by \in DOMAIN runs
        BY <2>0, <3>3 DEF Pointers, RunsGrow
      <4> QED BY <2>0, <3>3, <4>1, <4>2, PointersStay
    <3>6. \A v \in Workers : HasRow(v)'
      <4>1. \A v \in Workers \ {w} : HasRow(v)'
        BY <2>0, <3>2, <3>3, HasRowStays DEF HandlerMoves
      <4>2. HasRow(w)'
        <5>1. CASE Takes(w)
          BY <5>1, NoRowToLose DEF Takes
        <5>2. CASE Repeats(w)
          BY <2>0, <3>3, <5>2, HasRowStays DEF Repeats
        <5>3. CASE Acknowledges(w) \/ GivesUp(w)
          BY <5>3, Standing, NoRowToLose DEF Acknowledges, GivesUp, Rests
        <5>4. CASE Doubts(w)
          BY <5>4, NoRowToLose DEF Doubts
        <5>5. CASE GoesOn(w)
          BY <5>5, NoRowToLose DEF GoesOn, Onwards
        <5>6. CASE Dispatches(w)
          <6>1. /\ at'[w].spec = at[w].spec /\ at'[w].event = at[w].event
                /\ at'[w].row \in DOMAIN rows' /\ rows'[at'[w].row].key = KeyAt(w)
            BY <5>6 DEF Dispatches, Moved
          <6>2. KeyAt(w)' = KeyAt(w)
            BY <6>1 DEF KeyAt, Key
          <6> QED BY <6>1, <6>2 DEF HasRow
        <5> QED BY <3>2, <5>1, <5>2, <5>3, <5>4, <5>5, <5>6
      <4> QED BY <4>1, <4>2
    <3> QED BY <3>3, <3>4, <3>5, <3>6 DEF Base
  <2>2. CASE \E r \in DOMAIN runs : Work(r) \/ LateInsert(r) \/ LoseAttempt(r)
    <3>1. WorkMoves
      BY <2>0, <2>2, WorkDoes
    <3>2. /\ RowsGrow /\ RunsGrow /\ TasksGrow /\ DOMAIN runs' = DOMAIN runs /\ late' \subseteq DOMAIN runs
          /\ UNCHANGED <<delivered, acked, at, seen, agentActive>>
      BY <3>1 DEF WorkMoves
    <3>3. StreamTypes' /\ WorkerTypes' /\ TableTypes'
      BY <2>0, <3>2 DEF StreamTypes, WorkerTypes, TableTypes, RowsGrow, RunsGrow, TasksGrow
    <3>4. Pointers'
      BY <2>0, <3>2, PointersStay DEF TasksGrow
    <3>5. \A v \in Workers : HasRow(v)'
      BY <2>0, <3>2, HasRowStays
    <3> QED BY <3>3, <3>4, <3>5 DEF Base
  <2>3. CASE AgentStops \/ UNCHANGED vars
    <3>1. /\ UNCHANGED <<delivered, acked, at, seen, rows, runs, tasks, late>>
          /\ agentActive' \in BOOLEAN
      BY <2>0, <2>3 DEF AgentStops, vars, streamVars, workerVars, workVars, TableTypes
    <3>2. StreamTypes' /\ WorkerTypes' /\ TableTypes' /\ Pointers'
      BY <2>0, <3>1 DEF StreamTypes, WorkerTypes, TableTypes, Pointers
    <3>3. \A v \in Workers : HasRow(v)'
      BY <2>0, <3>1, HasRowStays
    <3> QED BY <3>2, <3>3 DEF Base
  <2> QED BY <1>2, <2>1, <2>2, <2>3 DEF Next
<1> QED BY <1>1, <1>2, PTL DEF Spec

\* Every variable keeps its type, and what points to a row or to a workflow
\* finds it (handle_event, _invoke, prepare_triggered_task_activity).
THEOREM TypeCorrect == Spec => []TypeOK
<1>1. ASSUME Base PROVE TypeOK
  <2>1. StreamTypes /\ WorkerTypes /\ TableTypes /\ Pointers
    BY <1>1 DEF Base
  <2> DEFINE Runs  == [key : Keys, row : DOMAIN rows, stage : Open \cup Closed,
                       attempt : 1..MaxPrepare, task : Nat]
             Tasks == [entity : Entities, active : BOOLEAN, by : DOMAIN runs]
  <2>2. \A r \in DOMAIN runs : runs[r] \in Runs
    <3> TAKE r \in DOMAIN runs
    <3>1. runs[r] \in RunType /\ runs[r].row \in DOMAIN rows
      BY <2>1 DEF TableTypes, Pointers
    <3> QED BY <3>1 DEF RunType
  <2>3. \A t \in DOMAIN tasks : tasks[t] \in Tasks
    <3> TAKE t \in DOMAIN tasks
    <3>1. tasks[t] \in TaskType /\ tasks[t].by \in DOMAIN runs
      BY <2>1 DEF TableTypes, Pointers
    <3> QED BY <3>1 DEF TaskType
  <2> HIDE DEF Runs, Tasks
  <2>4. runs \in Seq(Runs) /\ tasks \in Seq(Tasks)
    BY <2>1, <2>2, <2>3, Narrowed DEF TableTypes
  <2> QED BY <2>1, <2>4 DEF TypeOK, StreamTypes, WorkerTypes, TableTypes, RowType, Pointers, Runs, Tasks
<1> QED BY <1>1, BaseHolds, PTL

-----------------------------------------------------------------------------
(* An acknowledged event has its workflows.                                *)

\* The key is dealt with: its workflow was started, or its agent is gone, or a
\* start of it failed.
Ok(k) == ~agentActive \/ ~NoneFailed(k) \/ HasRun(k)
Settled(e) == \A j \in DOMAIN Specs : Ok(Key(Specs[j], e))

\* Somebody recorded the key as started.
Recorded(k) ==
  \E i \in DOMAIN rows :
    rows[i].key = k /\ (rows[i].status = "started" \/ rows[i].error = "dispatch")

\* A worker has dealt with the triggers it left behind.
Handled(w) ==
  at[w] \in Handling =>
    /\ \A j \in DOMAIN Specs : j < at[w].spec => Ok(Key(Specs[j], at[w].event))
    /\ at[w].stage = "ack" => Settled(at[w].event)
    /\ at[w].stage = "reconcile" => Recorded(KeyAt(w))

\* A row with a task has a workflow that made or found it.
Linked == \A i \in DOMAIN rows : rows[i].task # None => HasRun(rows[i].key)

Promise ==
  /\ \A w \in Workers : Handled(w) /\ \A e \in seen[w] : Settled(e)
  /\ \A e \in acked : Settled(e)
  /\ Linked

\* What only grows, and an agent that only stops.
Grows == RowsGrow /\ RunsGrow /\ (agentActive' => agentActive)

\* What was dealt with stays so, what was recorded too.
LEMMA OkStays ==
  ASSUME Grows
  PROVE  /\ \A k : HasRun(k) => HasRun(k)'
         /\ \A k : Ok(k) => Ok(k)'
         /\ \A e : Settled(e) => Settled(e)'
         /\ \A k : Recorded(k) => Recorded(k)'
<1>1. /\ DOMAIN rows \subseteq DOMAIN rows' /\ DOMAIN runs \subseteq DOMAIN runs'
      /\ \A i \in DOMAIN rows :
           /\ rows'[i].key = rows[i].key
           /\ rows[i].error = "dispatch" => rows'[i].error = "dispatch"
           /\ rows[i].status = "started" => rows'[i].status = "started" \/ rows'[i].error = "dispatch"
      /\ \A r \in DOMAIN runs : runs'[r].key = runs[r].key
      /\ agentActive' => agentActive
  BY DEF Grows, RowsGrow, RunsGrow
<1>2. \A k : HasRun(k) => HasRun(k)'
  BY <1>1 DEF HasRun
<1>3. \A k : ~NoneFailed(k) => (~NoneFailed(k))'
  BY <1>1 DEF NoneFailed
<1>4. \A k : Ok(k) => Ok(k)'
  BY <1>1, <1>2, <1>3 DEF Ok
<1>5. \A e : Settled(e) => Settled(e)'
  BY <1>4 DEF Settled, Key
<1>6. \A k : Recorded(k) => Recorded(k)'
  BY <1>1 DEF Recorded
<1> QED BY <1>2, <1>4, <1>5, <1>6

\* A worker that stays still has dealt with what it had.
LEMMA HandledStays ==
  ASSUME Grows, NEW v, Handled(v), at'[v] = at[v]
  PROVE  Handled(v)'
<1>1. PICK x : x = at[v]
  OBVIOUS
<1>2. KeyAt(v)' = KeyAt(v)
  BY DEF KeyAt, Key
<1>3. /\ \A j \in DOMAIN Specs : Ok(Key(Specs[j], x.event)) => Ok(Key(Specs[j], x.event))'
      /\ Settled(x.event) => Settled(x.event)'
      /\ Recorded(KeyAt(v)) => Recorded(KeyAt(v))'
  <2>1. PICK k : k = KeyAt(v)
    OBVIOUS
  <2>2. Recorded(k) => Recorded(k)'
    BY OkStays
  <2>3. Recorded(KeyAt(v)) => Recorded(KeyAt(v))'
    BY <1>2, <2>1, <2>2 DEF Recorded
  <2>4. ASSUME NEW j \in DOMAIN Specs PROVE Ok(Key(Specs[j], x.event)) => Ok(Key(Specs[j], x.event))'
    BY OkStays
  <2>5. Settled(x.event) => Settled(x.event)'
    BY OkStays
  <2> QED BY <2>3, <2>4, <2>5
<1> QED BY <1>1, <1>2, <1>3 DEF Handled

\* Linked rows have their workflow, after every step.
LEMMA LinkedStays ==
  ASSUME Grows, Pointers, Linked
  PROVE  Linked'
<1>1. ASSUME NEW i \in DOMAIN rows', rows'[i].task # None
      PROVE  \E r \in DOMAIN runs' : runs'[r].key = rows'[i].key
  <2>1. /\ i \in DOMAIN rows /\ rows'[i].key = rows[i].key
        /\ (rows'[i].task = rows[i].task \/ \E r \in DOMAIN runs : runs[r].row = i)
    BY <1>1 DEF Grows, RowsGrow
  <2>2. HasRun(rows[i].key)
    BY <1>1, <2>1 DEF Linked, Pointers, HasRun
  <2>3. \A r \in DOMAIN runs : r \in DOMAIN runs' /\ runs'[r].key = runs[r].key
    BY DEF Grows, RunsGrow
  <2> QED BY <2>1, <2>2, <2>3 DEF HasRun
<1> QED BY <1>1 DEF Linked, HasRun

\* A worker that leaves a trigger behind has dealt with it.
LEMMA LeftBehind ==
  ASSUME Base, Promise, NEW w \in Workers, HandlerMoves(w), GoesOn(w)
  PROVE  Handled(w)'
<1>a. at[w] \in Handling /\ at[w].event \in Events /\ at[w].spec \in DOMAIN Specs
  BY Standing DEF GoesOn, Onwards, Moved
<1> PICK e \in Events, n \in DOMAIN Specs : e = at[w].event /\ n = at[w].spec
  BY <1>a
<1> PICK k : k = KeyAt(w)
  OBVIOUS
<1>0. /\ Grows /\ agentActive' = agentActive /\ at'[w] \in Handling
      /\ at'[w].event = e /\ n \in 1..Len(Specs) /\ Len(Specs) \in Nat
      /\ k = Key(Specs[n], e) /\ DOMAIN Specs = 1..Len(Specs)
  BY KeysOf DEF HandlerMoves, GoesOn, Onwards, Moved, Grows, KeyAt
<1>1. Handled(w) /\ Linked
  BY DEF Promise
<1>3. Ok(k)'
  <2>1. CASE ~agentActive
    BY <1>0, <2>1 DEF Ok
  <2>2. CASE \E r \in DOMAIN runs' : runs'[r].key = k
    BY <2>2 DEF Ok, HasRun
  <2>3. CASE at[w].stage = "reconcile" /\ Unfinished(k) = {}
    <3>1. PICK i \in DOMAIN rows : rows[i].key = k /\ (rows[i].status = "started" \/ rows[i].error = "dispatch")
      BY <1>a, <1>1, <2>3 DEF Handled, Recorded
    <3>2. CASE rows[i].error = "dispatch"
      <4>1. Ok(k)
        BY <3>1, <3>2 DEF Ok, NoneFailed
      <4> QED BY <1>0, <4>1, OkStays
    <3>3. CASE rows[i].status = "started"
      <4>1. rows[i].task # None
        BY <2>3, <3>1, <3>3 DEF Unfinished, Started
      <4>2. Ok(k)
        BY <1>1, <3>1, <4>1 DEF Linked, Ok
      <4> QED BY <1>0, <4>2, OkStays
    <3> QED BY <3>1, <3>2, <3>3
  <2> QED BY <2>1, <2>2, <2>3 DEF GoesOn
<1>4. ASSUME NEW j \in DOMAIN Specs, j <= n PROVE Ok(Key(Specs[j], e))'
  <2>1. CASE j = n
    BY <1>0, <1>3, <2>1 DEF Ok, NoneFailed, HasRun, Key
  <2>2. CASE j # n
    <3>1. j < n
      BY <1>0, <1>4, <2>2
    <3>2. Ok(Key(Specs[j], e))
      BY <1>a, <1>1, <3>1 DEF Handled
    <3> QED BY <1>0, <3>2, OkStays
  <2> QED BY <2>1, <2>2
<1>5. CASE n = Len(Specs)
  <2>1. at'[w].stage = "ack" /\ at'[w].spec = n
    BY <1>5 DEF GoesOn, Onwards
  <2>2. \A j \in DOMAIN Specs : j <= n
    BY <1>0, <1>5
  <2>3. Settled(e)'
    BY <1>4, <2>2 DEF Settled
  <2>4. \A j \in DOMAIN Specs : Ok(Key(Specs[j], e))'
    BY <1>4, <2>2
  <2>5. Settled(at[w].event)' /\ \A j \in DOMAIN Specs : Ok(Key(Specs[j], at[w].event))'
    BY <1>0, <2>3, <2>4 DEF Settled, Ok, NoneFailed, HasRun, Key
  <2> QED BY <2>1, <2>5 DEF Handled
<1>6. CASE n # Len(Specs)
  <2>1. at'[w].stage = "record" /\ at'[w].spec = n + 1
    BY <1>6 DEF GoesOn, Onwards
  <2>2. \A j \in DOMAIN Specs : j < n + 1 => j <= n
    BY <1>0
  <2>3. \A j \in DOMAIN Specs : j < n + 1 => Ok(Key(Specs[j], e))'
    BY <1>4, <2>2
  <2>4. \A j \in DOMAIN Specs : j < at'[w].spec => Ok(Key(Specs[j], at[w].event))'
    BY <1>0, <2>1, <2>3 DEF Ok, NoneFailed, HasRun, Key
  <2> QED BY <2>1, <2>4 DEF Handled
<1> QED BY <1>5, <1>6

\* What holds of the events before a step holds after it.
LEMMA PromiseKept ==
  ASSUME Base, Promise, [Next]_vars
  PROVE  Promise'
<1>0. /\ TableTypes /\ WorkerTypes /\ Pointers /\ Linked
      /\ (UNCHANGED rows => RowsGrow) /\ (UNCHANGED runs => RunsGrow)
      /\ \A v \in Workers : Handled(v) /\ \A e \in seen[v] : Settled(e)
      /\ \A e \in acked : Settled(e)
  BY TablesStay DEF Base, Promise
<1>1. CASE \E w \in Workers : (\E e \in Events : Fetch(w, e)) \/ Handle(w) \/ Abandon(w)
  <2>1. PICK w \in Workers : (\E e \in Events : Fetch(w, e)) \/ Handle(w) \/ Abandon(w)
    BY <1>1
  <2>2. /\ HandlerMoves(w)
        /\ \/ Takes(w) \/ Repeats(w) \/ Acknowledges(w) \/ GivesUp(w) \/ Dispatches(w)
           \/ Doubts(w) \/ GoesOn(w)
    BY <2>1, WorkerDoes
  <2>3. Grows /\ \A v \in Workers \ {w} : at'[v] = at[v] /\ seen'[v] = seen[v]
    BY <2>2 DEF HandlerMoves, Grows
  <2>4. Linked' /\ \A e : Settled(e) => Settled(e)'
    BY <1>0, <2>3, LinkedStays, OkStays
  <2>5. \A v \in Workers \ {w} : Handled(v)' /\ \A e \in seen'[v] : Settled(e)'
    BY <1>0, <2>3, <2>4, HandledStays
  <2>6. Handled(w)' /\ (\A e \in seen'[w] : Settled(e)') /\ \A e \in acked' : Settled(e)'
    <3>1. CASE Takes(w)
      <4>1. \A j \in DOMAIN Specs : ~(j < 1)
        BY KeysOf
      <4>2. Handled(w)'
        BY <3>1, <4>1 DEF Takes, Handled
      <4> QED BY <1>0, <2>4, <3>1, <4>2 DEF Takes
    <3>2. CASE Repeats(w)
      <4>1. Handled(w)'
        BY <1>0, <2>3, <3>2, HandledStays DEF Repeats
      <4> QED BY <1>0, <2>4, <3>2, <4>1 DEF Repeats
    <3>3. CASE Acknowledges(w)
      <4>1. Handled(w)'
        BY <3>3, Standing DEF Acknowledges, Rests, Handled
      <4>2. at[w] \in Handling
        BY <1>0, <3>3, Standing DEF Acknowledges, WorkerTypes
      <4>3. Settled(at[w].event)
        BY <1>0, <3>3, <4>2 DEF Acknowledges, Handled
      <4>4. PICK e : e = at[w].event
        OBVIOUS
      <4>5. Settled(e)'
        BY <2>4, <4>3, <4>4
      <4> QED BY <1>0, <2>4, <3>3, <4>1, <4>4, <4>5 DEF Acknowledges
    <3>4. CASE GivesUp(w)
      <4>1. Handled(w)'
        BY <3>4, Standing DEF GivesUp, Rests, Handled
      <4> QED BY <1>0, <2>4, <3>4, <4>1 DEF GivesUp
    <3>5. CASE GoesOn(w)
      <4>1. Handled(w)'
        BY <2>2, <3>5, LeftBehind
      <4> QED BY <1>0, <2>4, <3>5, <4>1 DEF GoesOn
    <3>6. CASE Dispatches(w) \/ Doubts(w)
      <4>1. /\ at[w] \in Handling /\ at'[w].event = at[w].event /\ at'[w].spec = at[w].spec
            /\ at'[w].stage # "ack" /\ UNCHANGED <<acked, seen>>
            /\ KeyAt(w)' = KeyAt(w)
        BY <3>6 DEF Dispatches, Doubts, Moved, KeyAt, Key
      <4>2. PICK e, n : e = at[w].event /\ n = at[w].spec
        OBVIOUS
      <4>3. \A j \in DOMAIN Specs : j < n => Ok(Key(Specs[j], e))
        BY <1>0, <4>1, <4>2 DEF Handled
      <4>4. \A j \in DOMAIN Specs : j < n => Ok(Key(Specs[j], e))'
        BY <2>3, <4>3, OkStays
      <4>5. \A j \in DOMAIN Specs : j < at'[w].spec => Ok(Key(Specs[j], at[w].event))'
        BY <4>1, <4>2, <4>4 DEF Ok, NoneFailed, HasRun, Key
      <4>6. at'[w].stage = "reconcile" => Recorded(KeyAt(w))'
        <5>1. CASE Dispatches(w)
          BY <5>1 DEF Dispatches
        <5>2. CASE Doubts(w)
          BY <4>1, <5>2 DEF Doubts, Recorded, Started
        <5> QED BY <3>6, <5>1, <5>2
      <4>7. Handled(w)'
        BY <4>1, <4>5, <4>6 DEF Handled
      <4> QED BY <1>0, <2>4, <4>1, <4>7
    <3> QED BY <2>2, <3>1, <3>2, <3>3, <3>4, <3>5, <3>6
  <2> QED BY <2>4, <2>5, <2>6 DEF Promise
<1>2. CASE \E r \in DOMAIN runs : Work(r) \/ LateInsert(r) \/ LoseAttempt(r)
  <2>1. Grows /\ UNCHANGED <<at, seen, acked>>
    BY <1>0, <1>2, WorkDoes DEF WorkMoves, Grows
  <2> QED BY <1>0, <2>1, HandledStays, LinkedStays, OkStays DEF Promise
<1>3. CASE AgentStops \/ UNCHANGED vars
  <2>1. Grows /\ UNCHANGED <<at, seen, acked>>
    BY <1>0, <1>3 DEF AgentStops, Grows, vars, streamVars, workerVars, workVars
  <2> QED BY <1>0, <2>1, HandledStays, LinkedStays, OkStays DEF Promise
<1> QED BY <1>1, <1>2, <1>3 DEF Next

\* An acknowledged event has had its workflow started for every trigger it
\* matched, in whatever order workers race, die and see their starts fail,
\* unless its agent is gone or a start failed (_invoke, _unfinished_started_authority).
THEOREM AckedHasStarted == Spec => []AckedIsStarted
<1>1. ASSUME Init PROVE Promise
  BY <1>1, Standing DEF Init, Promise, Handled, Linked
<1>2. Promise => AckedIsStarted
  BY DEF Promise, Settled, Ok, AckedIsStarted
<1> QED BY <1>1, <1>2, BaseHolds, PromiseKept, PTL DEF Spec

=============================================================================
