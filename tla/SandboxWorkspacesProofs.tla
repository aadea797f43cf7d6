---------------------- MODULE SandboxWorkspacesProofs ----------------------
(***************************************************************************)
(* What SandboxWorkspaces promises, for any number of runs, agents, chats, *)
(* disk sizes, jobs and mishaps: the trees of live runs are kept, a chat's *)
(* disk has one writer, no row calls a live run's disk empty, and a sweep  *)
(* that destroys for the budget, or refuses a bind, does so for a reason.  *)
(***************************************************************************)
EXTENDS SandboxWorkspaces, FiniteSetTheorems, TLAPS

-----------------------------------------------------------------------------
(* Types.                                                                  *)

Owner == Runs \cup {None}
RowType ==
  [exists : BOOLEAN, held : Owner, last : Owner, size : Nat, known : BOOLEAN,
   stale : BOOLEAN, evicted : BOOLEAN, reset : BOOLEAN, user : BOOLEAN]
Places == {"idle", "acquired", "sweep", "bound", "job", "ending"}
Measure == [size : Nat, known : BOOLEAN]
CallType == [at : Places, disk : Disks \cup {None}, push : BOOLEAN, measure : {None} \cup Measure]
\* Rows of some of the disks.
Some == UNION {[D -> RowType] : D \in SUBSET Disks}
PlanType ==
  [seen : Some, live : SUBSET Runs, idle : SUBSET Disks, left : SUBSET Disks,
   gone : SUBSET Disks, paid : SUBSET Disks, foiled : BOOLEAN]

CallTypes == live \subseteq Runs /\ call \in [Runs -> CallType]
RowTypes  == rows \in [Disks -> RowType]
SweepTypes ==
  /\ txn \in [Runs -> Some] /\ plan \in [Runs -> PlanType]
  /\ \A r \in Runs : plan[r].idle \cup plan[r].left \subseteq DOMAIN plan[r].seen
DiskTypes ==
  vol \in [Disks -> Nat] /\ tree \in [Disks -> Owner] /\ busy \in [Disks -> Owner]
RestTypes ==
  /\ pending \subseteq Runs \X Disks /\ lost \subseteq Runs
  /\ displaced \subseteq Runs /\ parted \subseteq Runs
  /\ console = NoRead \/ console \in [agent : Agents, held : Owner, last : Owner]
Types == CallTypes /\ RowTypes /\ SweepTypes /\ DiskTypes /\ RestTypes

\* Who is who.
LEMMA Names ==
  /\ AgentOf \in [Runs -> Agents] /\ ChatOf \in [Runs -> Chats \cup {None}]
  /\ \A r \in Runs : AgentOf[r] \in Agents /\ AgentOf[r] \in Disks /\ r \in Disks
                     /\ r # None /\ r \notin Agents /\ r \notin Chats /\ AgentOf[r] \notin Chats
                     /\ AgentOf[r] \notin Runs
                     /\ (ChatOf[r] # None => ChatOf[r] \in Chats)
  /\ \A c \in Chats : c \in Disks /\ c \notin Agents /\ c \notin Runs
  /\ \A a \in Agents : a \in Disks /\ a \notin Chats /\ a \notin Runs
  /\ None \notin Runs /\ None \notin Disks
BY OwnersAssumption, NamesAssumption DEF Disks

\* What is written of some disks.
LEMMA SomeRows ==
  ASSUME NEW t \in Some
  PROVE  /\ DOMAIN t \subseteq Disks /\ \A d \in DOMAIN t : t[d] \in RowType
         /\ t \in [DOMAIN t -> RowType]
BY DEF Some

\* What Write does.
LEMMA Written ==
  ASSUME NEW t \in Some, NEW d \in Disks, NEW row \in RowType
  PROVE  /\ Write(t, d, row) \in Some /\ DOMAIN Write(t, d, row) = DOMAIN t \cup {d}
         /\ Write(t, d, row)[d] = row
         /\ \A e \in DOMAIN t \ {d} : Write(t, d, row)[e] = t[e]
<1> DEFINE w == Write(t, d, row)
<1>1. DOMAIN w = DOMAIN t \cup {d} /\ DOMAIN t \subseteq Disks
  BY SomeRows DEF Write
<1>2. w \in [DOMAIN t \cup {d} -> RowType]
  BY SomeRows DEF Write
<1> QED BY <1>1, <1>2 DEF Some, Write

\* Nothing is written.
LEMMA Nothing == <<>> \in Some /\ DOMAIN <<>> = {}
<1>1. DOMAIN <<>> = {}
  OBVIOUS
<1>2. <<>> \in [{} -> RowType]
  OBVIOUS
<1> QED BY <1>1, <1>2 DEF Some

\* The first row that is written.
LEMMA FirstRow ==
  ASSUME NEW d \in Disks, NEW row \in RowType
  PROVE  /\ Write(<<>>, d, row) \in Some /\ DOMAIN Write(<<>>, d, row) = {d}
         /\ Write(<<>>, d, row)[d] = row
<1>1. <<>> \in Some /\ DOMAIN <<>> \cup {d} = {d}
  BY Nothing
<1>2. /\ Write(<<>>, d, row) \in Some /\ DOMAIN Write(<<>>, d, row) = DOMAIN <<>> \cup {d}
      /\ Write(<<>>, d, row)[d] = row
  BY <1>1, Written
<1> QED BY <1>1, <1>2

\* What Commit does.
LEMMA Committed ==
  ASSUME RowTypes, NEW t \in Some, Commit(t)
  PROVE  /\ RowTypes' /\ \A d \in DOMAIN t : rows'[d] = t[d]
         /\ \A d \in Disks \ DOMAIN t : rows'[d] = rows[d]
<1>1. \A d \in Disks : View(d, t) \in RowType
  BY SomeRows DEF View, RowTypes
<1> QED BY <1>1, SomeRows DEF Commit, View, RowTypes

-----------------------------------------------------------------------------
(* What holds of calls, locks and owners, step by step.                    *)

Opens(r) == call[r].at \in {"acquired", "sweep"}

\* A run writes on a disk when its call is bound to it, or a job of its is at the runner.
Writes(r, d) ==
  \/ call[r].at \in {"bound", "job"} /\ call[r].disk = d
  \/ busy[d] = r
  \/ <<r, d>> \in pending

\* The runner has a job only of a run that waits for it or has lost it.
Jobs(r) ==
  /\ ~At(r, "idle") => r \in live
  /\ call[r].at \in {"bound", "job"} => call[r].disk \in Disks
  /\ \A d \in Disks :
       <<r, d>> \in pending \/ busy[d] = r => r \in lost \/ (At(r, "job") /\ call[r].disk = d)

\* A bind writes its own row and rows that no live run holds, and changes of
\* them neither the holder nor the person.
Locks(r) ==
  /\ DOMAIN txn[r] # {} => Opens(r)
  /\ Opens(r) => /\ call[r].disk = AgentOf[r] /\ AgentOf[r] \in DOMAIN txn[r]
                 /\ txn[r][AgentOf[r]].held = r /\ txn[r][AgentOf[r]].exists
  /\ At(r, "sweep") => ~txn[r][AgentOf[r]].evicted
  /\ AgentOf[r] \notin plan[r].idle
  /\ \A d \in DOMAIN txn[r] :
       /\ rows[d].held \notin live
       /\ d # AgentOf[r] => /\ txn[r][d].held = rows[d].held /\ txn[r][d].user = rows[d].user
                            /\ txn[r][d].exists /\ rows[d].exists

Apart == \A r \in Runs, q \in Runs : r # q => DOMAIN txn[r] \cap DOMAIN txn[q] = {}

\* A private disk has its run or does not exist; a person's disk has no run, and
\* an agent's row stays.
Private(r) == rows[r].held = IF rows[r].exists THEN r ELSE None
Users ==
  /\ \A c \in Chats : rows[c].user => rows[c].held = None
  /\ \A a \in Agents : rows[a].exists

Base ==
  /\ Types /\ Apart /\ Users
  /\ \A r \in Runs : Jobs(r) /\ Locks(r) /\ Private(r)

\* A holder changes only when the old one is over, displaced or parted.
Loses(x, d) ==
  \/ x \notin live /\ (d \in Chats => ~HasUnconfirmedJobs(x))
  \/ d \in Agents /\ x \in displaced'
  \/ x \in parted' /\ At(x, "idle") /\ ~HasUnconfirmedJobs(x)
LeaseMoves == \A d \in Disks : rows'[d].held = rows[d].held \/ Loses(rows[d].held, d)

\* Who begins to write holds the disk.
WritersMove ==
  \A r \in Runs, d \in Disks : Writes(r, d)' => Writes(r, d) \/ rows'[d].held = r

\* A volume is wiped when its holder is over or parts with it, and written by
\* the run whose container has it.
TreeMoves ==
  /\ \A d \in Disks :
       \/ tree'[d] = tree[d] /\ vol'[d] = vol[d]
       \/ /\ tree'[d] = None /\ vol'[d] = 0
          /\ rows[d].held \notin live \/ rows[d].held \in parted'
       \/ tree'[d] = busy[d] /\ busy[d] # None /\ UNCHANGED rows
  /\ tree' = tree \/ parted \subseteq parted'
GhostsMove ==
  /\ live' \subseteq live /\ displaced \subseteq displaced'
  /\ parted \subseteq parted' \cup (Runs \ live')

\* A row says evicted when the bind that commits it has emptied the disk.
EvictedBy(r, d) ==
  d \in DOMAIN txn[r] /\ txn[r][d].evicted /\ ~(At(r, "acquired") /\ d = AgentOf[r])
EvictMoves ==
  /\ \A d \in Agents \cup Runs : rows'[d].evicted =>
       \/ rows[d].evicted /\ rows'[d].held \in {rows[d].held, None}
       \/ rows'[d].held \notin live /\ \E r \in Runs : EvictedBy(r, d)
  /\ \A r \in Runs, d \in Agents \cup Runs : EvictedBy(r, d)' => EvictedBy(r, d) \/ vol'[d] = 0

\* What every step does.
Moves ==
  /\ Base' /\ LeaseMoves /\ WritersMove /\ TreeMoves /\ GhostsMove /\ EvictMoves

\* The call of r changes, and no other.
CallTo(r, c) ==
  call' \in [Runs -> CallType] /\ call'[r] = c /\ \A q \in Runs \ {r} : call'[q] = call[q]

\* This is what Goto does.
LEMMA Going ==
  ASSUME CallTypes, NEW r \in Runs, NEW c \in CallType, Goto(r, c)
  PROVE  CallTo(r, c)
BY DEF CallTypes, Goto, CallTo

\* The calls that are written as constants.
LEMMA Calls ==
  /\ Idle \in CallType /\ Idle.at = "idle" /\ Ending \in CallType /\ Ending.at = "ending"
  /\ \A d \in Disks : Bound(d) \in CallType /\ Bound(d).at = "bound" /\ Bound(d).disk = d
  /\ \A d \in Disks, push \in BOOLEAN :
       /\ Call("acquired", d, push) \in CallType /\ Call("acquired", d, push).at = "acquired"
       /\ Call("acquired", d, push).disk = d
BY DEF Idle, Ending, Bound, Call, CallType, Places, Measure

\* Nothing of a sweep changes, but for a call that has none.
Quiet ==
  /\ UNCHANGED <<txn, plan>> /\ live' \subseteq live
  /\ \A q \in Runs : call'[q] = call[q] \/ (~Opens(q) /\ call'[q].at \notin {"acquired", "sweep"})
  /\ \A q \in Runs : \A d \in DOMAIN txn[q] : rows'[d] = rows[d]

\* So the locks are as they were.
LEMMA QuietLocks ==
  ASSUME Base, Quiet
  PROVE  Apart' /\ (\A r \in Runs : Locks(r)')
         /\ \A r \in Runs, d \in Disks : EvictedBy(r, d)' => EvictedBy(r, d)
<1>1. Apart'
  BY DEF Base, Apart, Quiet
<1>2. ASSUME NEW r \in Runs PROVE Locks(r)'
  <2>1. Locks(r) /\ txn'[r] = txn[r] /\ plan'[r] = plan[r] /\ \A d \in DOMAIN txn[r] : rows'[d] = rows[d]
    BY DEF Base, Quiet
  <2>2. CASE call'[r] = call[r]
    BY <2>1, <2>2 DEF Locks, Opens, At, Quiet
  <2>3. CASE ~Opens(r) /\ call'[r].at \notin {"acquired", "sweep"}
    BY <2>1, <2>3 DEF Locks, Opens, At, Quiet
  <2> QED BY <2>2, <2>3 DEF Quiet
<1>3. ASSUME NEW r \in Runs, NEW d \in Disks, EvictedBy(r, d)' PROVE EvictedBy(r, d)
  <2>1. Locks(r) /\ txn'[r] = txn[r]
    BY DEF Base, Quiet
  <2>2. CASE call'[r] = call[r]
    BY <1>3, <2>1, <2>2 DEF EvictedBy, At
  <2>3. CASE ~Opens(r) /\ call'[r].at \notin {"acquired", "sweep"}
    BY <1>3, <2>1, <2>3 DEF EvictedBy, At, Opens
  <2> QED BY <2>2, <2>3 DEF Quiet
<1> QED BY <1>1, <1>2, <1>3

\* No job begins, waits or ends, and a run that is bound holds its disk.
Calm ==
  /\ UNCHANGED <<live, pending, busy, lost>>
  /\ \A q \in Runs :
       \/ call'[q] = call[q]
       \/ /\ call[q].at # "job" /\ call'[q].at # "job"
          /\ call'[q].at # "idle" => q \in live
          /\ call'[q].at = "bound" =>
               call'[q].disk \in Disks /\ rows'[call'[q].disk].held = q

\* So the jobs are as they were.
LEMMA CalmJobs ==
  ASSUME Base, Calm
  PROVE  (\A r \in Runs : Jobs(r)') /\ WritersMove
<1>1. ASSUME NEW r \in Runs PROVE Jobs(r)'
  BY DEF Base, Calm, Jobs, At
<1>2. ASSUME NEW r \in Runs, NEW d \in Disks, Writes(r, d)'
      PROVE  Writes(r, d) \/ rows'[d].held = r
  BY <1>2 DEF Calm, Writes
<1> QED BY <1>1, <1>2 DEF WritersMove

-----------------------------------------------------------------------------
(* Steps that write no row and no volume.                                  *)

\* Rows that stay.
LEMMA RowsStay ==
  ASSUME Base, UNCHANGED rows
  PROVE  /\ LeaseMoves /\ Users' /\ \A r \in Runs : Private(r)'
         /\ \A d \in Disks : rows'[d].evicted => rows[d].evicted /\ rows'[d].held = rows[d].held
BY DEF LeaseMoves, Base, Users, Private

\* Volumes that stay.
LEMMA DisksStay ==
  ASSUME UNCHANGED <<vol, tree>>
  PROVE  TreeMoves
BY DEF TreeMoves

\* Calls and jobs alone.
LEMMA PlainDoes ==
  ASSUME Base, Types', Quiet, GhostsMove, UNCHANGED <<rows, vol, tree>>,
         \A r \in Runs : Jobs(r)', WritersMove
  PROVE  Moves
<1>1. Agents \cup Runs \subseteq Disks
  BY DEF Disks
<1>2. EvictMoves
  BY <1>1, RowsStay, QuietLocks DEF EvictMoves
<1> QED BY <1>2, RowsStay, DisksStay, QuietLocks DEF Moves, Base

\* A call without a bind goes to a place without one.
LEMMA QuietCall ==
  ASSUME Base, NEW r \in Runs, NEW c \in CallType, CallTo(r, c), ~Opens(r),
         c.at \notin {"acquired", "sweep"}, UNCHANGED <<rows, txn, plan>>, live' \subseteq live
  PROVE  Quiet
BY DEF Quiet, CallTo

\* The calls stay.
LEMMA QuietStays ==
  ASSUME UNCHANGED <<call, rows, txn, plan>>, live' \subseteq live
  PROVE  Quiet
BY DEF Quiet

\* A call is not submitted, its run ends or goes on (_run_job, _run_loop).
LEMMA CallsDo ==
  ASSUME Base, NEW r \in Runs, NotSubmitted(r) \/ Continue(r) \/ SkipCleanup(r)
  PROVE  Moves
<1>0. CallTypes /\ RowTypes /\ SweepTypes /\ DiskTypes /\ RestTypes /\ Jobs(r) /\ Locks(r)
  BY DEF Base, Types
<1>1. /\ UNCHANGED <<live, rows, txn, plan, vol, tree, busy, pending, lost, console, displaced, parted>>
      /\ ~Opens(r) /\ call[r].at # "job" /\ r \in live /\ (Goto(r, Idle) \/ Goto(r, Ending))
  BY <1>0, Calls DEF NotSubmitted, Continue, SkipCleanup, Leave, sweepVars, volumeVars, jobVars,
     historyVars, Opens, At, Jobs
<1>2. PICK c \in {Idle, Ending} : CallTo(r, c)
  BY <1>0, <1>1, Calls, Going
<1>3. c \in CallType /\ c.at \in {"idle", "ending"}
  BY <1>2, Calls
<1>4. Types'
  BY <1>0, <1>1, <1>2 DEF Types, CallTypes, CallTo, RowTypes, SweepTypes, DiskTypes, RestTypes
<1>5. Quiet
  BY <1>1, <1>2, <1>3, QuietCall
<1>6. Calm
  BY <1>1, <1>2, <1>3 DEF Calm, CallTo
<1>7. GhostsMove
  BY <1>1 DEF GhostsMove
<1> QED BY <1>1, <1>4, <1>5, <1>6, <1>7, CalmJobs, PlainDoes

\* The console reads a row (agent_workspace_reset).
LEMMA ReadDoes ==
  ASSUME Base, NEW a \in Agents, ResetRead(a)
  PROVE  Moves
<1>0. CallTypes /\ RowTypes /\ SweepTypes /\ DiskTypes /\ RestTypes /\ rows[a] \in RowType
  BY Names DEF Base, Types, RowTypes
<1>1. /\ UNCHANGED <<live, call, rows, txn, plan, vol, tree, busy, pending, lost, displaced, parted>>
      /\ console' = [agent |-> a, held |-> rows[a].held, last |-> rows[a].last]
  BY DEF ResetRead, sweepVars, volumeVars, jobVars, historyVars
<1>2. rows[a].held \in Owner /\ rows[a].last \in Owner
  BY <1>0 DEF RowType
<1>3. Types'
  BY <1>0, <1>1, <1>2 DEF Types, CallTypes, RowTypes, SweepTypes, DiskTypes, RestTypes
<1>4. Quiet /\ Calm /\ GhostsMove
  BY <1>1, QuietStays DEF Calm, GhostsMove
<1> QED BY <1>1, <1>3, <1>4, CalmJobs, PlainDoes

\* A run ends (_finalize).
LEMMA FinishDoes ==
  ASSUME Base, NEW r \in Runs, Finish(r)
  PROVE  Moves
<1>0. CallTypes /\ RowTypes /\ SweepTypes /\ DiskTypes /\ RestTypes /\ Jobs(r) /\ Locks(r)
  BY DEF Base, Types
<1>1. /\ UNCHANGED <<rows, txn, plan, vol, tree, busy, pending, lost, console, displaced>>
      /\ live' = live \ {r} /\ parted' = parted \ {r} /\ At(r, "ending") /\ Goto(r, Idle)
  BY DEF Finish, sweepVars, volumeVars, jobVars
<1>2. CallTo(r, Idle) /\ Idle \in CallType /\ Idle.at = "idle"
  BY <1>0, <1>1, Calls, Going
<1>3. Types'
  BY <1>0, <1>1, <1>2 DEF Types, CallTypes, CallTo, RowTypes, SweepTypes, DiskTypes, RestTypes
<1>4. Quiet
  BY <1>1, <1>2, QuietCall DEF Opens, At
<1>5. GhostsMove
  BY <1>0, <1>1 DEF GhostsMove, RestTypes
<1>6. ASSUME NEW q \in Runs PROVE Jobs(q)'
  <2>1. Jobs(q)
    BY DEF Base
  <2>2. CASE q = r
    BY <1>0, <1>1, <1>2, <2>1, <2>2 DEF Jobs, At, CallTo
  <2>3. CASE q # r
    BY <1>0, <1>1, <1>2, <2>1, <2>3 DEF Jobs, At, CallTo
  <2> QED BY <2>2, <2>3
<1>7. WritersMove
  BY <1>1, <1>2 DEF WritersMove, Writes, CallTo
<1> QED BY <1>1, <1>3, <1>4, <1>5, <1>6, <1>7, PlainDoes

-----------------------------------------------------------------------------
(* The steps of a job.                                                     *)

\* What they leave alone.
LEMMA JobLike ==
  ASSUME Base, Types', Quiet, UNCHANGED <<live, rows, vol, tree, displaced, parted>>,
         \A r \in Runs : Jobs(r)', \A r \in Runs, d \in Disks : Writes(r, d)' => Writes(r, d)
  PROVE  Moves
<1>1. GhostsMove /\ WritersMove
  BY DEF GhostsMove, WritersMove
<1> QED BY <1>1, PlainDoes

\* The row of the job is committed, and the runner has it (_run_job).
LEMMA SubmitDoes ==
  ASSUME Base, NEW r \in Runs, Submit(r)
  PROVE  Moves
<1>0. CallTypes /\ RowTypes /\ SweepTypes /\ DiskTypes /\ RestTypes /\ Jobs(r) /\ Locks(r)
  BY DEF Base, Types
<1> DEFINE c == [call[r] EXCEPT !.at = "job"]
<1>1. /\ UNCHANGED <<live, rows, txn, plan, vol, tree, busy, lost, console, displaced, parted>>
      /\ At(r, "bound") /\ Goto(r, c) /\ pending' = pending \cup {<<r, call[r].disk>>}
      /\ call[r].disk \in Disks
  BY <1>0 DEF Submit, sweepVars, volumeVars, historyVars, Jobs, At
<1>2. c \in CallType /\ c.at = "job" /\ c.disk = call[r].disk
  BY <1>0 DEF CallTypes, CallType, Places
<1> HIDE DEF c
<1>3. CallTo(r, c)
  BY <1>0, <1>1, <1>2, Going
<1>4. Types'
  BY <1>0, <1>1, <1>3 DEF Types, CallTypes, CallTo, RowTypes, SweepTypes, DiskTypes, RestTypes
<1>5. Quiet
  BY <1>1, <1>2, <1>3, QuietCall DEF Opens, At
<1>6. ASSUME NEW q \in Runs PROVE Jobs(q)'
  <2>1. Jobs(q)
    BY DEF Base
  <2>2. CASE q = r
    BY <1>0, <1>1, <1>2, <1>3, <2>1, <2>2 DEF Jobs, At, CallTo
  <2>3. CASE q # r
    BY <1>0, <1>1, <1>2, <1>3, <2>1, <2>3 DEF Jobs, At, CallTo
  <2> QED BY <2>2, <2>3
<1>7. \A q \in Runs, d \in Disks : Writes(q, d)' => Writes(q, d)
  BY <1>1, <1>2, <1>3 DEF Writes, CallTo, At
<1> QED BY <1>1, <1>4, <1>5, <1>6, <1>7, JobLike

\* The runner mounts the disk of a job (_ensure_workspace_volume).
LEMMA BeginDoes ==
  ASSUME Base, NEW r \in Runs, NEW d \in Disks, Begin(r, d)
  PROVE  Moves
<1>0. CallTypes /\ RowTypes /\ SweepTypes /\ DiskTypes /\ RestTypes /\ Jobs(r) /\ Locks(r)
  BY DEF Base, Types
<1>1. /\ UNCHANGED <<live, rows, txn, plan, vol, tree, lost, console, displaced, parted>>
      /\ <<r, d>> \in pending /\ pending' = pending \ {<<r, d>>}
      /\ busy' = [busy EXCEPT ![d] = r] /\ busy[d] = None
  BY DEF Begin, sweepVars, historyVars
<1>2. PICK c \in CallType : CallTo(r, c) /\ c.at = call[r].at /\ c.disk = call[r].disk
  <2>1. CASE UNCHANGED call
    BY <1>0, <2>1 DEF CallTypes, CallTo
  <2>2. CASE \E m \in {[size |-> vol[d], known |-> TRUE]} \cup {[size |-> 0, known |-> FALSE]} :
               Goto(r, [call[r] EXCEPT !.measure = m])
    <3>1. PICK m \in {[size |-> vol[d], known |-> TRUE]} \cup {[size |-> 0, known |-> FALSE]} :
            Goto(r, [call[r] EXCEPT !.measure = m])
      BY <2>2
    <3>2. m \in Measure
      <4>1. vol[d] \in Nat
        BY <1>0 DEF DiskTypes
      <4>2. [size |-> vol[d], known |-> TRUE] \in Measure /\ [size |-> 0, known |-> FALSE] \in Measure
        BY <4>1 DEF Measure
      <4> QED BY <4>2
    <3> DEFINE c == [call[r] EXCEPT !.measure = m]
    <3>3. c \in CallType /\ c.at = call[r].at /\ c.disk = call[r].disk
      BY <1>0, <3>2 DEF CallTypes, CallType
    <3> HIDE DEF c
    <3>4. Goto(r, c)
      BY <3>1 DEF c
    <3> QED BY <1>0, <3>3, <3>4, Going
  <2> QED BY <2>1, <2>2 DEF Begin
<1>3. Types'
  BY <1>0, <1>1, <1>2 DEF Types, CallTypes, CallTo, RowTypes, SweepTypes, DiskTypes, RestTypes, Owner
<1>4. Quiet
  <2>1. \A q \in Runs : call'[q] = call[q] \/ (~Opens(q) /\ call'[q].at \notin {"acquired", "sweep"})
    <3>1. CASE Opens(r)
      <4>1. ~At(r, "job")
        BY <3>1 DEF Opens, At
      <4> QED BY <4>1 DEF Begin
    <3>2. CASE ~Opens(r)
      BY <1>2, <3>2 DEF CallTo, Opens
    <3> QED BY <3>1, <3>2
  <2> QED BY <1>1, <2>1 DEF Quiet
<1>5. ASSUME NEW q \in Runs PROVE Jobs(q)'
  <2>1. Jobs(q)
    BY DEF Base
  <2>2. \A e \in Disks : <<q, e>> \in pending' \/ busy'[e] = q => <<q, e>> \in pending \/ busy[e] = q
    BY <1>0, <1>1 DEF DiskTypes
  <2>3. call'[q].at = call[q].at /\ call'[q].disk = call[q].disk
    BY <1>2 DEF CallTo
  <2> QED BY <1>1, <2>1, <2>2, <2>3 DEF Jobs, At
<1>6. \A q \in Runs, e \in Disks : Writes(q, e)' => Writes(q, e)
  <2> TAKE q \in Runs, e \in Disks
  <2>1. <<q, e>> \in pending' \/ busy'[e] = q => <<q, e>> \in pending \/ busy[e] = q
    BY <1>0, <1>1 DEF DiskTypes
  <2>2. call'[q].at = call[q].at /\ call'[q].disk = call[q].disk
    BY <1>2 DEF CallTo
  <2> QED BY <2>1, <2>2 DEF Writes
<1> QED BY <1>1, <1>3, <1>4, <1>5, <1>6, JobLike

\* A job is given up, lost by its worker, or closed by the sweep of rows.
LEMMA JobsDo ==
  ASSUME Base, NEW r \in Runs,
         (\E d \in Disks : GiveUp(r, d)) \/ WalkAway(r) \/ ReconcileJobs(r)
  PROVE  Moves
<1>0. CallTypes /\ RowTypes /\ SweepTypes /\ DiskTypes /\ RestTypes /\ Jobs(r) /\ Locks(r)
  BY DEF Base, Types
<1>1. CASE WalkAway(r)
  <2>1. /\ UNCHANGED <<live, rows, txn, plan, vol, tree, busy, pending, console, displaced, parted>>
        /\ lost' = lost \cup {r} /\ At(r, "job") /\ Goto(r, Idle)
    BY <1>1 DEF WalkAway, sweepVars, volumeVars, historyVars
  <2>2. CallTo(r, Idle) /\ Idle \in CallType /\ Idle.at = "idle"
    BY <1>0, <2>1, Calls, Going
  <2>3. Types'
    BY <1>0, <2>1, <2>2 DEF Types, CallTypes, CallTo, RowTypes, SweepTypes, DiskTypes, RestTypes
  <2>4. Quiet
    BY <2>1, <2>2, QuietCall DEF Opens, At
  <2>5. ASSUME NEW q \in Runs PROVE Jobs(q)'
    <3>1. Jobs(q)
      BY DEF Base
    <3>2. CASE q = r
      BY <2>1, <2>2, <3>1, <3>2 DEF Jobs, At, CallTo
    <3>3. CASE q # r
      BY <2>1, <2>2, <3>1, <3>3 DEF Jobs, At, CallTo
    <3> QED BY <3>2, <3>3
  <2>6. \A q \in Runs, d \in Disks : Writes(q, d)' => Writes(q, d)
    BY <2>1, <2>2 DEF Writes, CallTo
  <2> QED BY <2>1, <2>3, <2>4, <2>5, <2>6, JobLike
<1>2. CASE (\E d \in Disks : GiveUp(r, d)) \/ ReconcileJobs(r)
  <2>1. /\ UNCHANGED <<live, call, rows, txn, plan, vol, tree, busy, console, displaced, parted>>
        /\ pending' \subseteq pending /\ lost' \subseteq lost
    BY <1>2 DEF GiveUp, ReconcileJobs, sweepVars, volumeVars, historyVars
  <2>2. Types' /\ Quiet
    BY <1>0, <2>1, QuietStays DEF Types, CallTypes, RowTypes, SweepTypes, DiskTypes, RestTypes
  <2>3. ASSUME NEW q \in Runs PROVE Jobs(q)'
    <3>1. Jobs(q)
      BY DEF Base
    <3>2. CASE lost' = lost
      BY <2>1, <3>1, <3>2 DEF Jobs, At
    <3>3. CASE ReconcileJobs(r)
      <4>1. lost' = lost \ {r} /\ ~AtTheRunner(r)
        BY <3>3 DEF ReconcileJobs
      <4>2. q # r => (q \in lost => q \in lost')
        BY <4>1
      <4>3. q = r => \A d \in Disks : <<q, d>> \notin pending /\ busy[d] # q
        BY <4>1 DEF AtTheRunner
      <4> QED BY <2>1, <3>1, <4>2, <4>3 DEF Jobs, At
    <3> QED BY <1>2, <3>2, <3>3 DEF GiveUp
  <2>4. \A q \in Runs, d \in Disks : Writes(q, d)' => Writes(q, d)
    BY <2>1 DEF Writes
  <2> QED BY <2>1, <2>2, <2>3, <2>4, JobLike
<1> QED BY <1>1, <1>2

\* The command is done (_run).
LEMMA EndDoes ==
  ASSUME Base, NEW d \in Disks, End(d)
  PROVE  Moves
<1>0. CallTypes /\ RowTypes /\ SweepTypes /\ DiskTypes /\ RestTypes
  BY DEF Base, Types
<1>1. PICK n \in Leaves : vol' = [vol EXCEPT ![d] = n]
  BY DEF End
<1>2. /\ UNCHANGED <<live, call, rows, txn, plan, pending, lost, console, displaced, parted>>
      /\ busy[d] # None /\ tree' = [tree EXCEPT ![d] = busy[d]] /\ busy' = [busy EXCEPT ![d] = None]
      /\ n \in Nat
  BY SizesAssumption DEF End, sweepVars, jobVars, historyVars
<1>3. Types'
  BY <1>0, <1>1, <1>2 DEF Types, CallTypes, RowTypes, SweepTypes, DiskTypes, RestTypes, Owner
<1>4. Quiet /\ GhostsMove
  BY <1>2, QuietStays DEF GhostsMove
<1>5. ASSUME NEW q \in Runs
      PROVE  Jobs(q)' /\ \A e \in Disks : Writes(q, e)' => Writes(q, e)
  <2>1. Jobs(q) /\ q # None
    BY Names DEF Base
  <2>2. \A e \in Disks : busy'[e] = q => busy[e] = q
    BY <1>0, <1>2, <2>1 DEF DiskTypes
  <2> QED BY <1>2, <2>1, <2>2 DEF Jobs, At, Writes
<1>6. WritersMove
  BY <1>5 DEF WritersMove
<1>7. TreeMoves
  <2>1. \A e \in Disks \ {d} : tree'[e] = tree[e] /\ vol'[e] = vol[e]
    BY <1>0, <1>1, <1>2 DEF DiskTypes
  <2>2. tree'[d] = busy[d] /\ busy[d] # None /\ UNCHANGED rows /\ parted \subseteq parted'
    BY <1>0, <1>2 DEF DiskTypes
  <2> QED BY <2>1, <2>2 DEF TreeMoves
<1>8. EvictMoves
  <2>1. Agents \cup Runs \subseteq Disks
    BY DEF Disks
  <2> QED BY <1>2, <1>4, <2>1, RowsStay, QuietLocks DEF EvictMoves
<1> QED BY <1>2, <1>3, <1>4, <1>5, <1>6, <1>7, <1>8, RowsStay, QuietLocks DEF Moves, Base

-----------------------------------------------------------------------------
(* Steps that write one row.                                               *)

\* What they leave alone, and what is left to show.
LEMMA RowDoes ==
  ASSUME Base, Types', Calm, Quiet, GhostsMove, LeaseMoves, TreeMoves, Users',
         \A r \in Runs : Private(r)',
         \A d \in Agents \cup Runs :
           rows'[d].evicted => rows[d].evicted /\ rows'[d].held \in {rows[d].held, None}
  PROVE  Moves
<1>1. Agents \cup Runs \subseteq Disks
  BY DEF Disks
<1>2. EvictMoves
  BY <1>1, QuietLocks DEF EvictMoves
<1> QED BY <1>2, CalmJobs, QuietLocks DEF Moves, Base

\* Nobody has locked the row, and the call of r has no bind.
LEMMA QuietRow ==
  ASSUME Base, NEW d \in Disks, \A q \in Runs : d \notin DOMAIN txn[q],
         \A e \in Disks \ {d} : rows'[e] = rows[e], UNCHANGED <<live, txn, plan>>,
         \A q \in Runs : call'[q] = call[q] \/ (~Opens(q) /\ call'[q].at \notin {"acquired", "sweep"})
  PROVE  Quiet
<1>1. \A q \in Runs : DOMAIN txn[q] \subseteq Disks
  BY SomeRows DEF Base, Types, SweepTypes
<1> QED BY <1>1 DEF Quiet

\* What a run that has no bind finds unlocked is not locked.
LEMMA FreeRow ==
  ASSUME Base, NEW r \in Runs, NEW d \in Disks, Unlocked(d, r), ~Opens(r)
  PROVE  \A q \in Runs : d \notin DOMAIN txn[q]
<1>1. DOMAIN txn[r] = {}
  BY DEF Base, Locks
<1> QED BY <1>1 DEF Unlocked

\* A row that keeps its holder, its person and what it says of eviction.
LEMMA SoftRow ==
  ASSUME Base, NEW d \in Disks, \A e \in Disks \ {d} : rows'[e] = rows[e],
         rows'[d].held = rows[d].held, rows'[d].exists = rows[d].exists,
         rows'[d].evicted = rows[d].evicted, rows'[d].user => rows[d].user
  PROVE  /\ LeaseMoves /\ Users' /\ (\A r \in Runs : Private(r)')
         /\ \A e \in Disks : rows'[e].evicted => rows[e].evicted /\ rows'[e].held = rows[e].held
<1>1. \A e \in Disks : /\ rows'[e].held = rows[e].held /\ rows'[e].exists = rows[e].exists
                       /\ rows'[e].evicted = rows[e].evicted /\ (rows'[e].user => rows[e].user)
  OBVIOUS
<1>2. Runs \subseteq Disks /\ Chats \subseteq Disks /\ Agents \subseteq Disks
  BY DEF Disks
<1>3. Users' /\ \A r \in Runs : Private(r)'
  BY <1>1, <1>2 DEF Base, Users, Private
<1> QED BY <1>1, <1>3 DEF LeaseMoves

\* A run goes on with the disk it holds (_renew).
LEMMA RenewDoes ==
  ASSUME Base, NEW r \in Runs, NEW push \in BOOLEAN, Renew(r, push)
  PROVE  Moves
<1>0. CallTypes /\ RowTypes /\ SweepTypes /\ DiskTypes /\ RestTypes /\ Jobs(r) /\ Locks(r)
  BY DEF Base, Types
<1>1. /\ UNCHANGED <<live, txn, plan, vol, tree, busy, pending, lost, console, displaced, parted>>
      /\ r \in live /\ At(r, "idle")
  BY DEF Renew, OwnDisk, sweepVars, volumeVars, jobVars, historyVars
<1>2. PICK d \in Holdings(r) :
        /\ Unlocked(d, r) /\ rows' = [rows EXCEPT ![d].stale = FALSE]
        /\ Goto(r, Bound(d)) \/ UNCHANGED call
  BY DEF Renew
<1>3. d \in Disks /\ rows[d].held = r /\ rows[d] \in RowType
  BY <1>0 DEF Holdings, RowTypes
<1> DEFINE v == [rows[d] EXCEPT !.stale = FALSE]
<1>4. /\ v \in RowType /\ v.held = rows[d].held /\ v.exists = rows[d].exists
      /\ v.evicted = rows[d].evicted /\ v.user = rows[d].user
  BY <1>3 DEF RowType
<1>5. rows' = [rows EXCEPT ![d] = v]
  BY <1>0, <1>2 DEF RowTypes
<1> HIDE DEF v
<1>6. RowTypes' /\ rows'[d] = v /\ \A e \in Disks \ {d} : rows'[e] = rows[e]
  BY <1>0, <1>3, <1>4, <1>5 DEF RowTypes
<1>7. PICK c \in CallType : CallTo(r, c) /\ (c = call[r] \/ c = Bound(d))
  <2>1. CASE UNCHANGED call
    BY <1>0, <2>1 DEF CallTypes, CallTo
  <2>2. CASE Goto(r, Bound(d))
    BY <1>0, <1>3, <2>2, Calls, Going
  <2> QED BY <1>2, <2>1, <2>2
<1>8. Types'
  BY <1>0, <1>1, <1>6, <1>7 DEF Types, CallTypes, CallTo, SweepTypes, DiskTypes, RestTypes
<1>9. Calm
  BY <1>1, <1>3, <1>4, <1>6, <1>7, Calls DEF Calm, CallTo, At
<1>10. Quiet
  <2>1. \A q \in Runs : d \notin DOMAIN txn[q]
    BY <1>1, <1>2, <1>3, FreeRow DEF Opens, At
  <2>2. \A q \in Runs : call'[q] = call[q] \/ (~Opens(q) /\ call'[q].at \notin {"acquired", "sweep"})
    BY <1>1, <1>3, <1>7, Calls DEF CallTo, Opens, At
  <2> QED BY <1>1, <1>3, <1>6, <2>1, <2>2, QuietRow
<1>11. /\ LeaseMoves /\ Users' /\ (\A q \in Runs : Private(q)')
       /\ \A e \in Disks : rows'[e].evicted => rows[e].evicted /\ rows'[e].held = rows[e].held
  BY <1>3, <1>4, <1>6, SoftRow
<1>12. GhostsMove /\ TreeMoves
  BY <1>1, DisksStay DEF GhostsMove
<1> QED BY <1>8, <1>9, <1>10, <1>11, <1>12, RowDoes DEF Disks

\* The worker has the outcome of a job (record_size).
LEMMA ReportDoes ==
  ASSUME Base, NEW r \in Runs, Report(r)
  PROVE  Moves
<1>0. CallTypes /\ RowTypes /\ SweepTypes /\ DiskTypes /\ RestTypes /\ Jobs(r) /\ Locks(r)
  BY DEF Base, Types
<1> PICK d : d = call[r].disk
  OBVIOUS
<1>1. /\ UNCHANGED <<live, txn, plan, vol, tree, busy, pending, lost, console, displaced, parted>>
      /\ At(r, "job") /\ Goto(r, Idle) /\ busy[d] # r /\ <<r, d>> \notin pending /\ d \in Disks
  BY <1>0 DEF Report, sweepVars, volumeVars, jobVars, historyVars, Jobs, At
<1>2. CallTo(r, Idle) /\ Idle \in CallType /\ Idle.at = "idle"
  BY <1>0, <1>1, Calls, Going
<1>3. /\ RowTypes' /\ (\A e \in Disks \ {d} : rows'[e] = rows[e])
      /\ rows'[d].held = rows[d].held /\ rows'[d].exists = rows[d].exists
      /\ rows'[d].evicted = rows[d].evicted /\ rows'[d].user = rows[d].user
      /\ (UNCHANGED rows \/ Unlocked(d, r))
  <2>1. CASE UNCHANGED rows
    BY <1>0, <2>1 DEF RowTypes
  <2>2. CASE call[r].measure # None /\ Unlocked(d, r)
             /\ rows' = [rows EXCEPT ![d].size = call[r].measure.size, ![d].known = call[r].measure.known]
    <3>1. call[r].measure \in Measure /\ rows[d] \in RowType
      BY <1>0, <1>1, <2>2 DEF CallTypes, CallType, RowTypes
    <3>2. PICK n \in Nat, k \in BOOLEAN : n = call[r].measure.size /\ k = call[r].measure.known
      BY <3>1 DEF Measure
    <3> DEFINE v == [rows[d] EXCEPT !.size = n, !.known = k]
    <3>3. /\ v \in RowType /\ v.held = rows[d].held /\ v.exists = rows[d].exists
          /\ v.evicted = rows[d].evicted /\ v.user = rows[d].user
      BY <3>1 DEF RowType
    <3>4. rows' = [rows EXCEPT ![d] = v]
      BY <1>0, <2>2, <3>2 DEF RowTypes
    <3> HIDE DEF v
    <3> QED BY <1>0, <1>1, <2>2, <3>3, <3>4 DEF RowTypes
  <2> QED BY <2>1, <2>2 DEF Report
<1>4. Types'
  BY <1>0, <1>1, <1>2, <1>3 DEF Types, CallTypes, CallTo, SweepTypes, DiskTypes, RestTypes
<1>5. Quiet
  <2>1. \A q \in Runs : call'[q] = call[q] \/ (~Opens(q) /\ call'[q].at \notin {"acquired", "sweep"})
    BY <1>1, <1>2 DEF CallTo, Opens, At
  <2>2. CASE UNCHANGED rows
    BY <1>1, <2>1, <2>2 DEF Quiet
  <2>3. CASE Unlocked(d, r)
    <3>1. \A q \in Runs : d \notin DOMAIN txn[q]
      BY <1>1, <2>3, FreeRow DEF Opens, At
    <3> QED BY <1>1, <1>3, <2>1, <3>1, QuietRow
  <2> QED BY <1>3, <2>2, <2>3
<1>6. ASSUME NEW q \in Runs PROVE Jobs(q)' /\ \A e \in Disks : Writes(q, e)' => Writes(q, e)
  <2>1. Jobs(q)
    BY DEF Base
  <2>2. CASE q = r
    BY <1>1, <1>2, <2>1, <2>2 DEF Jobs, At, CallTo, Writes
  <2>3. CASE q # r
    BY <1>1, <1>2, <2>1, <2>3 DEF Jobs, At, CallTo, Writes
  <2> QED BY <2>2, <2>3
<1>7. WritersMove /\ GhostsMove /\ TreeMoves
  BY <1>1, <1>6, DisksStay DEF WritersMove, GhostsMove
<1>8. /\ LeaseMoves /\ Users' /\ (\A q \in Runs : Private(q)')
      /\ \A e \in Disks : rows'[e].evicted => rows[e].evicted /\ rows'[e].held = rows[e].held
  BY <1>1, <1>3, SoftRow
<1>9. EvictMoves
  BY <1>5, <1>8, QuietLocks DEF EvictMoves, Disks
<1> QED BY <1>4, <1>5, <1>6, <1>7, <1>8, <1>9, QuietLocks DEF Moves, Base

\* A disk grows old, or a person gives a chat's disk back.
LEMMA AgeDoes ==
  ASSUME Base, NEW d \in Disks, Age(d) \/ (d \in Chats /\ GiveBack(d))
  PROVE  Moves
<1>0. CallTypes /\ RowTypes /\ SweepTypes /\ DiskTypes /\ RestTypes /\ rows[d] \in RowType
  BY DEF Base, Types, RowTypes
<1>1. /\ UNCHANGED <<live, call, txn, plan, vol, tree, busy, pending, lost, console, displaced, parted>>
      /\ \A q \in Runs : d \notin DOMAIN txn[q]
  BY DEF Age, GiveBack, sweepVars, volumeVars, jobVars, historyVars
<1>2. PICK v \in RowType : /\ v.held = rows[d].held /\ v.exists = rows[d].exists
                           /\ v.evicted = rows[d].evicted /\ (v.user => rows[d].user)
                           /\ rows' = [rows EXCEPT ![d] = v]
  <2> DEFINE old == [rows[d] EXCEPT !.stale = TRUE]
             back == [rows[d] EXCEPT !.user = FALSE]
  <2>1. /\ old \in RowType /\ old.held = rows[d].held /\ old.exists = rows[d].exists
        /\ old.evicted = rows[d].evicted /\ old.user = rows[d].user
        /\ back \in RowType /\ back.held = rows[d].held /\ back.exists = rows[d].exists
        /\ back.evicted = rows[d].evicted /\ back.user = FALSE
    BY <1>0 DEF RowType
  <2>2. rows' = [rows EXCEPT ![d] = old] \/ rows' = [rows EXCEPT ![d] = back]
    BY <1>0 DEF Age, GiveBack, RowTypes
  <2> HIDE DEF old, back
  <2> QED BY <2>1, <2>2
<1>3. RowTypes' /\ rows'[d] = v /\ \A e \in Disks \ {d} : rows'[e] = rows[e]
  BY <1>0, <1>2 DEF RowTypes
<1>4. Types' /\ Calm /\ GhostsMove /\ TreeMoves
  BY <1>0, <1>1, <1>3, DisksStay DEF Types, CallTypes, SweepTypes, DiskTypes, RestTypes, Calm, GhostsMove
<1>5. Quiet
  BY <1>1, <1>3, QuietRow
<1>6. /\ LeaseMoves /\ Users' /\ (\A q \in Runs : Private(q)')
      /\ \A e \in Disks : rows'[e].evicted => rows[e].evicted /\ rows'[e].held = rows[e].held
  BY <1>2, <1>3, SoftRow
<1> QED BY <1>4, <1>5, <1>6, RowDoes DEF Disks

\* The console takes the lease, or leaves it, and asks for a reset.
LEMMA WriteDoes ==
  ASSUME Base, NEW force \in BOOLEAN, ResetWrite(force)
  PROVE  Moves
<1>0. CallTypes /\ RowTypes /\ SweepTypes /\ DiskTypes /\ RestTypes
  BY DEF Base, Types
<1> PICK a, takes : a = console.agent /\ takes = (force /\ console.held # None)
  OBVIOUS
<1>1. /\ UNCHANGED <<live, call, txn, plan, vol, tree, busy, pending, lost, parted>>
      /\ (\A q \in Runs : a \notin DOMAIN txn[q]) /\ console' = NoRead
      /\ console \in [agent : Agents, held : Owner, last : Owner]
  BY <1>0 DEF ResetWrite, sweepVars, volumeVars, jobVars, RestTypes
<1>2. a \in Agents /\ console.held \in Owner /\ a \in Disks /\ rows[a] \in RowType
      /\ a \notin Chats /\ a \notin Runs
  BY <1>0, <1>1, Names DEF RowTypes
<1>3. PICK held \in Owner, last \in Owner :
        /\ held = IF takes THEN None ELSE rows[a].held
        /\ last = IF takes /\ console.held # console.last THEN console.held ELSE rows[a].last
  BY <1>2 DEF RowType, Owner
<1> DEFINE v == [rows[a] EXCEPT !.reset = TRUE, !.held = held, !.last = last]
<1>4. /\ v \in RowType /\ v.held = held /\ v.evicted = rows[a].evicted
      /\ v.exists = rows[a].exists
  BY <1>2, <1>3 DEF RowType
<1>5. rows' = [rows EXCEPT ![a] = v]
  BY <1>0, <1>2, <1>3 DEF ResetWrite, RowTypes
<1> HIDE DEF v
<1>6. RowTypes' /\ rows'[a] = v /\ \A e \in Disks \ {a} : rows'[e] = rows[e]
  BY <1>0, <1>2, <1>4, <1>5 DEF RowTypes
<1>7. /\ displaced \subseteq displaced' /\ displaced' \subseteq Runs
      /\ takes /\ rows[a].held \in live => rows[a].held \in displaced'
  <2>1. displaced' = displaced \cup (IF takes THEN {rows[a].held} \cap live ELSE {})
    BY DEF ResetWrite
  <2> QED BY <1>0, <2>1 DEF CallTypes, RestTypes
<1>8. Types'
  BY <1>0, <1>1, <1>6, <1>7 DEF Types, CallTypes, SweepTypes, DiskTypes, RestTypes
<1>9. Calm /\ GhostsMove /\ TreeMoves
  BY <1>1, <1>7, DisksStay DEF Calm, GhostsMove
<1>10. Quiet
  BY <1>1, <1>2, <1>6, QuietRow
<1>11. LeaseMoves
  BY <1>2, <1>3, <1>4, <1>6, <1>7 DEF LeaseMoves, Loses
<1>12. Users' /\ \A q \in Runs : Private(q)'
  BY <1>2, <1>4, <1>6 DEF Base, Users, Private, Disks
<1>13. \A e \in Agents \cup Runs :
         rows'[e].evicted => rows[e].evicted /\ rows'[e].held \in {rows[e].held, None}
  BY <1>3, <1>4, <1>6 DEF Disks
<1> QED BY <1>8, <1>9, <1>10, <1>11, <1>12, <1>13, RowDoes

\* A run binds its chat's disk, or a person takes it (bind_conversation_workspace, control).
LEMMA ChatDoes ==
  ASSUME Base, NEW c \in Chats,
         TakeControl(c) \/ \E r \in Runs, push \in BOOLEAN : c = ChatOf[r] /\ BindChat(r, push)
  PROVE  Moves
<1>0. CallTypes /\ RowTypes /\ SweepTypes /\ DiskTypes /\ RestTypes /\ Users /\ c \in Disks
      /\ rows[c] \in RowType /\ c \notin Agents /\ c \notin Runs
  BY Names DEF Base, Types, RowTypes
<1>1. ASSUME NEW v \in RowType, rows' = [rows EXCEPT ![c] = v],
             v.user => v.held = None, ~rows[c].user,
             rows[c].held = v.held \/ Over(rows[c]),
             \A q \in Runs : c \notin DOMAIN txn[q],
             UNCHANGED <<live, txn, plan, vol, tree, busy, pending, lost, console, displaced, parted>>,
             Calm, CallTypes', \A q \in Runs : call'[q] = call[q]
                     \/ (~Opens(q) /\ call'[q].at \notin {"acquired", "sweep"})
      PROVE  Moves
  <2>1. RowTypes' /\ rows'[c] = v /\ \A e \in Disks \ {c} : rows'[e] = rows[e]
    BY <1>0, <1>1 DEF RowTypes
  <2>2. Types'
    BY <1>0, <1>1, <2>1 DEF Types, SweepTypes, DiskTypes, RestTypes
  <2>3. Quiet
    BY <1>0, <1>1, <2>1, QuietRow
  <2>4. GhostsMove /\ TreeMoves
    BY <1>1, DisksStay DEF GhostsMove
  <2>5. LeaseMoves
    BY <1>0, <1>1, <2>1 DEF LeaseMoves, Loses, Over
  <2>6. Users' /\ \A q \in Runs : Private(q)'
    BY <1>0, <1>1, <2>1 DEF Base, Users, Private, Disks
  <2>7. \A e \in Agents \cup Runs :
          rows'[e].evicted => rows[e].evicted /\ rows'[e].held \in {rows[e].held, None}
    BY <1>0, <2>1 DEF Disks
  <2> QED BY <1>1, <2>2, <2>3, <2>4, <2>5, <2>6, <2>7, RowDoes
<1>2. CASE TakeControl(c)
  <2> DEFINE v == [rows[c] EXCEPT !.held = None, !.user = TRUE]
  <2>1. v \in RowType /\ v.held = None
    BY <1>0 DEF RowType, Owner
  <2>2. rows' = [rows EXCEPT ![c] = v]
    BY <1>0, <1>2 DEF TakeControl, RowTypes
  <2> HIDE DEF v
  <2>3. /\ UNCHANGED <<live, call, txn, plan, vol, tree, busy, pending, lost, console, displaced, parted>>
        /\ ~rows[c].user /\ Over(rows[c]) /\ \A q \in Runs : c \notin DOMAIN txn[q]
    BY <1>2 DEF TakeControl, sweepVars, volumeVars, jobVars, historyVars
  <2>4. Calm /\ CallTypes'
    BY <1>0, <2>3 DEF Calm, CallTypes
  <2> QED BY <1>1, <2>1, <2>2, <2>3, <2>4
<1>3. CASE \E r \in Runs, push \in BOOLEAN : c = ChatOf[r] /\ BindChat(r, push)
  <2>1. PICK r \in Runs, push \in BOOLEAN : c = ChatOf[r] /\ BindChat(r, push)
    BY <1>3
  <2> DEFINE v == [rows[c] EXCEPT !.held = r, !.stale = FALSE]
  <2>2. v \in RowType /\ v.held = r /\ v.user = rows[c].user
    BY <1>0 DEF RowType, Owner
  <2>3. rows' = [rows EXCEPT ![c] = v]
    BY <1>0, <2>1 DEF BindChat, RowTypes
  <2> HIDE DEF v
  <2>4. /\ UNCHANGED <<live, txn, plan, vol, tree, busy, pending, lost, console, displaced, parted>>
        /\ r \in live /\ At(r, "idle") /\ Unlocked(c, r) /\ ~rows[c].user
        /\ rows[c].held = r \/ Over(rows[c])
        /\ Goto(r, Bound(c))
    BY <2>1 DEF BindChat, sweepVars, volumeVars, jobVars, historyVars
  <2>5. CallTo(r, Bound(c)) /\ Bound(c).at = "bound" /\ Bound(c).disk = c
    BY <1>0, <2>4, Calls, Going
  <2>6. rows'[c].held = r
    BY <1>0, <2>2, <2>3 DEF RowTypes
  <2>7. Calm
    BY <1>0, <2>4, <2>5, <2>6 DEF Calm, CallTo, At
  <2>8. \A q \in Runs : c \notin DOMAIN txn[q]
    BY <1>0, <2>4, FreeRow DEF Opens, At
  <2>9. CallTypes' /\ \A q \in Runs : call'[q] = call[q]
                     \/ (~Opens(q) /\ call'[q].at \notin {"acquired", "sweep"})
    BY <1>0, <2>4, <2>5 DEF CallTypes, CallTo, Opens, At
  <2> QED BY <1>1, <2>2, <2>3, <2>4, <2>7, <2>8, <2>9
<1> QED BY <1>2, <1>3

\* A run binds a private disk (_private_binding).
LEMMA PrivateDoes ==
  ASSUME Base, NEW r \in Runs, BindPrivate(r)
  PROVE  Moves
<1>0. CallTypes /\ RowTypes /\ SweepTypes /\ DiskTypes /\ RestTypes /\ r \in Disks
      /\ r \notin Agents /\ r \notin Chats /\ r # None /\ None \notin Runs
  BY Names DEF Base, Types
<1>1. /\ UNCHANGED <<live, txn, plan, vol, tree, busy, pending, lost, console, displaced, parted>>
      /\ r \in live /\ At(r, "idle") /\ Goto(r, Bound(r)) /\ Holdings(r) = {}
  BY DEF BindPrivate, OwnDisk, sweepVars, volumeVars, jobVars, historyVars
<1> DEFINE v == [Row(TRUE) EXCEPT !.held = r]
<1>2. v \in RowType /\ v.held = r /\ v.exists /\ ~v.evicted
  BY DEF Row, RowType, Owner
<1>3. rows' = [rows EXCEPT ![r] = v]
  BY DEF BindPrivate
<1> HIDE DEF v
<1>4. RowTypes' /\ rows'[r] = v /\ \A e \in Disks \ {r} : rows'[e] = rows[e]
  BY <1>0, <1>2, <1>3 DEF RowTypes
<1>5. ~rows[r].exists /\ rows[r].held = None
  <2>1. Private(r)
    BY DEF Base
  <2> QED BY <1>0, <1>1, <2>1 DEF Private, Holdings
<1>6. \A q \in Runs : r \notin DOMAIN txn[q]
  <2>1. \A q \in Runs : Locks(q) /\ r # AgentOf[q]
    BY Names DEF Base
  <2> QED BY <1>5, <2>1 DEF Locks
<1>7. CallTo(r, Bound(r)) /\ Bound(r).at = "bound" /\ Bound(r).disk = r
  BY <1>0, <1>1, Calls, Going
<1>8. Types'
  BY <1>0, <1>1, <1>4, <1>7 DEF Types, CallTypes, CallTo, SweepTypes, DiskTypes, RestTypes
<1>9. Calm
  BY <1>0, <1>1, <1>2, <1>4, <1>7 DEF Calm, CallTo, At
<1>10. Quiet
  <2>1. \A q \in Runs : call'[q] = call[q] \/ (~Opens(q) /\ call'[q].at \notin {"acquired", "sweep"})
    BY <1>1, <1>7 DEF CallTo, Opens, At
  <2> QED BY <1>0, <1>1, <1>4, <1>6, <2>1, QuietRow
<1>11. GhostsMove /\ TreeMoves
  BY <1>1, DisksStay DEF GhostsMove
<1>12. LeaseMoves
  BY <1>0, <1>4, <1>5 DEF LeaseMoves, Loses, Base, Types, CallTypes
<1>13. Users' /\ \A q \in Runs : Private(q)'
  BY <1>0, <1>2, <1>4 DEF Base, Users, Private, Disks
<1>14. \A e \in Agents \cup Runs :
         rows'[e].evicted => rows[e].evicted /\ rows'[e].held \in {rows[e].held, None}
  BY <1>2, <1>4 DEF Disks
<1> QED BY <1>8, <1>9, <1>10, <1>11, <1>12, <1>13, <1>14, RowDoes

\* The cleanup of a run (release_run_bindings, _cleanup_run_workspace).
LEMMA CleanupDoes ==
  ASSUME Base, NEW r \in Runs, Cleanup(r)
  PROVE  Moves
<1>0. /\ CallTypes /\ RowTypes /\ SweepTypes /\ DiskTypes /\ RestTypes /\ Users
      /\ r \in Disks /\ r # None /\ r \notin Agents /\ r \notin Chats
  BY Names DEF Base, Types
<1>1. /\ UNCHANGED <<live, txn, plan, busy, pending, lost, console, displaced>>
      /\ r \in live /\ At(r, "idle") /\ Goto(r, Ending)
      /\ \A d \in Holdings(r) : Unlocked(d, r)
      /\ parted \subseteq parted' /\ parted' \subseteq parted \cup {r}
  BY DEF Cleanup, Leave, sweepVars, volumeVars, jobVars, Removed, Kept
<1>2. \/ UNCHANGED <<rows, vol, tree>>
      \/ /\ rows' = Released(r) /\ r \in parted'
         /\ HasUnconfirmedJobs(r) => Holdings(r) = {}
         /\ \/ UNCHANGED <<vol, tree>>
            \/ vol' = [vol EXCEPT ![r] = 0] /\ tree' = [tree EXCEPT ![r] = None]
  BY DEF Cleanup, Removed, Kept, volumeVars
<1>3. CallTo(r, Ending) /\ Ending.at = "ending"
  BY <1>0, <1>1, Calls, Going
<1>4. /\ RowTypes'
      /\ \A d \in Disks :
           \/ rows'[d] = rows[d]
           \/ /\ rows[d].held = r /\ rows[d].exists /\ rows'[d].held = None
              /\ rows'[d].evicted => rows[d].evicted
              /\ rows'[d].exists <=> d # r
              /\ rows'[d].user => rows[d].user
              /\ r \in parted' /\ ~HasUnconfirmedJobs(r)
  <2>1. CASE UNCHANGED rows
    BY <1>0, <2>1 DEF RowTypes
  <2>2. CASE rows' = Released(r) /\ r \in parted' /\ (HasUnconfirmedJobs(r) => Holdings(r) = {})
    <3> DEFINE off(d) == IF d = r THEN Row(FALSE)
                         ELSE [rows[d] EXCEPT !.held = None, !.stale = FALSE,
                                              !.last = IF d \in Agents THEN r ELSE None]
    <3>1. ASSUME NEW d \in Disks
          PROVE  /\ off(d) \in RowType /\ off(d).held = None
                 /\ off(d).evicted => rows[d].evicted
                 /\ d # r => off(d).exists = rows[d].exists
                 /\ d = r => ~off(d).exists
                 /\ off(d).user => rows[d].user
      <4>1. CASE d = r
        BY <4>1 DEF Row, RowType, Owner
      <4>2. CASE d # r
        <5>1. rows[d] \in RowType
          BY <1>0 DEF RowTypes
        <5>2. PICK last \in Owner : last = IF d \in Agents THEN r ELSE None
          BY DEF Owner
        <5>3. off(d) = [rows[d] EXCEPT !.held = None, !.stale = FALSE, !.last = last]
          BY <4>2, <5>2
        <5> HIDE DEF off
        <5> QED BY <4>2, <5>1, <5>3 DEF RowType, Owner
      <4> QED BY <4>1, <4>2
    <3>2. \A d \in Disks : rows[d] \in RowType
      BY <1>0 DEF RowTypes
    <3>3. \A d \in Disks :
            rows'[d] = IF ~rows[d].exists \/ rows[d].held # r THEN rows[d] ELSE off(d)
      BY <2>2 DEF Released
    <3>4. RowTypes'
      <4>1. rows' = [d \in Disks |-> IF ~rows[d].exists \/ rows[d].held # r THEN rows[d] ELSE off(d)]
        BY <2>2 DEF Released
      <4> HIDE DEF off
      <4> QED BY <3>1, <3>2, <4>1 DEF RowTypes
    <3> HIDE DEF off
    <3>5. ASSUME NEW d \in Disks, rows[d].exists, rows[d].held = r PROVE ~HasUnconfirmedJobs(r)
      BY <2>2, <3>5 DEF Holdings
    <3> QED BY <2>2, <3>1, <3>3, <3>4, <3>5
  <2> QED BY <1>2, <2>1, <2>2
<1>5. Types'
  <2>1. parted' \subseteq Runs
    BY <1>0, <1>1 DEF RestTypes
  <2>2. DiskTypes'
    BY <1>0, <1>1, <1>2 DEF DiskTypes, Owner
  <2> QED BY <1>0, <1>1, <1>3, <1>4, <2>1, <2>2, Calls DEF Types, CallTypes, CallTo, SweepTypes, RestTypes
<1>6. Calm /\ GhostsMove
  BY <1>1, <1>3 DEF Calm, CallTo, At, GhostsMove
<1>7. Quiet
  <2>1. \A q \in Runs : call'[q] = call[q] \/ (~Opens(q) /\ call'[q].at \notin {"acquired", "sweep"})
    BY <1>1, <1>3 DEF CallTo, Opens, At
  <2>2. ASSUME NEW q \in Runs, NEW d \in DOMAIN txn[q] PROVE rows'[d] = rows[d]
    <3>1. d \in Disks
      BY <1>0, SomeRows DEF SweepTypes
    <3>2. CASE rows[d].held = r /\ rows[d].exists
      <4>1. d \in Holdings(r)
        BY <3>1, <3>2 DEF Holdings
      <4>2. d \notin DOMAIN txn[q]
        BY <1>1, <3>1, <4>1, FreeRow DEF Opens, At
      <4> QED BY <4>2
    <3> QED BY <1>4, <3>1, <3>2
  <2> QED BY <1>1, <2>1, <2>2 DEF Quiet
<1>8. LeaseMoves
  BY <1>1, <1>4 DEF LeaseMoves, Loses
<1>9. TreeMoves
  <2>1. CASE UNCHANGED <<vol, tree>>
    BY <2>1, DisksStay
  <2>2. CASE vol' = [vol EXCEPT ![r] = 0] /\ tree' = [tree EXCEPT ![r] = None] /\ r \in parted'
    <3>1. /\ \A d \in Disks \ {r} : tree'[d] = tree[d] /\ vol'[d] = vol[d]
          /\ tree'[r] = None /\ vol'[r] = 0
      BY <1>0, <2>2 DEF DiskTypes
    <3>2. rows[r].held \notin live \/ rows[r].held \in parted'
      <4>1. Private(r) /\ None \notin live
        BY <1>0, Names DEF Base, CallTypes
      <4> QED BY <2>2, <4>1 DEF Private
    <3> QED BY <1>1, <3>1, <3>2 DEF TreeMoves
  <2> QED BY <1>2, <2>1, <2>2
<1>10. Users'
  BY <1>0, <1>4 DEF Users, Disks
<1>11. \A q \in Runs : Private(q)'
  <2> TAKE q \in Runs
  <2>1. Private(q) /\ q \in Disks /\ q # None
    BY Names DEF Base
  <2> QED BY <1>4, <2>1 DEF Private
<1>12. \A e \in Agents \cup Runs :
         rows'[e].evicted => rows[e].evicted /\ rows'[e].held \in {rows[e].held, None}
  BY <1>4 DEF Disks
<1> QED BY <1>5, <1>6, <1>7, <1>8, <1>9, <1>10, <1>11, <1>12, RowDoes

-----------------------------------------------------------------------------
(* The steps of a bind on the disk of an agent.                            *)

\* The bind of r alone moves.
Alone(r) ==
  /\ \A q \in Runs \ {r} : txn'[q] = txn[q] /\ plan'[q] = plan[q] /\ call'[q] = call[q]
  /\ UNCHANGED <<live, pending, busy, lost, displaced, parted>>

\* What the others have locked and planned stays.
LEMMA OthersStay ==
  ASSUME Base, NEW r \in Runs, Alone(r),
         \A q \in Runs \ {r} : \A d \in DOMAIN txn[q] : rows'[d] = rows[d],
         \A q \in Runs \ {r} : DOMAIN txn'[r] \cap DOMAIN txn[q] = {}
  PROVE  /\ Apart' /\ GhostsMove /\ \A q \in Runs \ {r} : Locks(q)'
         /\ \A q \in Runs \ {r}, d \in Disks : EvictedBy(q, d)' => EvictedBy(q, d)
<1>1. Apart'
  BY DEF Base, Apart, Alone
<1>2. ASSUME NEW q \in Runs \ {r} PROVE Locks(q)'
  <2>1. Locks(q)
    BY DEF Base
  <2> QED BY <2>1 DEF Alone, Locks, Opens, At
<1>3. \A q \in Runs \ {r}, d \in Disks : EvictedBy(q, d)' => EvictedBy(q, d)
  BY DEF Alone, EvictedBy, At
<1> QED BY <1>1, <1>2, <1>3 DEF Alone, GhostsMove

\* A step before the commit.
LEMMA Uncommitted ==
  ASSUME Base, Types', NEW r \in Runs, Alone(r), UNCHANGED rows,
         call[r].at # "job", call'[r].at \notin {"job", "bound"}, call'[r].at # "idle" => r \in live,
         Locks(r)', \A q \in Runs \ {r} : DOMAIN txn'[r] \cap DOMAIN txn[q] = {}, TreeMoves,
         \A d \in Agents \cup Runs : EvictedBy(r, d)' => EvictedBy(r, d) \/ vol'[d] = 0
  PROVE  Moves
<1>1. /\ Apart' /\ GhostsMove /\ (\A q \in Runs \ {r} : Locks(q)')
      /\ \A q \in Runs \ {r}, d \in Disks : EvictedBy(q, d)' => EvictedBy(q, d)
  BY OthersStay
<1>2. \A q \in Runs : Locks(q)'
  BY <1>1
<1>3. Calm
  BY DEF Calm, Alone
<1>4. EvictMoves
  <2>1. Agents \cup Runs \subseteq Disks
    BY DEF Disks
  <2>2. \A q \in Runs, d \in Agents \cup Runs : EvictedBy(q, d)' => EvictedBy(q, d) \/ vol'[d] = 0
    BY <1>1, <2>1
  <2> QED BY <2>1, <2>2, RowsStay DEF EvictMoves
<1> QED BY <1>1, <1>2, <1>3, <1>4, RowsStay, CalmJobs DEF Moves, Base

\* The commit.
LEMMA Committing ==
  ASSUME Base, NEW r \in Runs, Alone(r), NEW t \in Some, Commit(t),
         DOMAIN t \subseteq DOMAIN txn[r], \A d \in DOMAIN t \ {AgentOf[r]} : t[d] = txn[r][d],
         AgentOf[r] \in DOMAIN t, ~t[AgentOf[r]].evicted, t[AgentOf[r]].exists,
         CallTypes', SweepTypes', DiskTypes', UNCHANGED console, TreeMoves,
         DOMAIN txn'[r] = {}, AgentOf[r] \notin plan'[r].idle, Opens(r),
         \/ call'[r].at = "idle"
         \/ call'[r].at = "bound" /\ call'[r].disk = AgentOf[r] /\ t[AgentOf[r]].held = r
  PROVE  Moves
<1> DEFINE a == AgentOf[r]
<1>0. /\ CallTypes /\ RowTypes /\ SweepTypes /\ RestTypes /\ Jobs(r) /\ Locks(r) /\ Apart /\ Users
      /\ a \in Agents /\ a \in Disks /\ a \notin Chats /\ a \notin Runs
  BY Names DEF Base, Types
<1>1. /\ RowTypes' /\ (\A d \in DOMAIN t : rows'[d] = t[d]) /\ DOMAIN t \subseteq Disks
      /\ \A d \in Disks \ DOMAIN t : rows'[d] = rows[d]
  BY <1>0, Committed, SomeRows
<1>2. \A d \in DOMAIN t : /\ rows[d].held \notin live /\ d \in DOMAIN txn[r]
                          /\ d # a => /\ rows'[d].held = rows[d].held /\ rows'[d].user = rows[d].user
                                      /\ rows'[d].exists /\ rows[d].exists
  BY <1>0, <1>1 DEF Locks
<1>3. \A q \in Runs \ {r} : \A d \in DOMAIN txn[q] : rows'[d] = rows[d]
  <2>1. \A q \in Runs : DOMAIN txn[q] \subseteq Disks
    BY <1>0, SomeRows DEF SweepTypes
  <2>2. \A q \in Runs \ {r} : \A d \in DOMAIN txn[q] : d \notin DOMAIN t
    BY <1>0 DEF Apart
  <2> QED BY <1>1, <2>1, <2>2
<1>4. /\ Apart' /\ GhostsMove /\ (\A q \in Runs \ {r} : Locks(q)')
      /\ \A q \in Runs \ {r}, d \in Disks : EvictedBy(q, d)' => EvictedBy(q, d)
  BY <1>3, OthersStay
<1>5. Locks(r)'
  BY DEF Locks, Opens, At
<1>6. \A q \in Runs : Locks(q)'
  BY <1>4, <1>5
<1>7. Calm
  BY <1>0, <1>1 DEF Calm, Alone, Opens, Jobs, At
<1>8. LeaseMoves
  BY <1>0, <1>1, <1>2 DEF LeaseMoves, Loses
<1>9. Users'
  <2>1. ASSUME NEW c \in Chats, rows'[c].user PROVE rows'[c].held = None
    <3>1. c \in Disks /\ c # a
      BY <1>0, Names
    <3> QED BY <1>0, <1>1, <1>2, <2>1, <3>1 DEF Users
  <2>2. ASSUME NEW b \in Agents PROVE rows'[b].exists
    <3>1. b \in Disks
      BY Names
    <3> QED BY <1>0, <1>1, <1>2, <3>1 DEF Users
  <2> QED BY <2>1, <2>2 DEF Users
<1>10. \A q \in Runs : Private(q)'
  <2> TAKE q \in Runs
  <2>1. Private(q) /\ q \in Disks /\ q # a
    BY <1>0, Names DEF Base
  <2> QED BY <1>1, <1>2, <2>1 DEF Private
<1>11. EvictMoves
  <2>1. Agents \cup Runs \subseteq Disks
    BY DEF Disks
  <2>2. ASSUME NEW d \in Agents \cup Runs, rows'[d].evicted
        PROVE  \/ rows[d].evicted /\ rows'[d].held \in {rows[d].held, None}
               \/ rows'[d].held \notin live /\ EvictedBy(r, d)
    <3>1. CASE d \notin DOMAIN t
      BY <1>1, <2>1, <2>2, <3>1
    <3>2. CASE d \in DOMAIN t
      <4>1. rows'[d] = t[d] /\ d # a
        BY <1>1, <2>2, <3>2
      <4>2. txn[r][d].evicted /\ rows'[d].held \notin live /\ d \in DOMAIN txn[r]
        BY <1>2, <2>2, <3>2, <4>1
      <4> QED BY <4>1, <4>2 DEF EvictedBy
    <3> QED BY <3>1, <3>2
  <2>3. \A q \in Runs, d \in Agents \cup Runs : EvictedBy(q, d)' => EvictedBy(q, d)
    <3>1. \A d : ~EvictedBy(r, d)'
      BY DEF EvictedBy
    <3> QED BY <1>4, <2>1, <3>1
  <2> QED BY <2>2, <2>3 DEF EvictMoves
<1>12. Types'
  BY <1>0, <1>1 DEF Types, RestTypes, Alone
<1> QED BY <1>4, <1>6, <1>7, <1>8, <1>9, <1>10, <1>11, <1>12, CalmJobs DEF Moves, Base

\* A volume the runner has removed, or has kept.
LEMMA Removing ==
  ASSUME DiskTypes, NEW d \in Disks, UNCHANGED parted
  PROVE  /\ Removed(d) /\ rows[d].held \notin live =>
              TreeMoves /\ DiskTypes' /\ vol'[d] = 0 /\ UNCHANGED busy
         /\ Kept(d) => TreeMoves /\ DiskTypes' /\ UNCHANGED <<vol, tree, busy>>
<1>1. ASSUME Removed(d), rows[d].held \notin live
      PROVE  TreeMoves /\ DiskTypes' /\ vol'[d] = 0 /\ UNCHANGED busy
  <2>1. vol' = [vol EXCEPT ![d] = 0] /\ tree' = [tree EXCEPT ![d] = None] /\ UNCHANGED busy
    BY <1>1 DEF Removed
  <2>2. /\ \A e \in Disks \ {d} : tree'[e] = tree[e] /\ vol'[e] = vol[e]
        /\ tree'[d] = None /\ vol'[d] = 0
    BY <2>1 DEF DiskTypes
  <2> QED BY <1>1, <2>1, <2>2 DEF TreeMoves, DiskTypes, Owner
<1>2. ASSUME Kept(d) PROVE TreeMoves /\ DiskTypes' /\ UNCHANGED <<vol, tree, busy>>
  BY <1>2, DisksStay DEF Kept, volumeVars, DiskTypes
<1> QED BY <1>1, <1>2

\* Everything the lemmas below start from.
LEMMA Starting ==
  ASSUME Base, NEW r \in Runs
  PROVE  /\ CallTypes /\ RowTypes /\ SweepTypes /\ DiskTypes /\ RestTypes
         /\ Jobs(r) /\ Locks(r) /\ Apart
         /\ txn[r] \in Some /\ plan[r] \in PlanType /\ call[r] \in CallType
         /\ DOMAIN txn[r] \subseteq Disks
         /\ AgentOf[r] \in Agents /\ AgentOf[r] \in Disks
         /\ rows[AgentOf[r]] \in RowType
BY Names, SomeRows DEF Base, Types, CallTypes, SweepTypes, RowTypes

\* The new rows and plan of r, and the others'.
LEMMA Planning ==
  ASSUME SweepTypes, NEW r \in Runs, NEW t \in Some, NEW p \in PlanType,
         p.idle \cup p.left \subseteq DOMAIN p.seen,
         txn' = [txn EXCEPT ![r] = t], plan' = [plan EXCEPT ![r] = p]
  PROVE  /\ SweepTypes' /\ txn'[r] = t /\ plan'[r] = p
         /\ \A q \in Runs \ {r} : txn'[q] = txn[q] /\ plan'[q] = plan[q]
BY DEF SweepTypes

\* The lease is taken (_acquire).
LEMMA AcquireDoes ==
  ASSUME Base, NEW r \in Runs, NEW push \in BOOLEAN, Acquire(r, push)
  PROVE  Moves
<1> DEFINE a == AgentOf[r]
           c == Call("acquired", a, push)
<1>0. /\ CallTypes /\ RowTypes /\ SweepTypes /\ DiskTypes /\ RestTypes /\ Jobs(r) /\ Locks(r)
      /\ a \in Disks /\ rows[a] \in RowType /\ a \in Agents /\ plan[r] \in PlanType
  BY Starting
<1>1. /\ UNCHANGED <<live, rows, plan, vol, tree, busy, pending, lost, console, displaced, parted>>
      /\ r \in live /\ At(r, "idle") /\ Unlocked(a, r) /\ rows[a].held \notin live /\ Goto(r, c)
  BY DEF Acquire, OwnDisk, Unheld, volumeVars, jobVars, historyVars
<1>2. CallTo(r, c) /\ c.at = "acquired" /\ c.disk = a
  BY <1>0, <1>1, Calls, Going
<1> HIDE DEF c
<1>3. PICK last \in Owner : last = IF rows[a].held # None THEN rows[a].held ELSE rows[a].last
  BY <1>0 DEF RowType
<1> DEFINE v == [rows[a] EXCEPT !.held = r, !.last = last]
<1>4. v \in RowType /\ v.held = r /\ v.exists = rows[a].exists
  BY <1>0 DEF RowType, Owner
<1>5. txn' = [txn EXCEPT ![r] = Write(<<>>, a, v)]
  BY <1>3 DEF Acquire
<1> HIDE DEF v
<1>6. /\ Write(<<>>, a, v) \in Some /\ DOMAIN Write(<<>>, a, v) = {a} /\ Write(<<>>, a, v)[a] = v
  BY <1>0, <1>4, FirstRow
<1> DEFINE t == Write(<<>>, a, v)
<1> HIDE DEF t
<1>7. /\ SweepTypes' /\ DOMAIN txn'[r] = {a} /\ txn'[r][a] = v /\ plan'[r] = plan[r]
      /\ \A q \in Runs \ {r} : txn'[q] = txn[q] /\ plan'[q] = plan[q]
  BY <1>0, <1>1, <1>5, <1>6 DEF SweepTypes
<1>8. Types'
  BY <1>0, <1>1, <1>2, <1>7 DEF Types, CallTypes, CallTo, RowTypes, DiskTypes, RestTypes
<1>9. Alone(r) /\ TreeMoves
  BY <1>1, <1>2, <1>7, DisksStay DEF Alone, CallTo
<1>10. Locks(r)'
  <2>1. rows[a].exists
    BY <1>0 DEF Base, Users
  <2> QED BY <1>0, <1>1, <1>2, <1>4, <1>7, <2>1 DEF Locks, Opens, At, CallTo
<1>11. \A q \in Runs \ {r} : DOMAIN txn'[r] \cap DOMAIN txn[q] = {}
  BY <1>1, <1>7 DEF Unlocked
<1>12. \A d \in Agents \cup Runs : EvictedBy(r, d)' => EvictedBy(r, d) \/ vol'[d] = 0
  BY <1>2, <1>7 DEF EvictedBy, At, CallTo
<1> QED BY <1>1, <1>2, <1>8, <1>9, <1>10, <1>11, <1>12, Uncommitted DEF At, CallTo

\* The bind dies, and nothing of it is committed.
LEMMA DieDoes ==
  ASSUME Base, NEW r \in Runs, Die(r)
  PROVE  Moves
<1>0. /\ CallTypes /\ RowTypes /\ SweepTypes /\ DiskTypes /\ RestTypes /\ Jobs(r) /\ Locks(r)
  BY Starting
<1>1. /\ UNCHANGED <<live, rows, vol, tree, busy, pending, lost, console, displaced, parted>>
      /\ Opens(r) /\ Goto(r, Idle)
      /\ txn' = [txn EXCEPT ![r] = <<>>] /\ plan' = [plan EXCEPT ![r] = NoPlan]
  BY DEF Die, volumeVars, jobVars, historyVars, Opens
<1>2. CallTo(r, Idle) /\ Idle.at = "idle"
  BY <1>0, <1>1, Calls, Going
<1>3. NoPlan \in PlanType /\ NoPlan.idle = {} /\ NoPlan.left = {}
  BY Nothing DEF NoPlan, PlanType
<1>4. /\ SweepTypes' /\ txn'[r] = <<>> /\ plan'[r] = NoPlan
      /\ \A q \in Runs \ {r} : txn'[q] = txn[q] /\ plan'[q] = plan[q]
  BY <1>0, <1>1, <1>3, Nothing, Planning
<1>5. Types'
  BY <1>0, <1>1, <1>2, <1>4 DEF Types, CallTypes, CallTo, RowTypes, DiskTypes, RestTypes
<1>6. Alone(r) /\ TreeMoves
  BY <1>1, <1>2, <1>4, DisksStay DEF Alone, CallTo
<1>7. DOMAIN txn'[r] = {}
  BY <1>4, Nothing
<1>8. Locks(r)'
  BY <1>2, <1>3, <1>4, <1>7 DEF Locks, Opens, At, CallTo
<1>9. \A d \in Agents \cup Runs : ~EvictedBy(r, d)'
  BY <1>7 DEF EvictedBy
<1>10. call[r].at # "job" /\ call'[r].at = "idle"
  BY <1>1, <1>2 DEF Opens, CallTo
<1> QED BY <1>1, <1>5, <1>6, <1>7, <1>8, <1>9, <1>10, Uncommitted

\* Where a sweep begins: it takes neither the disks of live runs, nor its own
\* for its age.
LEMMA PlanOf ==
  ASSUME Base, NEW r \in Runs, NEW t \in Some, r \in live, AgentOf[r] \in DOMAIN t,
         t[AgentOf[r]].held = r, t[AgentOf[r]].exists, ~t[AgentOf[r]].evicted
  PROVE  /\ SweepPlan(r, t) \in PlanType
         /\ SweepPlan(r, t).idle \cup SweepPlan(r, t).left \subseteq DOMAIN SweepPlan(r, t).seen
         /\ AgentOf[r] \notin SweepPlan(r, t).idle
<1> DEFINE D    == {d \in Disks : View(d, t).exists /\ ~View(d, t).evicted}
           seen == [d \in D |-> View(d, t)]
           free == {d \in DOMAIN seen : ~HeldByLive(seen[d], live)}
           idle == {d \in free : seen[d].stale}
           own  == IF call[r].push THEN {} ELSE {AgentOf[r]}
           left == {d \in (free \cup own) \ idle : seen[d].known /\ seen[d].size > 0}
<1>1. RowTypes /\ live \subseteq Runs /\ AgentOf[r] \in Disks
  BY Starting DEF CallTypes
<1>2. \A d \in Disks : View(d, t) \in RowType
  BY <1>1, SomeRows DEF View, RowTypes
<1>3. View(AgentOf[r], t) = t[AgentOf[r]]
  BY DEF View
<1>4. AgentOf[r] \in D /\ D \subseteq Disks
  BY <1>1, <1>3
<1>5. seen \in Some /\ DOMAIN seen = D /\ seen[AgentOf[r]] = t[AgentOf[r]]
  <2>1. seen \in [D -> RowType]
    BY <1>2
  <2> QED BY <1>3, <1>4, <2>1 DEF Some
<1> HIDE DEF D, seen
<1>6. idle \subseteq D /\ left \subseteq D
  BY <1>4, <1>5
<1>7. AgentOf[r] \notin idle
  BY <1>5 DEF HeldByLive
<1> DEFINE p == [NoPlan EXCEPT !.seen = seen, !.live = live, !.idle = idle, !.left = left]
<1>8. SweepPlan(r, t) = p
  BY DEF SweepPlan, seen, D
<1> HIDE DEF idle, left
<1>9. p \in PlanType /\ p.idle = idle /\ p.left = left /\ p.seen = seen
  <2>1. idle \subseteq Disks /\ left \subseteq Disks
    BY <1>4, <1>6
  <2> QED BY <1>1, <1>5, <2>1 DEF NoPlan, PlanType
<1> QED BY <1>5, <1>6, <1>7, <1>8, <1>9

\* NoPlan is a plan.
LEMMA Planless ==
  ASSUME SweepTypes, NEW r \in Runs, AgentOf[r] \notin plan[r].idle, txn' = [txn EXCEPT ![r] = <<>>],
         UNCHANGED plan \/ plan' = [plan EXCEPT ![r] = NoPlan]
  PROVE  /\ SweepTypes' /\ DOMAIN txn'[r] = {} /\ AgentOf[r] \notin plan'[r].idle
         /\ \A q \in Runs \ {r} : txn'[q] = txn[q] /\ plan'[q] = plan[q]
<1>1. NoPlan \in PlanType /\ NoPlan.idle = {} /\ NoPlan.left = {}
  BY Nothing DEF NoPlan, PlanType
<1>2. PICK p \in PlanType : /\ plan' = [plan EXCEPT ![r] = p] /\ AgentOf[r] \notin p.idle
                            /\ p.idle \cup p.left \subseteq DOMAIN p.seen
  <2>1. CASE UNCHANGED plan
    BY <2>1 DEF SweepTypes
  <2>2. CASE plan' = [plan EXCEPT ![r] = NoPlan]
    BY <1>1, <2>2
  <2> QED BY <2>1, <2>2
<1>3. /\ SweepTypes' /\ txn'[r] = <<>> /\ plan'[r] = p
      /\ \A q \in Runs \ {r} : txn'[q] = txn[q] /\ plan'[q] = plan[q]
  BY <1>2, Nothing, Planning
<1> QED BY <1>2, <1>3, Nothing

\* A bind is refused (_refuse_full, WorkspaceUnknown): its lease goes back.
LEMMA RefuseDoes ==
  ASSUME Base, NEW r \in Runs, NEW t \in Some, Refuse(r, t), Opens(r),
         DOMAIN t \subseteq DOMAIN txn[r], \A d \in DOMAIN t \ {AgentOf[r]} : t[d] = txn[r][d],
         AgentOf[r] \in DOMAIN t, ~t[AgentOf[r]].evicted, t[AgentOf[r]].exists,
         UNCHANGED plan \/ plan' = [plan EXCEPT ![r] = NoPlan], DiskTypes', TreeMoves,
         UNCHANGED <<live, busy, pending, lost, console, displaced, parted>>
  PROVE  Moves
<1> DEFINE a == AgentOf[r]
           u == [t EXCEPT ![a].held = None]
<1>0. /\ CallTypes /\ RowTypes /\ SweepTypes /\ DiskTypes /\ RestTypes /\ Locks(r) /\ a \in Disks
  BY Starting
<1>1. t[a] \in RowType /\ t \in [DOMAIN t -> RowType] /\ DOMAIN t \subseteq Disks
  BY SomeRows
<1> DEFINE v == [t[a] EXCEPT !.held = None]
<1>2. v \in RowType /\ ~v.evicted /\ v.exists
  BY <1>1 DEF RowType, Owner
<1>3. u = [t EXCEPT ![a] = v]
  OBVIOUS
<1> HIDE DEF v, u
<1>4. /\ u \in Some /\ DOMAIN u = DOMAIN t /\ u[a] = v
      /\ \A d \in DOMAIN t \ {a} : u[d] = t[d]
  BY <1>1, <1>2, <1>3 DEF Some
<1>5. Commit(u) /\ txn' = [txn EXCEPT ![r] = <<>>] /\ Goto(r, Idle)
  BY DEF Refuse, u
<1>6. CallTo(r, Idle) /\ Idle.at = "idle"
  BY <1>0, <1>5, Calls, Going
<1>7. /\ SweepTypes' /\ DOMAIN txn'[r] = {} /\ a \notin plan'[r].idle
      /\ \A q \in Runs \ {r} : txn'[q] = txn[q] /\ plan'[q] = plan[q]
  BY <1>0, <1>5, Planless DEF Locks
<1>8. Alone(r) /\ CallTypes' /\ call'[r].at = "idle"
  BY <1>0, <1>6, <1>7 DEF Alone, CallTo, CallTypes
<1> HIDE DEF a
<1>9. /\ DOMAIN u \subseteq DOMAIN txn[r] /\ (\A d \in DOMAIN u \ {AgentOf[r]} : u[d] = txn[r][d])
      /\ AgentOf[r] \in DOMAIN u /\ ~u[AgentOf[r]].evicted /\ u[AgentOf[r]].exists
  BY <1>2, <1>4 DEF a
<1> QED BY <1>4, <1>5, <1>7, <1>8, <1>9, Committing DEF a

\* A disk that is as it should be begins the sweep, or has a size nobody knows.
LEMMA SettleTo ==
  ASSUME Base, NEW r \in Runs, At(r, "acquired"), NEW new \in RowType,
         new.held = r, new.exists, ~new.evicted, DiskTypes', TreeMoves,
         UNCHANGED <<live, busy, pending, lost, console, displaced, parted>>,
         \/ Refuse(r, Write(<<>>, AgentOf[r], new)) /\ UNCHANGED plan
         \/ LET t == Write(<<>>, AgentOf[r], [new EXCEPT !.stale = FALSE]) IN
              /\ txn' = [txn EXCEPT ![r] = t]
              /\ plan' = [plan EXCEPT ![r] = SweepPlan(r, t)]
              /\ Goto(r, [call[r] EXCEPT !.at = "sweep"]) /\ UNCHANGED rows
  PROVE  Moves
<1> DEFINE a == AgentOf[r]
<1>0. /\ CallTypes /\ RowTypes /\ SweepTypes /\ DiskTypes /\ RestTypes /\ Locks(r) /\ Jobs(r)
      /\ a \in Disks /\ call[r] \in CallType
  BY Starting
<1>1. CASE Refuse(r, Write(<<>>, a, new)) /\ UNCHANGED plan
  <2> DEFINE t == Write(<<>>, a, new)
  <2>1. t \in Some /\ DOMAIN t = {a} /\ t[a] = new
    BY <1>0, FirstRow
  <2> HIDE DEF t
  <2>2. Refuse(r, t) /\ Opens(r)
    BY <1>1 DEF t, Opens, At
  <2>3. /\ DOMAIN t \subseteq DOMAIN txn[r] /\ \A d \in DOMAIN t \ {AgentOf[r]} : t[d] = txn[r][d]
    BY <1>0, <2>1, <2>2 DEF Locks
  <2> QED BY <1>1, <2>1, <2>2, <2>3, RefuseDoes
<1>2. CASE LET t == Write(<<>>, a, [new EXCEPT !.stale = FALSE]) IN
             /\ txn' = [txn EXCEPT ![r] = t]
             /\ plan' = [plan EXCEPT ![r] = SweepPlan(r, t)]
             /\ Goto(r, [call[r] EXCEPT !.at = "sweep"]) /\ UNCHANGED rows
  <2> DEFINE v == [new EXCEPT !.stale = FALSE]
             t == Write(<<>>, a, v)
             p == SweepPlan(r, t)
             c == [call[r] EXCEPT !.at = "sweep"]
  <2>1. v \in RowType /\ v.held = r /\ v.exists /\ ~v.evicted
    BY DEF RowType
  <2>2. c \in CallType /\ c.at = "sweep" /\ c.disk = call[r].disk
    BY <1>0 DEF CallType, Places
  <2>3. /\ txn' = [txn EXCEPT ![r] = t] /\ plan' = [plan EXCEPT ![r] = p] /\ Goto(r, c) /\ UNCHANGED rows
    BY <1>2
  <2> HIDE DEF v
  <2>4. t \in Some /\ DOMAIN t = {a} /\ t[a] = v
    BY <1>0, <2>1, FirstRow
  <2>5. r \in live /\ Opens(r) /\ call[r].disk = a
    BY <1>0 DEF Jobs, Locks, Opens, At
  <2>6. p \in PlanType /\ p.idle \cup p.left \subseteq DOMAIN p.seen /\ a \notin p.idle
    BY <2>1, <2>4, <2>5, PlanOf
  <2> HIDE DEF p, t, c
  <2>7. CallTo(r, c)
    BY <1>0, <2>2, <2>3, Going
  <2>8. /\ SweepTypes' /\ txn'[r] = t /\ plan'[r] = p
        /\ \A q \in Runs \ {r} : txn'[q] = txn[q] /\ plan'[q] = plan[q]
    <3>1. p.idle \cup p.left \subseteq DOMAIN p.seen
      BY <2>6
    <3>2. SweepTypes /\ t \in Some /\ p \in PlanType
      BY <1>0, <2>4, <2>6
    <3>3. txn' = [txn EXCEPT ![r] = t] /\ plan' = [plan EXCEPT ![r] = p]
      BY <2>3
    <3> QED BY <3>1, <3>2, <3>3 DEF SweepTypes
  <2>9. Types'
    BY <1>0, <2>3, <2>7, <2>8 DEF Types, CallTypes, CallTo, RowTypes, RestTypes
  <2>10. Alone(r) /\ call'[r] = c
    BY <2>7, <2>8 DEF Alone, CallTo
  <2>11. Locks(r)'
    <3>1. rows[a].held \notin live /\ a \in DOMAIN txn[r]
      BY <1>0, <2>5 DEF Locks
    <3> QED BY <2>1, <2>2, <2>3, <2>4, <2>5, <2>6, <2>8, <2>10, <3>1 DEF Locks, Opens, At
  <2>12. \A q \in Runs \ {r} : DOMAIN txn'[r] \cap DOMAIN txn[q] = {}
    <3>1. a \in DOMAIN txn[r] /\ Apart
      BY <1>0, <2>5, Starting DEF Locks
    <3> QED BY <2>4, <2>8, <3>1 DEF Apart
  <2>13. \A d \in Agents \cup Runs : ~EvictedBy(r, d)'
    BY <2>1, <2>4, <2>8 DEF EvictedBy
  <2>14. call[r].at # "job" /\ call'[r].at \notin {"job", "bound"}
    BY <2>2, <2>10 DEF At
  <2> QED BY <2>3, <2>5, <2>9, <2>10, <2>11, <2>12, <2>13, <2>14, Uncommitted
<1> QED BY <1>1, <1>2

\* The acquired disk is emptied or not (_recycle).
LEMMA SettleDoes ==
  ASSUME Base, NEW r \in Runs, Settle(r)
  PROVE  Moves
<1> DEFINE a == AgentOf[r]
           row == txn[r][a]
<1>0. /\ DiskTypes /\ Locks(r) /\ a \in Disks /\ txn[r] \in Some /\ UNCHANGED parted /\ At(r, "acquired")
      /\ UNCHANGED <<live, pending, lost, console, displaced, parted>>
  BY Starting DEF Settle, historyVars, jobVars
<1>1. row \in RowType /\ row.held = r /\ row.exists /\ rows[a].held \notin live
  BY <1>0, SomeRows DEF Locks, Opens, At
<1> DEFINE Outcome(new) ==
      \/ Refuse(r, Write(<<>>, a, new)) /\ UNCHANGED plan
      \/ LET t == Write(<<>>, a, [new EXCEPT !.stale = FALSE]) IN
           /\ txn' = [txn EXCEPT ![r] = t]
           /\ plan' = [plan EXCEPT ![r] = SweepPlan(r, t)]
           /\ Goto(r, [call[r] EXCEPT !.at = "sweep"]) /\ UNCHANGED rows
           empty == [row EXCEPT !.size = 0, !.known = TRUE, !.reset = FALSE, !.evicted = FALSE]
           kept == [row EXCEPT !.evicted = FALSE]
<1>2. \/ Recycles(r, row) /\ Removed(a) /\ Outcome(empty)
      \/ Recycles(r, row) /\ Kept(a) /\ Outcome(kept)
      \/ ~Recycles(r, row) /\ UNCHANGED volumeVars /\ Outcome(row)
  BY DEF Settle
<1>3. /\ empty \in RowType /\ empty.held = r /\ empty.exists /\ ~empty.evicted
      /\ kept \in RowType /\ kept.held = r /\ kept.exists /\ ~kept.evicted
  BY <1>1 DEF RowType
<1>4. ASSUME NEW new \in RowType, new.held = r, new.exists, ~new.evicted, Outcome(new),
             DiskTypes', TreeMoves, UNCHANGED busy
      PROVE  Moves
  BY <1>0, <1>4, SettleTo
<1> HIDE DEF Outcome, empty, kept
<1>5. CASE Removed(a) /\ Outcome(empty)
  BY <1>0, <1>1, <1>3, <1>4, <1>5, Removing
<1>6. CASE Kept(a) /\ Outcome(kept)
  BY <1>0, <1>3, <1>4, <1>6, Removing
<1>7. CASE ~Recycles(r, row) /\ UNCHANGED volumeVars /\ Outcome(row)
  <2>1. ~row.evicted /\ UNCHANGED <<vol, tree, busy>>
    BY <1>7 DEF Recycles, volumeVars
  <2>2. DiskTypes' /\ TreeMoves
    BY <1>0, <2>1, DisksStay DEF DiskTypes
  <2> QED BY <1>1, <1>4, <1>7, <2>1, <2>2
<1> QED BY <1>2, <1>5, <1>6, <1>7

\* A step of a sweep: it writes its own row and rows no live run holds.
LEMMA SweepTo ==
  ASSUME Base, NEW r \in Runs, At(r, "sweep"), NEW t \in Some, NEW p \in PlanType,
         p.idle \cup p.left \subseteq DOMAIN p.seen, AgentOf[r] \notin p.idle,
         txn' = [txn EXCEPT ![r] = t], plan' = [plan EXCEPT ![r] = p],
         AgentOf[r] \in DOMAIN t, t[AgentOf[r]].held = r, t[AgentOf[r]].exists,
         ~t[AgentOf[r]].evicted,
         \A e \in DOMAIN t \ {AgentOf[r]} :
           \/ e \in DOMAIN txn[r] /\ t[e] = txn[r][e]
           \/ /\ Unlocked(e, r) /\ rows[e].held \notin live
              /\ t[e].held = rows[e].held /\ t[e].user = rows[e].user
              /\ t[e].exists /\ rows[e].exists /\ (t[e].evicted => vol'[e] = 0),
         DiskTypes', TreeMoves,
         UNCHANGED <<live, call, rows, busy, pending, lost, console, displaced, parted>>
  PROVE  Moves
<1> DEFINE a == AgentOf[r]
<1>0. /\ CallTypes /\ RowTypes /\ SweepTypes /\ RestTypes /\ Locks(r) /\ Jobs(r) /\ Apart
      /\ a \in Disks /\ Opens(r)
  BY Starting DEF Opens, At
<1>1. /\ SweepTypes' /\ txn'[r] = t /\ plan'[r] = p
      /\ \A q \in Runs \ {r} : txn'[q] = txn[q] /\ plan'[q] = plan[q]
  BY <1>0 DEF SweepTypes
<1>2. Types' /\ Alone(r)
  BY <1>0, <1>1 DEF Types, CallTypes, RowTypes, RestTypes, Alone
<1>3. Locks(r)'
  <2>1. /\ Opens(r)' /\ (DOMAIN txn[r])' = DOMAIN t /\ call'[r] = call[r] /\ call[r].disk = a
        /\ a \in DOMAIN txn[r] /\ rows[a].held \notin live
    BY <1>0, <1>1 DEF Locks, Opens, At
  <2>2. ASSUME NEW d \in DOMAIN t
        PROVE  /\ rows'[d].held \notin live'
               /\ d # a => /\ t[d].held = rows'[d].held /\ t[d].user = rows'[d].user
                           /\ t[d].exists /\ rows'[d].exists
    BY <1>0, <2>1 DEF Locks
  <2> QED BY <1>1, <2>1, <2>2 DEF Locks
<1>4. \A q \in Runs \ {r} : DOMAIN txn'[r] \cap DOMAIN txn[q] = {}
  <2>1. a \in DOMAIN txn[r]
    BY <1>0 DEF Locks
  <2> QED BY <1>0, <1>1, <2>1 DEF Apart, Unlocked
<1>5. \A d \in Agents \cup Runs : EvictedBy(r, d)' => EvictedBy(r, d) \/ vol'[d] = 0
  BY <1>1 DEF EvictedBy, At
<1>6. r \in live /\ call[r].at = "sweep"
  BY <1>0 DEF Jobs, At
<1> QED BY <1>2, <1>3, <1>4, <1>5, <1>6, Uncommitted

\* The eviction of a neighbour (_evict).
LEMMA EvictTo ==
  ASSUME Base, NEW r \in Runs, At(r, "sweep"), NEW d \in Disks, d # AgentOf[r],
         NEW p \in PlanType, p.idle \cup p.left \subseteq DOMAIN p.seen, d \in DOMAIN p.seen,
         AgentOf[r] \notin p.idle, Evict(r, d, p),
         UNCHANGED <<live, call, rows, pending, lost, console, displaced, parted>>
  PROVE  Moves
<1> DEFINE a == AgentOf[r]
           gone == [p EXCEPT !.gone = @ \cup {d}]
           foiled == Foiled(p, d)
           out == Evicted(rows[d])
           back == Restored(rows[d], p.seen[d])
           claim == rows[d].exists /\ Unheld(rows[d]) /\ ~rows[d].evicted
<1>0. /\ SweepTypes /\ DiskTypes /\ Locks(r) /\ a \in Disks /\ txn[r] \in Some
      /\ a \in DOMAIN txn[r] /\ rows[d] \in RowType
      /\ txn[r][a].held = r /\ txn[r][a].exists /\ ~txn[r][a].evicted
  BY Starting DEF Locks, Opens, At, RowTypes
<1>1. p.seen[d] \in RowType /\ p.seen \in Some /\ p.gone \subseteq Disks /\ p.paid \subseteq Disks
  BY SomeRows DEF PlanType
<1>2. /\ gone \in PlanType /\ gone.idle = p.idle /\ gone.left = p.left /\ gone.seen = p.seen
      /\ foiled \in PlanType /\ foiled.idle = p.idle /\ foiled.left = p.left /\ foiled.seen = p.seen
  BY <1>1 DEF PlanType, Foiled
<1>3. /\ out \in RowType /\ out.held = rows[d].held /\ out.user = rows[d].user
      /\ out.exists = rows[d].exists
      /\ back \in RowType /\ back.held = rows[d].held /\ back.user = rows[d].user
      /\ back.exists = rows[d].exists /\ back.evicted = rows[d].evicted
  BY <1>0, <1>1 DEF RowType, Evicted, Restored
<1>4. \/ claim /\ Unlocked(d, r) /\ Removed(d) /\ txn' = [txn EXCEPT ![r] = Write(txn[r], d, out)]
         /\ plan' = [plan EXCEPT ![r] = gone]
      \/ claim /\ Unlocked(d, r) /\ Kept(d) /\ txn' = [txn EXCEPT ![r] = Write(txn[r], d, back)]
         /\ plan' = [plan EXCEPT ![r] = foiled]
      \/ plan' = [plan EXCEPT ![r] = foiled] /\ UNCHANGED <<txn, volumeVars>>
  BY <1>0 DEF Evict, SweepTypes
<1>5. ASSUME NEW v \in RowType, NEW q \in PlanType, claim, Unlocked(d, r), v.held = rows[d].held,
             v.user = rows[d].user, v.exists = rows[d].exists, v.evicted => vol'[d] = 0,
             q.idle = p.idle, q.left = p.left, q.seen = p.seen,
             txn' = [txn EXCEPT ![r] = Write(txn[r], d, v)], plan' = [plan EXCEPT ![r] = q],
             DiskTypes', TreeMoves, UNCHANGED busy
      PROVE  Moves
  <2> DEFINE t == Write(txn[r], d, v)
  <2>1. /\ t \in Some /\ DOMAIN t = DOMAIN txn[r] \cup {d} /\ t[d] = v
        /\ \A e \in DOMAIN txn[r] \ {d} : t[e] = txn[r][e]
    BY <1>0, <1>5, Written
  <2>2. txn' = [txn EXCEPT ![r] = t]
    BY <1>5
  <2> HIDE DEF t
  <2>3. a \in DOMAIN t /\ t[a] = txn[r][a]
    BY <1>0, <2>1
  <2>4. \A e \in DOMAIN t \ {a} :
           \/ e \in DOMAIN txn[r] /\ t[e] = txn[r][e]
           \/ /\ Unlocked(e, r) /\ rows[e].held \notin live
              /\ t[e].held = rows[e].held /\ t[e].user = rows[e].user
              /\ t[e].exists /\ rows[e].exists /\ (t[e].evicted => vol'[e] = 0)
    BY <1>5, <2>1 DEF Unheld
  <2>5. q.idle \cup q.left \subseteq DOMAIN q.seen /\ a \notin q.idle
    BY <1>5
  <2> QED BY <1>0, <1>5, <2>1, <2>2, <2>3, <2>4, <2>5, SweepTo
<1> HIDE DEF gone, foiled, out, back
<1>6. CASE claim /\ Unlocked(d, r) /\ Removed(d) /\ txn' = [txn EXCEPT ![r] = Write(txn[r], d, out)]
           /\ plan' = [plan EXCEPT ![r] = gone]
  <2>1. TreeMoves /\ DiskTypes' /\ vol'[d] = 0 /\ UNCHANGED busy
    BY <1>0, <1>6, Removing DEF Unheld
  <2> QED BY <1>2, <1>3, <1>5, <1>6, <2>1
<1>7. CASE claim /\ Unlocked(d, r) /\ Kept(d) /\ txn' = [txn EXCEPT ![r] = Write(txn[r], d, back)]
           /\ plan' = [plan EXCEPT ![r] = foiled]
  <2>1. TreeMoves /\ DiskTypes' /\ UNCHANGED busy
    BY <1>0, <1>7, Removing
  <2> QED BY <1>2, <1>3, <1>5, <1>7, <2>1
<1>8. CASE plan' = [plan EXCEPT ![r] = foiled] /\ UNCHANGED <<txn, volumeVars>>
  <2>1. UNCHANGED <<vol, tree, busy>> /\ txn' = [txn EXCEPT ![r] = txn[r]]
    BY <1>0, <1>8 DEF volumeVars, SweepTypes
  <2>2. DiskTypes' /\ TreeMoves
    BY <1>0, <2>1, DisksStay DEF DiskTypes
  <2> QED BY <1>0, <1>2, <1>8, <2>1, <2>2, SweepTo
<1> QED BY <1>4, <1>6, <1>7, <1>8

\* A step of the age pass.
LEMMA EvictIdleDoes ==
  ASSUME Base, NEW r \in Runs, EvictIdle(r)
  PROVE  Moves
<1>0. SweepTypes /\ plan[r] \in PlanType /\ AgentOf[r] \notin plan[r].idle
      /\ plan[r].idle \cup plan[r].left \subseteq DOMAIN plan[r].seen
  BY Starting DEF Locks, SweepTypes
<1>1. /\ UNCHANGED <<live, call, rows, pending, lost, console, displaced, parted>> /\ At(r, "sweep")
  BY DEF EvictIdle, jobVars, historyVars
<1>2. PICK d \in plan[r].idle : Evict(r, d, [plan[r] EXCEPT !.idle = @ \ {d}])
  BY DEF EvictIdle
<1> DEFINE p == [plan[r] EXCEPT !.idle = @ \ {d}]
<1>3. /\ p \in PlanType /\ p.idle = plan[r].idle \ {d} /\ p.left = plan[r].left
      /\ p.seen = plan[r].seen
  BY <1>0 DEF PlanType
<1>4. Evict(r, d, p)
  BY <1>2
<1> HIDE DEF p
<1>5. d \in Disks /\ d # AgentOf[r] /\ d \in DOMAIN p.seen
  BY <1>0, <1>3 DEF PlanType
<1>6. p.idle \cup p.left \subseteq DOMAIN p.seen /\ AgentOf[r] \notin p.idle
  BY <1>0, <1>3
<1> QED BY <1>1, <1>3, <1>4, <1>5, <1>6, EvictTo

\* The bind's own disk is emptied, or is not (_recycle).
LEMMA RecycleTo ==
  ASSUME Base, NEW r \in Runs, At(r, "sweep"), NEW p \in PlanType,
         p.idle \cup p.left \subseteq DOMAIN p.seen, AgentOf[r] \notin p.idle, RecycleOwn(r, p),
         UNCHANGED <<live, call, rows, pending, lost, console, displaced, parted>>
  PROVE  Moves
<1> DEFINE a == AgentOf[r]
           gone == [p EXCEPT !.gone = @ \cup {a}]
           foiled == Foiled(p, a)
           v == [txn[r][a] EXCEPT !.size = 0, !.known = TRUE, !.reset = FALSE]
<1>0. /\ SweepTypes /\ DiskTypes /\ Locks(r) /\ a \in Disks /\ txn[r] \in Some
      /\ a \in DOMAIN txn[r] /\ txn[r][a].held = r /\ txn[r][a].exists /\ ~txn[r][a].evicted
      /\ rows[a].held \notin live
  BY Starting DEF Locks, Opens, At
<1>1. txn[r][a] \in RowType /\ p.gone \subseteq Disks /\ p.paid \subseteq Disks
  BY <1>0, SomeRows DEF PlanType
<1>2. /\ gone \in PlanType /\ gone.idle = p.idle /\ gone.left = p.left /\ gone.seen = p.seen
      /\ foiled \in PlanType /\ foiled.idle = p.idle /\ foiled.left = p.left /\ foiled.seen = p.seen
  BY <1>0, <1>1 DEF PlanType, Foiled
<1>3. v \in RowType /\ v.held = r /\ v.exists /\ ~v.evicted
  BY <1>0, <1>1 DEF RowType
<1>4. \/ /\ Removed(a) /\ plan' = [plan EXCEPT ![r] = gone]
         /\ txn' = [txn EXCEPT ![r] = [txn[r] EXCEPT ![a] = v]]
      \/ Kept(a) /\ plan' = [plan EXCEPT ![r] = foiled] /\ UNCHANGED txn
  <2>1. CASE /\ Removed(a) /\ plan' = [plan EXCEPT ![r] = gone]
             /\ txn' = [txn EXCEPT ![r][a].size = 0, ![r][a].known = TRUE, ![r][a].reset = FALSE]
    <3>1. txn' = [txn EXCEPT ![r] = [txn[r] EXCEPT ![a] = v]]
      BY <1>0, <1>1, <2>1 DEF SweepTypes, Some, RowType
    <3> QED BY <2>1, <3>1
  <2>2. CASE Kept(a) /\ plan' = [plan EXCEPT ![r] = foiled] /\ UNCHANGED txn
    BY <2>2
  <2> QED BY <2>1, <2>2 DEF RecycleOwn
<1> HIDE DEF gone, foiled, v
<1>5. CASE /\ Removed(a) /\ plan' = [plan EXCEPT ![r] = gone]
           /\ txn' = [txn EXCEPT ![r] = [txn[r] EXCEPT ![a] = v]]
  <2> DEFINE t == [txn[r] EXCEPT ![a] = v]
  <2>1. /\ t \in Some /\ DOMAIN t = DOMAIN txn[r] /\ t[a] = v
        /\ \A e \in DOMAIN t \ {a} : t[e] = txn[r][e]
    BY <1>0, <1>3 DEF Some
  <2>2. txn' = [txn EXCEPT ![r] = t]
    BY <1>5
  <2> HIDE DEF t
  <2>3. TreeMoves /\ DiskTypes' /\ UNCHANGED busy
    BY <1>0, <1>5, Removing
  <2>4. gone.idle \cup gone.left \subseteq DOMAIN gone.seen /\ a \notin gone.idle
    BY <1>2
  <2>5. /\ a \in DOMAIN t /\ t[a].held = r /\ t[a].exists /\ ~t[a].evicted
        /\ \A e \in DOMAIN t \ {a} : e \in DOMAIN txn[r] /\ t[e] = txn[r][e]
    BY <1>0, <1>3, <2>1
  <2>6. plan' = [plan EXCEPT ![r] = gone]
    BY <1>5
  <2> QED BY <1>2, <2>1, <2>2, <2>3, <2>4, <2>5, <2>6, SweepTo
<1>6. CASE Kept(a) /\ plan' = [plan EXCEPT ![r] = foiled] /\ UNCHANGED txn
  <2>1. txn' = [txn EXCEPT ![r] = txn[r]]
    BY <1>0, <1>6 DEF SweepTypes
  <2>2. TreeMoves /\ DiskTypes' /\ UNCHANGED busy
    BY <1>0, <1>6, Removing
  <2> QED BY <1>0, <1>2, <1>6, <2>1, <2>2, SweepTo
<1> QED BY <1>4, <1>5, <1>6

\* A step of the budget pass.
LEMMA EvictLargestDoes ==
  ASSUME Base, NEW r \in Runs, EvictLargest(r)
  PROVE  Moves
<1>0. SweepTypes /\ plan[r] \in PlanType /\ AgentOf[r] \notin plan[r].idle
      /\ plan[r].idle \cup plan[r].left \subseteq DOMAIN plan[r].seen
  BY Starting DEF Locks, SweepTypes
<1>1. /\ UNCHANGED <<live, call, rows, pending, lost, console, displaced, parted>> /\ At(r, "sweep")
  BY DEF EvictLargest, jobVars, historyVars
<1>2. PICK d \in plan[r].left :
        LET p == [plan[r] EXCEPT !.left = @ \ {d}, !.paid = @ \cup {d}] IN
          IF d = AgentOf[r] THEN RecycleOwn(r, p) ELSE Evict(r, d, p)
  BY DEF EvictLargest, Largest
<1> DEFINE p == [plan[r] EXCEPT !.left = @ \ {d}, !.paid = @ \cup {d}]
<1>3. d \in Disks /\ d \in DOMAIN plan[r].seen
  BY <1>0 DEF PlanType
<1>4. /\ p \in PlanType /\ p.idle = plan[r].idle /\ p.left = plan[r].left \ {d}
      /\ p.seen = plan[r].seen
  BY <1>0, <1>3 DEF PlanType
<1>5. IF d = AgentOf[r] THEN RecycleOwn(r, p) ELSE Evict(r, d, p)
  BY <1>2
<1> HIDE DEF p
<1>6. p.idle \cup p.left \subseteq DOMAIN p.seen /\ AgentOf[r] \notin p.idle /\ d \in DOMAIN p.seen
  BY <1>0, <1>3, <1>4
<1>7. CASE d = AgentOf[r]
  BY <1>1, <1>4, <1>5, <1>6, <1>7, RecycleTo
<1>8. CASE d # AgentOf[r]
  BY <1>1, <1>3, <1>4, <1>5, <1>6, <1>8, EvictTo
<1> QED BY <1>7, <1>8

\* The sweep is over (bind_workspace).
LEMMA DecideDoes ==
  ASSUME Base, NEW r \in Runs, Decide(r)
  PROVE  Moves
<1> DEFINE a == AgentOf[r]
           t == txn[r]
<1>0. /\ CallTypes /\ RowTypes /\ SweepTypes /\ DiskTypes /\ RestTypes /\ Locks(r) /\ a \in Disks
      /\ t \in Some
  BY Starting
<1>1. /\ UNCHANGED <<live, vol, tree, busy, pending, lost, console, displaced, parted>>
      /\ At(r, "sweep") /\ plan' = [plan EXCEPT ![r] = NoPlan]
      /\ \/ Refuse(r, t)
         \/ Commit(t) /\ txn' = [txn EXCEPT ![r] = <<>>] /\ Goto(r, Bound(a))
  BY DEF Decide, Swept, volumeVars, jobVars, historyVars
<1>2. /\ Opens(r) /\ a \in DOMAIN t /\ ~t[a].evicted /\ t[a].exists /\ t[a].held = r
  BY <1>0, <1>1 DEF Locks, Opens, At
<1>3. DiskTypes' /\ TreeMoves
  BY <1>0, <1>1, DisksStay DEF DiskTypes
<1>4. CASE Refuse(r, t)
  BY <1>0, <1>1, <1>2, <1>3, <1>4, RefuseDoes
<1>5. CASE Commit(t) /\ txn' = [txn EXCEPT ![r] = <<>>] /\ Goto(r, Bound(a))
  <2>1. CallTo(r, Bound(a)) /\ Bound(a).at = "bound" /\ Bound(a).disk = a
    BY <1>0, <1>5, Calls, Going
  <2>2. /\ SweepTypes' /\ DOMAIN txn'[r] = {} /\ a \notin plan'[r].idle
        /\ \A q \in Runs \ {r} : txn'[q] = txn[q] /\ plan'[q] = plan[q]
    BY <1>0, <1>1, <1>5, Planless DEF Locks
  <2>3. Alone(r) /\ CallTypes' /\ call'[r].at = "bound" /\ call'[r].disk = a
    BY <1>0, <1>1, <2>1, <2>2 DEF Alone, CallTo, CallTypes
  <2> QED BY <1>0, <1>1, <1>2, <1>3, <1>5, <2>2, <2>3, Committing
<1> QED BY <1>1, <1>4, <1>5

-----------------------------------------------------------------------------
(* Every step.                                                             *)

\* Every step of the specification, with the invariant.
LEMMA StepDoes ==
  ASSUME Base, [Next]_vars
  PROVE  Moves
<1>1. CASE Binding
  BY <1>1, PrivateDoes, SettleDoes, EvictIdleDoes, EvictLargestDoes, DecideDoes, DieDoes, RenewDoes,
     AcquireDoes, ChatDoes, Names DEF Binding, BindChat
<1>2. CASE Working
  BY <1>2, SubmitDoes, CallsDo, ReportDoes, JobsDo, BeginDoes, EndDoes DEF Working
<1>3. CASE Leaving
  BY <1>3, CleanupDoes, CallsDo, FinishDoes DEF Leaving
<1>4. CASE People
  <2>1. Chats \subseteq Disks
    BY DEF Disks
  <2> QED BY <1>4, <2>1, ChatDoes, AgeDoes, ReadDoes, WriteDoes DEF People
<1>5. CASE UNCHANGED vars
  <2>1. UNCHANGED <<live, call, rows, txn, plan, vol, tree, busy, pending, lost, console, displaced, parted>>
    BY <1>5 DEF vars, sweepVars, volumeVars, jobVars, historyVars
  <2>2. Types' /\ Calm /\ GhostsMove
    BY <2>1 DEF Base, Types, CallTypes, RowTypes, SweepTypes, DiskTypes, RestTypes, Calm, GhostsMove
  <2>3. Quiet
    BY <2>1, QuietStays
  <2> QED BY <2>1, <2>2, <2>3, CalmJobs, PlainDoes
<1> QED BY <1>1, <1>2, <1>3, <1>4, <1>5 DEF Next

\* Before the first call.
LEMMA BaseInit == Init => Base
<1> SUFFICES ASSUME Init PROVE Base
  OBVIOUS
<1> DEFINE R(d) == [Row(d \notin Runs) EXCEPT !.size = vol[d]]
<1>1. /\ live = Runs /\ call = [r \in Runs |-> Idle] /\ txn = [r \in Runs |-> <<>>]
      /\ plan = [r \in Runs |-> NoPlan] /\ rows = [d \in Disks |-> R(d)]
      /\ tree = [d \in Disks |-> None] /\ busy = [d \in Disks |-> None]
      /\ pending = {} /\ lost = {} /\ console = NoRead /\ displaced = {} /\ parted = {}
  BY DEF Init
<1>2. vol \in [Disks -> Nat]
  BY SizesAssumption DEF Init
<1>3. ASSUME NEW d \in Disks
      PROVE  /\ R(d) \in RowType /\ R(d).held = None /\ R(d).exists = (d \notin Runs)
             /\ R(d).user = FALSE
  BY <1>2 DEF Row, RowType, Owner
<1> HIDE DEF R
<1>4. NoPlan \in PlanType /\ NoPlan.idle = {} /\ NoPlan.left = {}
  BY Nothing DEF NoPlan, PlanType
<1>5. CallTypes /\ RowTypes /\ SweepTypes /\ DiskTypes /\ RestTypes
  BY <1>1, <1>2, <1>3, <1>4, Nothing, Calls DEF CallTypes, RowTypes, SweepTypes, DiskTypes, RestTypes, Owner
<1>6. Apart
  BY <1>1, Nothing DEF Apart
<1>7. Users
  BY <1>1, <1>3, Names DEF Users
<1>8. ASSUME NEW r \in Runs PROVE Jobs(r) /\ Locks(r) /\ Private(r)
  <2>1. call[r].at = "idle" /\ DOMAIN txn[r] = {} /\ plan[r].idle = {} /\ r \in Disks /\ r # None
    BY <1>1, <1>4, Nothing, Calls, Names
  <2>2. Jobs(r)
    BY <1>1, <2>1, Names DEF Jobs, At
  <2>3. Locks(r)
    BY <2>1 DEF Locks, Opens, At
  <2>4. Private(r)
    BY <1>1, <1>3, <2>1 DEF Private
  <2> QED BY <2>2, <2>3, <2>4
<1> QED BY <1>5, <1>6, <1>7, <1>8 DEF Base, Types

\* The types of the state, the locks of open binds and the lives of jobs.
THEOREM TypeCorrect == Spec => []Base
<1>1. Base /\ [Next]_vars => Base'
  BY StepDoes DEF Moves
<1> QED BY <1>1, BaseInit, PTL DEF Spec

-----------------------------------------------------------------------------
(* Who writes on a disk, and what is on it.                                *)

\* A live run that nobody displaced holds every disk it writes on.
Leased == \A r \in live \ displaced, d \in Disks : Writes(r, d) => rows[d].held = r

\* Whoever writes on a chat's disk holds it, live or not.
Single == \A r \in Runs, c \in Chats : Writes(r, c) => rows[c].held = r

\* The run whose work is on a disk holds the disk, until it parts with it.
Planted == \A d \in Disks : tree[d] \in live \ (displaced \cup parted) => rows[d].held = tree[d]

\* No bytes, or those of a run that is over or displaced.
Clean(d) == vol[d] > 0 => tree[d] \in displaced \cup (Runs \ live)
\* A disk called evicted, in a row or by an open bind, is clean, and not in use.
Emptied ==
  \A d \in Agents \cup Runs :
    /\ rows[d].evicted => rows[d].held \notin live /\ Clean(d)
    /\ \A r \in Runs : EvictedBy(r, d) => Clean(d)

Leases == Base /\ Leased /\ Single /\ Planted /\ Emptied

\* A writer that loses the lease is over, displaced or no writer.
LEMMA WriterLoses ==
  ASSUME Base, NEW r \in Runs, NEW d \in Disks, Writes(r, d), Loses(r, d)
  PROVE  r \notin live \/ (d \in Agents /\ r \in displaced')
<1>1. Jobs(r)
  BY DEF Base
<1> QED BY <1>1 DEF Writes, Loses, Jobs, At, HasUnconfirmedJobs

\* And one that is over has no unconfirmed job left, on a chat's disk.
LEMMA ChatWriterStays ==
  ASSUME Base, NEW r \in Runs, NEW c \in Chats, Writes(r, c), LeaseMoves, rows[c].held = r
  PROVE  rows'[c].held = r
<1>1. Jobs(r) /\ c \in Disks /\ c \notin Agents
  BY Names DEF Base
<1>2. ~Loses(r, c)
  BY <1>1 DEF Writes, Loses, Jobs, At, HasUnconfirmedJobs
<1> QED BY <1>1, <1>2 DEF LeaseMoves

\* What a step leaves of it.
LEMMA LeasesStep ==
  ASSUME Leases, Moves
  PROVE  Leases'
<1>0. /\ Base' /\ LeaseMoves /\ WritersMove /\ TreeMoves /\ GhostsMove /\ EvictMoves /\ Base
      /\ live \subseteq Runs /\ None \notin live /\ live' \subseteq Runs /\ None \notin live'
      /\ DiskTypes /\ DiskTypes'
  BY Names DEF Moves, Leases, Base, Types, CallTypes
<1>1. Leased'
  <2> SUFFICES ASSUME NEW r \in live' \ displaced', NEW d \in Disks, Writes(r, d)'
               PROVE  rows'[d].held = r
    BY DEF Leased
  <2>1. r \in Runs /\ r \in live \ displaced
    BY <1>0 DEF GhostsMove
  <2>2. CASE Writes(r, d)
    <3>1. rows[d].held = r
      BY <2>1, <2>2 DEF Leases, Leased
    <3>2. ~Loses(r, d)
      BY <1>0, <2>1, <2>2, WriterLoses
    <3> QED BY <1>0, <3>1, <3>2 DEF LeaseMoves
  <2> QED BY <1>0, <2>1, <2>2 DEF WritersMove
<1>2. Single'
  <2> SUFFICES ASSUME NEW r \in Runs, NEW c \in Chats, Writes(r, c)'
               PROVE  rows'[c].held = r
    BY DEF Single
  <2>1. c \in Disks
    BY Names
  <2>2. CASE Writes(r, c)
    BY <1>0, <2>2, ChatWriterStays DEF Leases, Single
  <2> QED BY <1>0, <2>1, <2>2 DEF WritersMove
<1>3. Planted'
  <2> SUFFICES ASSUME NEW d \in Disks, tree'[d] \in live' \ (displaced' \cup parted')
               PROVE  rows'[d].held = tree'[d]
    BY DEF Planted
  <2>1. tree'[d] \in live \ (displaced \cup parted)
    BY <1>0 DEF GhostsMove
  <2>2. CASE tree'[d] = tree[d]
    <3>1. rows[d].held = tree[d]
      BY <2>1, <2>2 DEF Leases, Planted
    <3>2. ~Loses(tree[d], d)
      BY <2>1, <2>2 DEF Loses
    <3> QED BY <1>0, <2>2, <3>1, <3>2 DEF LeaseMoves
  <2>3. CASE tree'[d] = busy[d] /\ UNCHANGED rows
    <3>1. Writes(busy[d], d) /\ busy[d] \in live \ displaced
      BY <2>1, <2>3 DEF Writes
    <3> QED BY <2>3, <3>1 DEF Leases, Leased
  <2>4. tree'[d] # None
    BY <1>0
  <2> QED BY <1>0, <2>2, <2>3, <2>4 DEF TreeMoves
<1>4. ASSUME NEW d \in Disks, rows[d].held \notin live, Clean(d)
      PROVE  Clean(d)'
  <2>1. CASE tree'[d] = tree[d] /\ vol'[d] = vol[d]
    BY <1>0, <1>4, <2>1 DEF Clean, GhostsMove
  <2>2. CASE vol'[d] = 0
    BY <2>2 DEF Clean
  <2>3. CASE tree'[d] = busy[d] /\ busy[d] # None
    <3>1. busy[d] \in Runs /\ Writes(busy[d], d)
      BY <1>0, <2>3 DEF DiskTypes, Owner, Writes
    <3>2. busy[d] \notin live \ displaced
      BY <1>4, <3>1 DEF Leases, Leased
    <3> QED BY <1>0, <2>3, <3>1, <3>2 DEF Clean, GhostsMove
  <2> QED BY <1>0, <2>1, <2>2, <2>3 DEF TreeMoves
<1>5. Emptied'
  <2> SUFFICES ASSUME NEW d \in Agents \cup Runs
               PROVE  /\ rows'[d].evicted => rows'[d].held \notin live' /\ Clean(d)'
                      /\ \A r \in Runs : EvictedBy(r, d)' => Clean(d)'
    BY DEF Emptied
  <2>1. d \in Disks
    BY DEF Disks
  <2>2. ASSUME NEW r \in Runs, EvictedBy(r, d) PROVE rows[d].held \notin live /\ Clean(d)'
    <3>1. rows[d].held \notin live
      BY <1>0, <2>2 DEF Base, Locks, EvictedBy
    <3>2. Clean(d)
      BY <2>2 DEF Leases, Emptied
    <3> QED BY <1>4, <2>1, <3>1, <3>2
  <2>3. ASSUME rows'[d].evicted PROVE rows'[d].held \notin live' /\ Clean(d)'
    <3>1. CASE rows[d].evicted /\ rows'[d].held \in {rows[d].held, None}
      <4>1. rows[d].held \notin live /\ Clean(d)
        BY <3>1 DEF Leases, Emptied
      <4> QED BY <1>0, <1>4, <2>1, <3>1, <4>1 DEF GhostsMove
    <3>2. CASE rows'[d].held \notin live /\ \E r \in Runs : EvictedBy(r, d)
      BY <1>0, <2>2, <3>2 DEF GhostsMove
    <3> QED BY <1>0, <2>3, <3>1, <3>2 DEF EvictMoves
  <2>4. ASSUME NEW r \in Runs, EvictedBy(r, d)' PROVE Clean(d)'
    <3>1. CASE vol'[d] = 0
      BY <3>1 DEF Clean
    <3> QED BY <1>0, <2>2, <2>4, <3>1 DEF EvictMoves
  <2> QED BY <2>3, <2>4
<1> QED BY <1>0, <1>1, <1>2, <1>3, <1>5 DEF Leases

\* Before the first call nobody writes, and no row is evicted.
LEMMA LeasesInit == Init => Leases
<1> SUFFICES ASSUME Init PROVE Leases
  OBVIOUS
<1>1. Base
  BY BaseInit
<1>2. \A r \in Runs, d \in Disks : ~Writes(r, d)
  BY Calls, Names DEF Init, Writes
<1>3. \A d \in Disks : tree[d] \notin live /\ ~rows[d].evicted
  BY Names DEF Init, Row
<1>4. \A r \in Runs : \A d : ~EvictedBy(r, d)
  BY Nothing DEF Init, EvictedBy
<1>5. live = Runs /\ Agents \cup Runs \subseteq Disks /\ Chats \subseteq Disks
  BY DEF Init, Disks
<1> QED BY <1>1, <1>2, <1>3, <1>4, <1>5 DEF Leases, Leased, Single, Planted, Emptied

\* All of it holds in every state.
THEOREM LeasesHold == Spec => []Leases
<1>1. Leases /\ [Next]_vars => Leases'
  BY StepDoes, LeasesStep DEF Leases
<1> QED BY <1>1, LeasesInit, PTL DEF Spec

\* A chat's disk has one writer: the person, or one run with its jobs.
THEOREM OneWriterAtATime == Spec => []ChatHasOneWriter
<1>1. ASSUME Leases PROVE ChatHasOneWriter
  <2> SUFFICES ASSUME NEW c \in Chats PROVE Cardinality(Writers(c)) <= 1
    BY DEF ChatHasOneWriter
  <2>1. \A r \in Runs : Writes(r, c) => rows[c].held = r
    BY <1>1 DEF Leases, Single
  <2>2. rows[c].user => rows[c].held = None
    BY <1>1 DEF Leases, Base, Users
  <2>3. /\ Writers(c) \subseteq {"person"} \cup {r \in Runs : Writes(r, c)}
        /\ ~rows[c].user => Writers(c) \subseteq {r \in Runs : Writes(r, c)}
    BY DEF Writers, Writes
  <2>4. ASSUME NEW x, Writers(c) \subseteq {x} PROVE Cardinality(Writers(c)) <= 1
    <3>1. Writers(c) = {} \/ Writers(c) = {x}
      BY <2>4
    <3>2. Cardinality({}) = 0 /\ Cardinality({x}) = 1
      BY FS_EmptySet, FS_Singleton
    <3>3. 0 <= 1 /\ 1 <= 1
      OBVIOUS
    <3> QED BY <3>1, <3>2, <3>3
  <2>5. CASE rows[c].user
    <3>1. {r \in Runs : Writes(r, c)} = {}
      BY <2>1, <2>2, <2>5, Names
    <3>2. Writers(c) \subseteq {"person"}
      BY <2>3, <3>1
    <3> QED BY <2>4, <3>2
  <2>6. CASE ~rows[c].user
    <3>1. Writers(c) \subseteq {rows[c].held}
      BY <2>1, <2>3, <2>6
    <3> QED BY <2>4, <3>1
  <2> QED BY <2>5, <2>6
<1> QED BY <1>1, LeasesHold, PTL

\* A row committed as evicted has no bytes behind it, but for those of a run
\* that is over or was displaced.
THEOREM EvictionsAreTrue == Spec => []EvictedIsEmpty
<1>1. ASSUME Leases PROVE EvictedIsEmpty
  BY <1>1 DEF Leases, Emptied, Clean, EvictedIsEmpty
<1> QED BY <1>1, LeasesHold, PTL

\* No bind, sweep, eviction or cleanup reaches the work of a live run.
THEOREM TreesAreSafe == Spec => TreesAreKept
<1> DEFINE Keeps == \A d \in Disks :
             LET r == tree[d] IN
               r \in live \ (displaced \cup parted') =>
                 \/ tree'[d] = r
                 \/ tree'[d] \notin (live \ displaced) \cup {None}
<1>1. ASSUME Leases, [Next]_vars PROVE [Keeps]_vars
  <2>1. Moves
    BY <1>1, StepDoes DEF Leases
  <2>2. ASSUME NEW d \in Disks, tree[d] \in live \ (displaced \cup parted'), tree'[d] # tree[d]
        PROVE  tree'[d] \notin (live \ displaced) \cup {None}
    <3>1. TreeMoves /\ tree' # tree
      BY <2>1, <2>2 DEF Moves
    <3>2. tree[d] \notin parted /\ rows[d].held = tree[d]
      BY <1>1, <2>2, <3>1 DEF TreeMoves, Leases, Planted
    <3>3. tree'[d] = busy[d] /\ busy[d] # None
      BY <2>2, <3>1, <3>2 DEF TreeMoves
    <3>4. busy[d] \notin live \ displaced
      BY <1>1, <2>2, <3>2, <3>3 DEF Leases, Leased, Writes
    <3> QED BY <3>3, <3>4
  <2> QED BY <2>2
<1> QED BY <1>1, LeasesHold, PTL DEF Spec, TreesAreKept

-----------------------------------------------------------------------------
(* Sums over finite sets.  The library defines them by a recursive         *)
(* function on the subsets of a set; that it exists, and what it computes, *)
(* is shown here by the least set, or number, that would be an exception.  *)

\* A nonempty set of numbers has a least one.
LEMMA Smallest ==
  ASSUME NEW T \in SUBSET Nat, T # {}
  PROVE  \E n \in T : \A m \in T : n <= m
<1>0. \A m, n \in Nat : m < n => <<m, n>> \in OpToRel(<, Nat)
  BY Zenon DEF OpToRel
<1> DEFINE R == OpToRel(<, Nat)
<1>1. IsWellFoundedOn(R, Nat)
  BY NatLessThanWellFounded, Zenon
<1>2. \A m, n \in Nat : m < n => <<m, n>> \in R
  BY <1>0, Zenon
<1> HIDE DEF R
<1>3. \E n \in T : \A m \in T : ~ (<<m, n>> \in R)
  <2>1. T \subseteq Nat
    OBVIOUS
  <2> QED BY <1>1, <2>1, WFMin, Zenon
<1>4. PICK n \in T : \A m \in T : ~ (<<m, n>> \in R)
  BY <1>3, Zenon
<1>5. \A m \in T : ~ (m < n)
  BY <1>2, <1>4, Zenon
<1> QED BY <1>5

\* A nonempty set of finite sets has one with no part of it in the set.
LEMMA SmallestSet ==
  ASSUME NEW S, IsFiniteSet(S), NEW T \in SUBSET (SUBSET S), T # {}
  PROVE  \E s \in T : \A u \in T : u \subseteq s => u = s
<1>1. IsWellFoundedOn(StrictSubsetOrdering(S), FiniteSubsetsOf(S))
  BY FS_StrictSubsetOrderingWellFounded
<1>2. FiniteSubsetsOf(S) = SUBSET S
  BY FS_FiniteSubsetsOfFinite
<1>3. IsWellFoundedOn(StrictSubsetOrdering(S), SUBSET S) /\ T \subseteq SUBSET S
  BY <1>1, <1>2
<1>4. PICK s \in T : \A u \in T : ~ (<<u, s>> \in StrictSubsetOrdering(S))
  BY <1>3, WFMin, Zenon
<1> QED BY <1>4 DEF StrictSubsetOrdering

\* What a sum is made of: the fold's choice, its step, and the function it defines.
Chosen(s) == CHOOSE x \in s : TRUE
SumStep(g, f, s) == IF s = {} THEN 0 ELSE f[Chosen(s)] + g[s \ {Chosen(s)}]
Sums(g, f, S) == g = [s \in SUBSET S |-> SumStep(g, f, s)]

\* The choice is from the set.
LEMMA ChosenIn == \A s : s # {} => Chosen(s) \in s
BY DEF Chosen

\* The definition of the library, unfolded.
LEMMA SumUnfolds ==
  ASSUME NEW f, NEW S
  PROVE SumFunctionOnSet(f, S) = (CHOOSE g : Sums(g, f, S))[S]
BY DEF SumFunctionOnSet, FoldFunctionOnSet, MapThenFoldSet, Sums, SumStep, Chosen

\* A function that sums up the subsets of S with at most n elements.
SumsUpTo(g, f, S, n) ==
  /\ g \in [SUBSET S -> Nat]
  /\ \A s \in SUBSET S : Cardinality(s) <= n => g[s] = SumStep(g, f, s)

\* One more element.
LEMMA SumsOneMore ==
  ASSUME NEW S, IsFiniteSet(S), NEW f, \A x \in S : f[x] \in Nat,
         NEW n \in Nat, NEW g, SumsUpTo(g, f, S, n)
  PROVE  SumsUpTo([s \in SUBSET S |-> SumStep(g, f, s)], f, S, n + 1)
<1> DEFINE h == [s \in SUBSET S |-> SumStep(g, f, s)]
<1>1. \A s \in SUBSET S : s # {} => Chosen(s) \in S /\ s \ {Chosen(s)} \in SUBSET S
  BY ChosenIn
<1>2. \A s \in SUBSET S : SumStep(g, f, s) \in Nat
  BY <1>1 DEF SumStep, SumsUpTo
<1>3. h \in [SUBSET S -> Nat]
  BY <1>2
<1>4. ASSUME NEW s \in SUBSET S, Cardinality(s) <= n + 1, s # {}
      PROVE  h[s \ {Chosen(s)}] = g[s \ {Chosen(s)}]
  <2>1. IsFiniteSet(s) /\ Chosen(s) \in s
    BY FS_Subset, ChosenIn, <1>4
  <2>2. Cardinality(s) \in Nat
    BY <2>1, FS_CardinalityType
  <2>3. Cardinality(s \ {Chosen(s)}) = Cardinality(s) - 1
    BY <2>1, FS_RemoveElement
  <2>4. Cardinality(s \ {Chosen(s)}) <= n
    BY <2>2, <2>3, <1>4
  <2>5. g[s \ {Chosen(s)}] = SumStep(g, f, s \ {Chosen(s)})
    BY <2>4, <1>1, <1>4 DEF SumsUpTo
  <2> QED BY <2>5, <1>1, <1>4
<1>5. ASSUME NEW s \in SUBSET S, Cardinality(s) <= n + 1
      PROVE  h[s] = SumStep(h, f, s)
  <2>1. h[s] = SumStep(g, f, s)
    OBVIOUS
  <2>2. CASE s = {}
    BY <2>1, <2>2 DEF SumStep
  <2>3. CASE s # {}
    BY <2>1, <2>3, <1>4, <1>5 DEF SumStep
  <2> QED BY <2>2, <2>3
<1> QED BY <1>3, <1>5 DEF SumsUpTo

\* The function that sums up all subsets exists.
LEMMA SumsExist ==
  ASSUME NEW S, IsFiniteSet(S), NEW f, \A x \in S : f[x] \in Nat
  PROVE  \E g \in [SUBSET S -> Nat] : Sums(g, f, S)
<1> DEFINE Bad == {n \in Nat : ~ \E g : SumsUpTo(g, f, S, n)}
<1>1. 0 \notin Bad
  <2> DEFINE z == [s \in SUBSET S |-> 0]
  <2>1. \A s \in SUBSET S : Cardinality(s) <= 0 => s = {}
    BY FS_Subset, FS_EmptySet, FS_CardinalityType
  <2>2. SumsUpTo(z, f, S, 0)
    BY <2>1 DEF SumsUpTo, SumStep
  <2> QED BY <2>2
<1>2. ASSUME NEW n \in Nat, n \notin Bad
      PROVE  n + 1 \notin Bad
  <2>1. PICK g : SumsUpTo(g, f, S, n)
    BY <1>2
  <2>2. SumsUpTo([s \in SUBSET S |-> SumStep(g, f, s)], f, S, n + 1)
    BY <2>1, SumsOneMore
  <2> QED BY <2>2
<1>3. Bad = {}
  <2>1. SUFFICES ASSUME Bad # {} PROVE FALSE
    OBVIOUS
  <2>2. Bad \in SUBSET Nat
    OBVIOUS
  <2> HIDE DEF Bad
  <2>3. PICK n \in Bad : \A m \in Bad : n <= m
    BY <2>1, <2>2, Smallest
  <2>4. n \in Nat /\ n # 0
    BY <1>1, <2>2, <2>3
  <2>5. n - 1 \in Nat /\ n - 1 \notin Bad /\ (n - 1) + 1 = n
    BY <2>2, <2>3, <2>4
  <2> QED BY <1>2, <2>3, <2>5
<1>4. Cardinality(S) \in Nat /\ \A s \in SUBSET S : Cardinality(s) <= Cardinality(S)
  BY FS_Subset, FS_CardinalityType
<1>5. PICK g : SumsUpTo(g, f, S, Cardinality(S))
  BY <1>3, <1>4
<1>6. g \in [SUBSET S -> Nat] /\ \A s \in SUBSET S : g[s] = SumStep(g, f, s)
  BY <1>4, <1>5 DEF SumsUpTo
<1>7. g = [s \in SUBSET S |-> SumStep(g, f, s)]
  BY <1>6
<1> QED BY <1>6, <1>7 DEF Sums

\* The function for a set agrees with the function for a part of it.
LEMMA SumsAgree ==
  ASSUME NEW S, IsFiniteSet(S), NEW T \in SUBSET S, NEW f,
         NEW g, Sums(g, f, S), NEW h, Sums(h, f, T)
  PROVE  \A s \in SUBSET T : g[s] = h[s]
<1> DEFINE Bad == {s \in SUBSET T : g[s] # h[s]}
<1>1. SUFFICES ASSUME Bad # {} PROVE FALSE
  OBVIOUS
<1>2. Bad \in SUBSET (SUBSET S)
  OBVIOUS
<1>3. PICK s \in Bad : \A u \in Bad : u \subseteq s => u = s
  <2> HIDE DEF Bad
  <2> QED BY <1>1, <1>2, SmallestSet
<1>4. g[s] = SumStep(g, f, s) /\ h[s] = SumStep(h, f, s)
  BY DEF Sums
<1>5. s # {}
  BY <1>4 DEF SumStep
<1>6. Chosen(s) \in s
  BY <1>5, ChosenIn
<1>7. s \ {Chosen(s)} \in SUBSET T /\ s \ {Chosen(s)} \notin Bad
  BY <1>3, <1>6
<1>8. g[s \ {Chosen(s)}] = h[s \ {Chosen(s)}]
  BY <1>7
<1> QED BY <1>4, <1>5, <1>8 DEF SumStep

\* The sum is a natural number, and obeys the equation it is defined by.
LEMMA SumEquation ==
  ASSUME NEW S, IsFiniteSet(S), NEW f, \A x \in S : f[x] \in Nat
  PROVE  /\ SumFunctionOnSet(f, S) \in Nat
         /\ S = {} => SumFunctionOnSet(f, S) = 0
         /\ S # {} => SumFunctionOnSet(f, S)
                        = f[Chosen(S)] + SumFunctionOnSet(f, S \ {Chosen(S)})
<1> DEFINE G(T) == CHOOSE g : Sums(g, f, T)
<1>1. ASSUME NEW T \in SUBSET S
      PROVE  G(T) \in [SUBSET T -> Nat] /\ Sums(G(T), f, T)
  <2>1. IsFiniteSet(T) /\ \A x \in T : f[x] \in Nat
    BY FS_Subset
  <2>2. \E g \in [SUBSET T -> Nat] : Sums(g, f, T)
    BY <2>1, SumsExist
  <2>3. Sums(G(T), f, T)
    BY <2>2
  <2>4. \A g : Sums(g, f, T) => g = G(T)
    <3>1. SUFFICES ASSUME NEW g, Sums(g, f, T) PROVE g = G(T)
      OBVIOUS
    <3>2. \A s \in SUBSET T : g[s] = G(T)[s]
      BY <2>1, <2>3, <3>1, SumsAgree
    <3>3. g = [s \in SUBSET T |-> g[s]] /\ G(T) = [s \in SUBSET T |-> G(T)[s]]
      BY <2>3, <3>1 DEF Sums
    <3> QED BY <3>2, <3>3
  <2> QED BY <2>2, <2>3, <2>4
<1>2. SumFunctionOnSet(f, S) = G(S)[S]
  BY SumUnfolds
<1>3. SumFunctionOnSet(f, S) \in Nat
  <2>1. G(S) \in [SUBSET S -> Nat] /\ S \in SUBSET S
    BY <1>1
  <2> HIDE DEF G
  <2> QED BY <1>2, <2>1
<1>4. G(S)[S] = SumStep(G(S), f, S)
  BY <1>1 DEF Sums
<1>5. ASSUME S # {}
      PROVE  SumFunctionOnSet(f, S \ {Chosen(S)}) = G(S)[S \ {Chosen(S)}]
  <2> DEFINE T == S \ {Chosen(S)}
  <2>1. T \in SUBSET S
    OBVIOUS
  <2>2. Sums(G(S), f, S) /\ Sums(G(T), f, T)
    BY <1>1, <2>1
  <2>3. G(S)[T] = G(T)[T]
    BY <2>1, <2>2, SumsAgree
  <2> QED BY <2>3, SumUnfolds
<1> QED BY <1>2, <1>3, <1>4, <1>5 DEF SumStep

\* Any element may be taken out of a sum.
LEMMA SumRemoves ==
  ASSUME NEW S, IsFiniteSet(S), NEW f, \A x \in S : f[x] \in Nat, NEW d \in S
  PROVE  SumFunctionOnSet(f, S) = f[d] + SumFunctionOnSet(f, S \ {d})
<1> DEFINE Sum(s) == SumFunctionOnSet(f, s)
           Bad == {s \in SUBSET S : \E e \in s : Sum(s) # f[e] + Sum(s \ {e})}
<1>1. SUFFICES ASSUME Bad # {} PROVE FALSE
  OBVIOUS
<1>2. Bad \in SUBSET (SUBSET S)
  OBVIOUS
<1>3. PICK s \in Bad : \A u \in Bad : u \subseteq s => u = s
  <2> HIDE DEF Bad
  <2> QED BY <1>1, <1>2, SmallestSet
<1>4. PICK e \in s : Sum(s) # f[e] + Sum(s \ {e})
  OBVIOUS
<1>5. \A u \in SUBSET S : /\ Sum(u) \in Nat
                          /\ u # {} => /\ Chosen(u) \in u
                                       /\ Sum(u) = f[Chosen(u)] + Sum(u \ {Chosen(u)})
  <2>1. \A u \in SUBSET S : IsFiniteSet(u) /\ \A x \in u : f[x] \in Nat
    BY FS_Subset
  <2> QED BY <2>1, SumEquation, ChosenIn
<1>6. \A u \in SUBSET S, x \in S :
        u \subseteq s /\ u # s /\ x \in u => Sum(u) = f[x] + Sum(u \ {x})
  BY <1>3
<1> DEFINE c == Chosen(s)
<1> HIDE DEF Sum, Bad, c
<1>7. c \in s /\ Sum(s) = f[c] + Sum(s \ {c}) /\ s \in SUBSET S
  BY <1>2, <1>3, <1>4, <1>5 DEF c
<1>8. c # e
  BY <1>4, <1>7
<1>9. Sum(s \ {c}) = f[e] + Sum((s \ {c}) \ {e})
  BY <1>4, <1>6, <1>7, <1>8
<1>10. Sum(s \ {e}) = f[c] + Sum((s \ {e}) \ {c})
  BY <1>4, <1>6, <1>7, <1>8
<1>11. (s \ {c}) \ {e} = (s \ {e}) \ {c}
  OBVIOUS
<1>12. Sum((s \ {c}) \ {e}) \in Nat /\ f[c] \in Nat /\ f[e] \in Nat
  BY <1>4, <1>5, <1>7
<1>13. Sum(s) = f[c] + (f[e] + Sum((s \ {c}) \ {e})) /\ Sum(s \ {e}) = f[c] + Sum((s \ {c}) \ {e})
  BY <1>7, <1>9, <1>10, <1>11
<1> QED BY <1>4, <1>12, <1>13

\* Functions that agree on a set have the same sum there.
LEMMA SumSame ==
  ASSUME NEW S, IsFiniteSet(S), NEW f, NEW g, \A x \in S : f[x] \in Nat /\ g[x] = f[x]
  PROVE  SumFunctionOnSet(g, S) = SumFunctionOnSet(f, S)
<1> DEFINE F(s) == SumFunctionOnSet(f, s)
           G(s) == SumFunctionOnSet(g, s)
           Bad == {s \in SUBSET S : G(s) # F(s)}
<1>1. SUFFICES ASSUME Bad # {} PROVE FALSE
  OBVIOUS
<1>2. Bad \in SUBSET (SUBSET S)
  OBVIOUS
<1>3. PICK s \in Bad : \A u \in Bad : u \subseteq s => u = s
  <2> HIDE DEF Bad
  <2> QED BY <1>1, <1>2, SmallestSet
<1>4. IsFiniteSet(s) /\ (\A x \in s : f[x] \in Nat) /\ \A x \in s : g[x] \in Nat
  BY <1>2, FS_Subset
<1>5. /\ s = {} => F(s) = 0 /\ G(s) = 0
      /\ s # {} => /\ F(s) = f[Chosen(s)] + F(s \ {Chosen(s)})
                   /\ G(s) = g[Chosen(s)] + G(s \ {Chosen(s)})
  BY <1>4, SumEquation
<1>6. s # {}
  BY <1>5
<1>7. Chosen(s) \in s /\ g[Chosen(s)] = f[Chosen(s)]
  BY <1>2, <1>6, ChosenIn
<1>8. G(s \ {Chosen(s)}) = F(s \ {Chosen(s)})
  BY <1>2, <1>3, <1>7
<1> QED BY <1>5, <1>6, <1>7, <1>8

\* What adds nothing may be left out.
LEMMA SumOfPart ==
  ASSUME NEW S, IsFiniteSet(S), NEW f, \A x \in S : f[x] \in Nat,
         NEW T \in SUBSET S, \A x \in S \ T : f[x] = 0
  PROVE  SumFunctionOnSet(f, S) = SumFunctionOnSet(f, T)
<1> DEFINE F(s) == SumFunctionOnSet(f, s)
           Bad == {s \in SUBSET S : T \subseteq s /\ F(s) # F(T)}
<1>1. SUFFICES ASSUME Bad # {} PROVE FALSE
  OBVIOUS
<1>2. Bad \in SUBSET (SUBSET S)
  OBVIOUS
<1>3. PICK s \in Bad : \A u \in Bad : u \subseteq s => u = s
  <2> HIDE DEF Bad
  <2> QED BY <1>1, <1>2, SmallestSet
<1>4. s # T /\ T \subseteq s /\ s \in SUBSET S
  OBVIOUS
<1>5. PICK d \in s : d \notin T
  BY <1>4
<1>6. IsFiniteSet(s) /\ \A x \in s : f[x] \in Nat
  BY <1>4, FS_Subset
<1>7. F(s) = f[d] + F(s \ {d}) /\ f[d] = 0
  BY <1>4, <1>5, <1>6, SumRemoves
<1>8. IsFiniteSet(s \ {d}) /\ \A x \in s \ {d} : f[x] \in Nat
  BY <1>6, FS_Subset
<1>9. F(s \ {d}) \in Nat
  BY <1>8, SumEquation
<1>10. F(s \ {d}) = F(T)
  BY <1>3, <1>4, <1>5
<1> QED BY <1>7, <1>9, <1>10

-----------------------------------------------------------------------------
(* What a sweep has counted, and what it may still take.                   *)

\* The disks of a plan are finitely many, and have sizes.
LEMMA PlanSizes ==
  ASSUME NEW p \in PlanType
  PROVE  /\ IsFiniteSet(DOMAIN p.seen) /\ \A S \in SUBSET (DOMAIN p.seen) : IsFiniteSet(S)
         /\ \A d \in DOMAIN p.seen : p.seen[d] \in RowType /\ p.seen[d].size \in Nat
<1>1. IsFiniteSet(Disks)
  BY FiniteAssumption, FS_Union DEF Disks
<1>2. p.seen \in Some
  BY DEF PlanType
<1>3. DOMAIN p.seen \in SUBSET Disks /\ \A d \in DOMAIN p.seen : p.seen[d] \in RowType
  BY <1>2, SomeRows
<1>4. IsFiniteSet(DOMAIN p.seen) /\ \A S \in SUBSET (DOMAIN p.seen) : IsFiniteSet(S)
  BY <1>1, <1>3, FS_Subset
<1> QED BY <1>3, <1>4 DEF RowType

\* The bytes of some of its disks, with one disk more or less.
LEMMA SizesAdd ==
  ASSUME NEW p \in PlanType, NEW S \in SUBSET (DOMAIN p.seen)
  PROVE  /\ SizeOf(p, S) \in Nat /\ (S = {} => SizeOf(p, S) = 0)
         /\ \A d \in S : SizeOf(p, S) = p.seen[d].size + SizeOf(p, S \ {d})
<1> DEFINE f == [d \in DOMAIN p.seen |-> p.seen[d].size]
<1>1. IsFiniteSet(S) /\ \A d \in S : f[d] \in Nat /\ f[d] = p.seen[d].size
  BY PlanSizes
<1> HIDE DEF f
<1>2. /\ SumFunctionOnSet(f, S) \in Nat /\ (S = {} => SumFunctionOnSet(f, S) = 0)
      /\ \A d \in S : SumFunctionOnSet(f, S) = f[d] + SumFunctionOnSet(f, S \ {d})
  BY <1>1, SumEquation, SumRemoves
<1>3. \A T : SizeOf(p, T) = SumFunctionOnSet(f, T)
  BY DEF SizeOf, f
<1> QED BY <1>1, <1>2, <1>3

\* The plan's parts that nobody but the sweep writes: what may go is still there,
\* nothing is destroyed for the budget before the idle disks are done with, and what
\* was destroyed for it is enough, once the rest of the victims is gone as well.
Stands(p) ==
  /\ p.left \cap p.idle = {} /\ p.left \cup p.idle \subseteq Stays(p)
  /\ p.paid # {} => p.idle = {}
Spends(p) == p.paid # {} /\ ~p.foiled => Bytes(p) <= Total + SizeOf(p, p.left)

\* The sweep may take whatever no live run holds, and the bind's own disk.
Considers(r, p, push) ==
  ~p.foiled =>
    /\ ~push /\ AgentOf[r] \in DOMAIN p.seen => p.seen[AgentOf[r]].known
    /\ \A d \in Stays(p) :
         p.seen[d].known /\ p.seen[d].size > 0
           /\ (p.seen[d].held \notin p.live \/ (d = AgentOf[r] /\ ~push)) => d \in p.left \cup p.idle

\* A victim is destroyed, or refused, and is a victim no longer.
Takes(p, q, d) ==
  /\ d \in p.idle \cup p.left
  /\ q.seen = p.seen /\ q.live = p.live /\ q.idle = p.idle \ {d} /\ q.left = p.left \ {d}
  /\ q.paid \subseteq p.paid \cup (IF d \in p.left THEN {d} ELSE {})
  /\ \/ q.gone = p.gone \cup {d} /\ q.foiled = p.foiled
     \/ q.gone = p.gone /\ q.foiled
  /\ d \in p.left => Pays(p)

\* The victim of the budget pass is paid for.
LEMMA TakesKeeps ==
  ASSUME NEW p \in PlanType, NEW q \in PlanType, NEW d, Takes(p, q, d), Stands(p), Spends(p)
  PROVE  Stands(q) /\ Spends(q)
<1>1. d \in p.left \/ d \in p.idle
  BY DEF Takes
<1>2. Stands(q)
  BY <1>1 DEF Stands, Stays, Takes, Pays
<1>3. ASSUME q.paid # {}, ~q.foiled PROVE Bytes(q) <= Total + SizeOf(q, q.left)
  <2>1. d \in p.left /\ Pays(p)
    BY <1>1, <1>3 DEF Takes, Stands
  <2>2. /\ q.seen = p.seen /\ q.left = p.left \ {d} /\ q.gone = p.gone \cup {d}
        /\ Stays(q) = Stays(p) \ {d} /\ d \in Stays(p)
    BY <1>3, <2>1 DEF Takes, Stands, Stays
  <2>3. Stays(p) \in SUBSET (DOMAIN p.seen) /\ p.left \in SUBSET (DOMAIN p.seen)
    BY DEF Stands, Stays
  <2>4. \A S : SizeOf(q, S) = SizeOf(p, S)
    BY <2>2 DEF SizeOf
  <2>5. /\ Bytes(p) = p.seen[d].size + SizeOf(p, Stays(p) \ {d}) /\ Bytes(p) \in Nat
    BY <2>2, <2>3, SizesAdd DEF Bytes
  <2>6. /\ SizeOf(p, p.left) = p.seen[d].size + SizeOf(p, p.left \ {d})
        /\ SizeOf(p, p.left) \in Nat
    BY <2>1, <2>3, SizesAdd
  <2>7. /\ SizeOf(p, Stays(p) \ {d}) \in Nat /\ SizeOf(p, p.left \ {d}) \in Nat
        /\ p.seen[d].size \in Nat /\ Total \in Nat
    BY <2>1, <2>3, SizesAdd, PlanSizes, SizesAssumption
  <2>8. Bytes(p) - SizeOf(p, p.left) <= Total
    BY <2>1 DEF Pays
  <2>9. Bytes(q) = SizeOf(p, Stays(p) \ {d}) /\ SizeOf(q, q.left) = SizeOf(p, p.left \ {d})
    BY <2>2, <2>4 DEF Bytes
  <2> QED BY <2>5, <2>6, <2>7, <2>8, <2>9
<1> QED BY <1>2, <1>3 DEF Spends

\* What is no victim any longer is gone.
LEMMA TakesConsiders ==
  ASSUME NEW p \in PlanType, NEW q \in PlanType, NEW d, Takes(p, q, d), NEW r, NEW push,
         Considers(r, p, push)
  PROVE  Considers(r, q, push)
<1> SUFFICES ASSUME ~q.foiled PROVE Considers(r, q, push)
  BY DEF Considers
<1>1. /\ q.gone = p.gone \cup {d} /\ ~p.foiled /\ q.seen = p.seen /\ q.live = p.live
      /\ q.idle = p.idle \ {d} /\ q.left = p.left \ {d}
  BY DEF Takes
<1> QED BY <1>1 DEF Considers, Stays

\* A fresh plan has considered every disk.
LEMMA FreshPlan ==
  ASSUME Base, NEW r \in Runs, NEW t \in Some, NEW p, p = SweepPlan(r, t)
  PROVE  /\ p.paid = {} /\ p.gone = {} /\ p.left \cap p.idle = {}
         /\ (~call[r].push => View(AgentOf[r], t).known) => Considers(r, p, call[r].push)
<1> DEFINE D    == {d \in Disks : View(d, t).exists /\ ~View(d, t).evicted}
           seen == [d \in D |-> View(d, t)]
           free == {d \in DOMAIN seen : ~HeldByLive(seen[d], live)}
           idle == {d \in free : seen[d].stale}
           own  == IF call[r].push THEN {} ELSE {AgentOf[r]}
           left == {d \in (free \cup own) \ idle : seen[d].known /\ seen[d].size > 0}
<1>1. p = [NoPlan EXCEPT !.seen = seen, !.live = live, !.idle = idle, !.left = left]
  BY DEF SweepPlan
<1>2. DOMAIN seen = D /\ \A d \in D : seen[d] = View(d, t)
  OBVIOUS
<1>3. \A d \in free : d \in D /\ seen[d].held \notin live
  BY <1>2 DEF HeldByLive
<1>4. \A d \in D : seen[d].held \notin live => d \in free
  BY <1>2 DEF HeldByLive
<1> HIDE DEF D, seen, free
<1>5. left \cap idle = {} /\ \A d \in free \cup own : seen[d].known /\ seen[d].size > 0 => d \in left \cup idle
  OBVIOUS
<1>6. ~call[r].push => AgentOf[r] \in own
  OBVIOUS
<1> HIDE DEF idle, left, own
<1>7. /\ p.seen = seen /\ p.live = live /\ p.idle = idle /\ p.left = left /\ p.paid = {} /\ p.gone = {}
  BY <1>1 DEF NoPlan
<1> QED BY <1>2, <1>4, <1>5, <1>6, <1>7 DEF Considers, Stays

\* What a step does to the plan of a run.
PlanMoves(r) ==
  \/ plan'[r] = plan[r] /\ (call'[r] = call[r] \/ call'[r].at # "sweep")
  \/ plan'[r] = NoPlan /\ call'[r].at # "sweep"
  \/ /\ call'[r].push = call[r].push
     /\ \E t \in Some : /\ plan'[r] = SweepPlan(r, t)
                        /\ ~call[r].push => View(AgentOf[r], t).known
  \/ At(r, "sweep") /\ call'[r] = call[r] /\ \E d : Takes(plan[r], plan'[r], d)

\* The plans stay.
LEMMA PlansStay ==
  ASSUME Base, NEW r \in Runs, NEW c \in CallType, c.at # "sweep", Goto(r, c) \/ UNCHANGED call,
         UNCHANGED plan
  PROVE  \A q \in Runs : PlanMoves(q)
<1>1. \A q \in Runs : call'[q] = call[q] \/ call'[q] = c
  BY DEF Base, Types, CallTypes, Goto
<1> QED BY <1>1 DEF PlanMoves

\* The call and the plan of one run change.
LEMMA PlanChanges ==
  ASSUME Base, NEW r \in Runs, NEW c \in CallType, Goto(r, c) \/ (UNCHANGED call /\ c = call[r]),
         NEW p, plan' = [plan EXCEPT ![r] = p] \/ (UNCHANGED plan /\ p = plan[r])
  PROVE  /\ call'[r] = c /\ plan'[r] = p
         /\ PlanMoves(r) => \A q \in Runs : PlanMoves(q)
<1>1. call'[r] = c /\ \A q \in Runs \ {r} : call'[q] = call[q]
  BY DEF Base, Types, CallTypes, Goto
<1>2. plan'[r] = p /\ \A q \in Runs \ {r} : plan'[q] = plan[q]
  BY DEF Base, Types, SweepTypes
<1> QED BY <1>1, <1>2 DEF PlanMoves

\* Calls go to places other than the sweep.
LEMMA CallParts ==
  ASSUME Base, NEW r \in Runs
  PROVE  /\ call[r] \in CallType /\ [call[r] EXCEPT !.at = "sweep"] \in CallType
         /\ [call[r] EXCEPT !.at = "sweep"].push = call[r].push
         /\ [call[r] EXCEPT !.at = "job"] \in CallType /\ [call[r] EXCEPT !.at = "job"].at = "job"
         /\ \A m \in Measure : /\ [call[r] EXCEPT !.measure = m] \in CallType
                               /\ [call[r] EXCEPT !.measure = m].at = call[r].at
BY DEF Base, Types, CallTypes, CallType, Places

\* A row is settled and the sweep planned, or the bind refused (bind_workspace).
LEMMA SettlePlans ==
  ASSUME Base, NEW r \in Runs, Settle(r)
  PROVE  \A q \in Runs : PlanMoves(q)
<1> DEFINE a == AgentOf[r]
           row == txn[r][a]
           Outcome(new) ==
             LET t == Write(<<>>, a, [new EXCEPT !.stale = FALSE]) IN
               IF ~call[r].push /\ ~new.known
                 THEN Refuse(r, Write(<<>>, a, new)) /\ UNCHANGED plan
                 ELSE /\ txn' = [txn EXCEPT ![r] = t]
                      /\ plan' = [plan EXCEPT ![r] = SweepPlan(r, t)]
                      /\ Goto(r, [call[r] EXCEPT !.at = "sweep"]) /\ UNCHANGED rows
           empty == [row EXCEPT !.size = 0, !.known = TRUE, !.reset = FALSE, !.evicted = FALSE]
           kept == [row EXCEPT !.evicted = FALSE]
<1>1. /\ Locks(r) /\ a \in Disks /\ txn[r] \in Some /\ a \in DOMAIN txn[r]
  BY Starting DEF Settle, Locks, Opens, At
<1>2. row \in RowType
  BY <1>1, SomeRows
<1>3. empty \in RowType /\ kept \in RowType
  BY <1>2 DEF RowType
<1>4. Outcome(empty) \/ Outcome(kept) \/ Outcome(row)
  BY DEF Settle
<1>5. ASSUME NEW new \in RowType, Outcome(new) PROVE \A q \in Runs : PlanMoves(q)
  <2> DEFINE t == Write(<<>>, a, [new EXCEPT !.stale = FALSE])
  <2>1. CASE ~call[r].push /\ ~new.known
    <3>1. Goto(r, Idle) /\ UNCHANGED plan
      BY <1>5, <2>1 DEF Refuse
    <3> QED BY <3>1, Calls, PlansStay
  <2>2. CASE ~(~call[r].push /\ ~new.known)
    <3>1. /\ Goto(r, [call[r] EXCEPT !.at = "sweep"]) /\ plan' = [plan EXCEPT ![r] = SweepPlan(r, t)]
      BY <1>5, <2>2
    <3>2. [new EXCEPT !.stale = FALSE] \in RowType /\ [new EXCEPT !.stale = FALSE].known = new.known
      BY DEF RowType
    <3>3. t \in Some /\ a \in DOMAIN t /\ t[a].known = new.known
      BY <1>1, <3>2, FirstRow
    <3>4. ~call[r].push => View(a, t).known
      BY <2>2, <3>3 DEF View
    <3> HIDE DEF t
    <3>5. /\ call'[r] = [call[r] EXCEPT !.at = "sweep"] /\ plan'[r] = SweepPlan(r, t)
          /\ PlanMoves(r) => \A q \in Runs : PlanMoves(q)
      BY <3>1, CallParts, PlanChanges
    <3>6. call'[r].push = call[r].push
      BY <3>5, CallParts
    <3> QED BY <3>3, <3>4, <3>5, <3>6 DEF PlanMoves
  <2> QED BY <2>1, <2>2
<1> HIDE DEF Outcome, empty, kept, row
<1> QED BY <1>2, <1>3, <1>4, <1>5

\* A victim of the sweep (_evict, _recycle).
LEMMA EvictPlans ==
  ASSUME Base, NEW r \in Runs, At(r, "sweep"), UNCHANGED call, NEW d, NEW q \in PlanType,
         d \in plan[r].idle \cup plan[r].left,
         q.seen = plan[r].seen, q.live = plan[r].live, q.gone = plan[r].gone,
         q.foiled = plan[r].foiled,
         q.idle = plan[r].idle \ {d}, q.left = plan[r].left \ {d},
         q.paid \subseteq plan[r].paid \cup (IF d \in plan[r].left THEN {d} ELSE {}),
         d \in plan[r].left => Pays(plan[r]),
         \/ plan' = [plan EXCEPT ![r] = [q EXCEPT !.gone = @ \cup {d}]]
         \/ plan' = [plan EXCEPT ![r] = Foiled(q, d)]
  PROVE  \A x \in Runs : PlanMoves(x)
<1>1. PICK p : /\ plan' = [plan EXCEPT ![r] = p]
               /\ p = [q EXCEPT !.gone = @ \cup {d}] \/ p = Foiled(q, d)
  OBVIOUS
<1>2. /\ p.seen = q.seen /\ p.live = q.live /\ p.idle = q.idle /\ p.left = q.left
      /\ p.paid \subseteq q.paid
      /\ \/ p.gone = q.gone \cup {d} /\ p.foiled = q.foiled
         \/ p.gone = q.gone /\ p.foiled
  BY <1>1 DEF Foiled, PlanType
<1>3. Takes(plan[r], p, d)
  BY <1>2 DEF Takes
<1>4. plan'[r] = p /\ call'[r] = call[r] /\ (PlanMoves(r) => \A x \in Runs : PlanMoves(x))
  BY <1>1, CallParts, PlanChanges
<1> QED BY <1>3, <1>4 DEF PlanMoves

\* Its two passes.
LEMMA SweepPlans ==
  ASSUME Base, NEW r \in Runs, EvictIdle(r) \/ EvictLargest(r), Stands(plan[r])
  PROVE  \A x \in Runs : PlanMoves(x)
<1>1. At(r, "sweep") /\ UNCHANGED call /\ plan[r] \in PlanType
  BY Starting DEF EvictIdle, EvictLargest
<1>2. CASE EvictIdle(r)
  <2>1. PICK d \in plan[r].idle : Evict(r, d, [plan[r] EXCEPT !.idle = @ \ {d}])
    BY <1>2 DEF EvictIdle
  <2> DEFINE q == [plan[r] EXCEPT !.idle = @ \ {d}]
  <2>2. /\ q \in PlanType /\ q.seen = plan[r].seen /\ q.live = plan[r].live
        /\ q.idle = plan[r].idle \ {d} /\ q.left = plan[r].left /\ q.paid = plan[r].paid
        /\ q.gone = plan[r].gone /\ q.foiled = plan[r].foiled
    BY <1>1 DEF PlanType
  <2>3. d \notin plan[r].left /\ plan[r].left \ {d} = plan[r].left
    BY DEF Stands
  <2>4. \/ plan' = [plan EXCEPT ![r] = [q EXCEPT !.gone = @ \cup {d}]]
        \/ plan' = [plan EXCEPT ![r] = Foiled(q, d)]
    BY <2>1 DEF Evict
  <2> HIDE DEF q
  <2> QED BY <1>1, <2>2, <2>3, <2>4, EvictPlans
<1>3. CASE EvictLargest(r)
  <2>1. PICK d \in plan[r].left :
          LET p == [plan[r] EXCEPT !.left = @ \ {d}, !.paid = @ \cup {d}] IN
            IF d = AgentOf[r] THEN RecycleOwn(r, p) ELSE Evict(r, d, p)
    BY <1>3 DEF EvictLargest, Largest
  <2> DEFINE q == [plan[r] EXCEPT !.left = @ \ {d}, !.paid = @ \cup {d}]
  <2>2. d \in Disks /\ Pays(plan[r]) /\ d \notin plan[r].idle /\ plan[r].idle \ {d} = plan[r].idle
    BY <1>1, <1>3 DEF EvictLargest, PlanType, Stands
  <2>3. /\ q \in PlanType /\ q.seen = plan[r].seen /\ q.live = plan[r].live
        /\ q.idle = plan[r].idle /\ q.left = plan[r].left \ {d} /\ q.paid = plan[r].paid \cup {d}
        /\ q.gone = plan[r].gone /\ q.foiled = plan[r].foiled
    BY <1>1, <2>2 DEF PlanType
  <2>4. \/ plan' = [plan EXCEPT ![r] = [q EXCEPT !.gone = @ \cup {d}]]
        \/ plan' = [plan EXCEPT ![r] = Foiled(q, d)]
    BY <2>1 DEF Evict, RecycleOwn
  <2> HIDE DEF q
  <2> QED BY <1>1, <2>2, <2>3, <2>4, EvictPlans
<1> QED BY <1>2, <1>3

\* Every step.
LEMMA PlansMove ==
  ASSUME Base, [Next]_vars, \A r \in Runs : Stands(plan[r])
  PROVE  \A r \in Runs : PlanMoves(r)
<1>1. ASSUME NEW r \in Runs, Settle(r) \/ EvictIdle(r) \/ EvictLargest(r)
      PROVE  \A q \in Runs : PlanMoves(q)
  BY <1>1, SettlePlans, SweepPlans
<1>2. ASSUME NEW r \in Runs, Decide(r) \/ Die(r)
      PROVE  \A q \in Runs : PlanMoves(q)
  <2>1. plan' = [plan EXCEPT ![r] = NoPlan] /\ (Goto(r, Idle) \/ Goto(r, Bound(AgentOf[r])))
    BY <1>2 DEF Decide, Die, Refuse
  <2>2. PICK c \in CallType : c.at # "sweep" /\ Goto(r, c)
    BY <2>1, Calls, Names
  <2>3. call'[r] = c /\ plan'[r] = NoPlan /\ (PlanMoves(r) => \A q \in Runs : PlanMoves(q))
    BY <2>1, <2>2, PlanChanges
  <2> QED BY <2>2, <2>3 DEF PlanMoves
<1>3. ASSUME NEW r \in Runs, NEW push \in BOOLEAN,
             BindPrivate(r) \/ Renew(r, push) \/ Acquire(r, push) \/ BindChat(r, push)
      PROVE  \A q \in Runs : PlanMoves(q)
  <2>1. UNCHANGED plan
    BY <1>3 DEF BindPrivate, Renew, Acquire, BindChat, sweepVars
  <2>2. \/ UNCHANGED call \/ (\E d \in Disks : Goto(r, Bound(d)))
        \/ Goto(r, Call("acquired", AgentOf[r], push))
    BY <1>3, Names DEF BindPrivate, Renew, Acquire, BindChat, Holdings
  <2>3. PICK c \in CallType : c.at # "sweep" /\ (Goto(r, c) \/ UNCHANGED call)
    BY <2>2, Calls, Names
  <2> QED BY <2>1, <2>3, PlansStay
<1>4. ASSUME NEW r \in Runs, NEW d \in Disks,
             \/ Submit(r) \/ NotSubmitted(r) \/ Report(r) \/ WalkAway(r) \/ ReconcileJobs(r)
             \/ Begin(r, d) \/ GiveUp(r, d)
             \/ Cleanup(r) \/ SkipCleanup(r) \/ Continue(r) \/ Finish(r)
      PROVE  \A q \in Runs : PlanMoves(q)
  <2>1. UNCHANGED plan
    BY <1>4 DEF Submit, NotSubmitted, Report, WalkAway, ReconcileJobs, Begin, GiveUp, Cleanup,
       SkipCleanup, Continue, Finish, sweepVars
  <2>2. \/ UNCHANGED call \/ Goto(r, Idle) \/ Goto(r, Ending) \/ Goto(r, [call[r] EXCEPT !.at = "job"])
        \/ At(r, "job") /\ \E m \in Measure : Goto(r, [call[r] EXCEPT !.measure = m])
    <3>1. CASE Begin(r, d)
      <4>1. vol[d] \in Nat
        BY DEF Base, Types, DiskTypes
      <4>2. [size |-> vol[d], known |-> TRUE] \in Measure /\ [size |-> 0, known |-> FALSE] \in Measure
        BY <4>1 DEF Measure
      <4> QED BY <3>1, <4>2 DEF Begin
    <3>2. CASE ~Begin(r, d)
      BY <1>4, <3>2 DEF Submit, NotSubmitted, Report, WalkAway, ReconcileJobs, GiveUp, Cleanup,
         SkipCleanup, Continue, Finish, Leave
    <3> QED BY <3>1, <3>2
  <2>3. PICK c \in CallType : c.at # "sweep" /\ (Goto(r, c) \/ UNCHANGED call)
    <3>1. CASE At(r, "job") /\ \E m \in Measure : Goto(r, [call[r] EXCEPT !.measure = m])
      BY <3>1, CallParts DEF At
    <3> QED BY <2>2, <3>1, Calls, CallParts
  <2> QED BY <2>1, <2>3, PlansStay
<1>5. CASE UNCHANGED <<plan, call>>
  BY <1>5 DEF PlanMoves
<1>6. ASSUME \/ \E d \in Disks : End(d) \/ Age(d)
             \/ \E c \in Chats : TakeControl(c) \/ GiveBack(c)
             \/ \E a \in Agents : ResetRead(a)
             \/ \E force \in BOOLEAN : ResetWrite(force)
             \/ UNCHANGED vars
      PROVE  \A q \in Runs : PlanMoves(q)
  BY <1>5, <1>6 DEF End, Age, TakeControl, GiveBack, ResetRead, ResetWrite, sweepVars, vars
<1>7. CASE Binding
  BY <1>1, <1>2, <1>3, <1>7 DEF Binding
<1>8. CASE Working
  BY <1>4, <1>6, <1>8, Names DEF Working
<1>9. CASE Leaving
  BY <1>4, <1>9, Names DEF Leaving
<1>10. CASE People
  BY <1>6, <1>10 DEF People
<1> QED BY <1>6, <1>7, <1>8, <1>9, <1>10 DEF Next

\* What holds of every plan.
Planned(r) ==
  /\ Stands(plan[r]) /\ Spends(plan[r])
  /\ At(r, "sweep") => Considers(r, plan[r], call[r].push)
Plans == Base /\ \A r \in Runs : Planned(r)

\* A plan nobody has begun.
LEMMA EmptyPlan == Stands(NoPlan) /\ Spends(NoPlan)
BY DEF Stands, Spends, NoPlan

\* It stays so.
LEMMA PlansStep ==
  ASSUME Plans, [Next]_vars
  PROVE  Plans'
<1>1. Base /\ Moves /\ Base'
  BY StepDoes DEF Plans, Moves
<1>2. ASSUME NEW r \in Runs PROVE Planned(r)'
  <2>1. /\ PlanMoves(r) /\ plan[r] \in PlanType /\ Stands(plan[r]) /\ Spends(plan[r])
        /\ At(r, "sweep") => Considers(r, plan[r], call[r].push)
    BY <1>1, PlansMove, Starting DEF Plans, Planned
  <2>2. /\ plan'[r] \in PlanType
        /\ plan'[r].idle \cup plan'[r].left \subseteq DOMAIN plan'[r].seen
    BY <1>1 DEF Base, Types, SweepTypes
  <2>3. CASE plan'[r] = plan[r] /\ (call'[r] = call[r] \/ call'[r].at # "sweep")
    BY <2>1, <2>3 DEF Planned, At
  <2>4. CASE plan'[r] = NoPlan /\ call'[r].at # "sweep"
    BY <2>4, EmptyPlan DEF Planned, At
  <2>5. CASE /\ call'[r].push = call[r].push
             /\ \E t \in Some : /\ plan'[r] = SweepPlan(r, t)
                                /\ ~call[r].push => View(AgentOf[r], t).known
    <3>1. PICK t \in Some : /\ plan'[r] = SweepPlan(r, t)
                            /\ ~call[r].push => View(AgentOf[r], t).known
      BY <2>5
    <3>2. /\ plan'[r].paid = {} /\ plan'[r].gone = {} /\ plan'[r].left \cap plan'[r].idle = {}
          /\ Considers(r, plan'[r], call[r].push)
      BY <1>1, <3>1, FreshPlan
    <3>3. Stands(plan'[r]) /\ Spends(plan'[r])
      BY <2>2, <3>2 DEF Stands, Spends, Stays
    <3> QED BY <2>5, <3>2, <3>3 DEF Planned
  <2>6. CASE At(r, "sweep") /\ call'[r] = call[r] /\ \E d : Takes(plan[r], plan'[r], d)
    <3>1. PICK d : Takes(plan[r], plan'[r], d)
      BY <2>6
    <3>2. Stands(plan'[r]) /\ Spends(plan'[r])
      BY <2>1, <2>2, <3>1, TakesKeeps
    <3>3. Considers(r, plan'[r], call[r].push)
      BY <2>1, <2>2, <2>6, <3>1, TakesConsiders
    <3> QED BY <2>6, <3>2, <3>3 DEF Planned
  <2> QED BY <2>1, <2>3, <2>4, <2>5, <2>6 DEF PlanMoves
<1> QED BY <1>1, <1>2 DEF Plans

\* At the start nobody sweeps.
LEMMA PlansInit == Init => Plans
<1> SUFFICES ASSUME Init PROVE Plans
  OBVIOUS
<1>1. \A r \in Runs : plan[r] = NoPlan /\ call[r] = Idle
  BY DEF Init
<1> QED BY <1>1, BaseInit, EmptyPlan, Calls DEF Plans, Planned, At

\* What every sweep has read, may take, and has paid for.
THEOREM PlansHold == Spec => []Plans
BY PlansInit, PlansStep, PTL DEF Spec

\* When nothing is left that would be enough, what was destroyed was.
THEOREM BudgetIsSpentWell == Spec => []SpentWell
<1>1. ASSUME Plans, NEW r \in Runs, Swept(r), plan[r].paid # {}, ~plan[r].foiled
      PROVE  Bytes(plan[r]) <= Total
  <2> DEFINE p == plan[r]
  <2>1. p \in PlanType /\ Stands(p) /\ Spends(p)
    BY <1>1, Starting DEF Plans, Planned
  <2>2. /\ Stays(p) \in SUBSET (DOMAIN p.seen) /\ p.left \in SUBSET (DOMAIN p.seen)
    BY <2>1 DEF Stands, Stays
  <2>3. /\ Bytes(p) \in Nat /\ SizeOf(p, p.left) \in Nat /\ Total \in Nat
        /\ p.left = {} => SizeOf(p, p.left) = 0
    BY <2>1, <2>2, SizesAdd, SizesAssumption DEF Bytes
  <2>4. Bytes(p) <= Total + SizeOf(p, p.left)
    BY <1>1, <2>1 DEF Spends
  <2>5. p.left = {} \/ ~(Bytes(p) > Total) \/ ~(Bytes(p) - SizeOf(p, p.left) <= Total)
    BY <1>1 DEF Swept, Pays
  <2> HIDE DEF p
  <2>6. Bytes(p) <= Total
    BY <2>3, <2>4, <2>5
  <2> QED BY <2>6 DEF p
<1>2. Plans => SpentWell
  BY <1>1 DEF SpentWell
<1> QED BY <1>2, PlansHold, PTL

\* A refused bind could have been served only by a disk that a live run holds,
\* or whose size nobody knows: what is free and known was among the victims, and
\* all of them together would not have been enough.
THEOREM RefusalsAreJustified == Spec => []RefusalIsJustified
<1>1. ASSUME Plans, NEW r \in Runs, Swept(r), OverBudget(r), ~plan[r].foiled,
             \A d \in Stays(plan[r]) \ {AgentOf[r]} :
               plan[r].seen[d].held \notin plan[r].live /\ plan[r].seen[d].known
      PROVE  FALSE
  <2> DEFINE p == plan[r]
             S == Stays(p)
             f == [d \in DOMAIN p.seen |-> p.seen[d].size]
             g == [d \in DOMAIN p.seen |-> Charge(p.seen[d])]
  <2>1. /\ p \in PlanType /\ Stands(p) /\ At(r, "sweep") /\ ~call[r].push
        /\ Considers(r, p, call[r].push)
    BY <1>1, Starting DEF Plans, Planned, Swept, OverBudget
  <2>2. S \in SUBSET (DOMAIN p.seen) /\ p.left \in SUBSET S /\ p.idle = {}
    BY <1>1, <2>1 DEF Stands, Stays, Swept
  <2>3. ASSUME NEW d \in S PROVE p.seen[d].known
    BY <1>1, <2>1, <2>2 DEF Considers
  <2>4. ASSUME NEW d \in S \ p.left PROVE p.seen[d].size = 0
    <3>1. p.seen[d].known /\ (p.seen[d].held \notin p.live \/ d = AgentOf[r])
      BY <1>1, <2>3
    <3>2. p.seen[d].size \in Nat
      BY <2>1, <2>2, PlanSizes
    <3> QED BY <1>1, <2>1, <2>2, <3>1, <3>2 DEF Considers
  <2>5. IsFiniteSet(S) /\ \A d \in S : f[d] \in Nat /\ g[d] = f[d]
    <3>1. ASSUME NEW d \in S PROVE f[d] \in Nat /\ g[d] = f[d]
      BY <2>1, <2>2, <2>3, PlanSizes DEF Charge
    <3> QED BY <2>1, <2>2, <3>1, PlanSizes
  <2>6. \A d \in S \ p.left : f[d] = 0
    BY <2>2, <2>4
  <2>7. Bytes(p) = SumFunctionOnSet(f, S) /\ Charged(p) = SumFunctionOnSet(g, S)
        /\ \A T : SizeOf(p, T) = SumFunctionOnSet(f, T)
    BY DEF Bytes, Charged, SizeOf
  <2>8. Charged(p) > Total /\ (p.left = {} \/ ~(Bytes(p) > Total) \/ ~(Bytes(p) - SizeOf(p, p.left) <= Total))
    BY <1>1 DEF Swept, Pays, OverBudget
  <2>9. (p.left = {} => SizeOf(p, p.left) = 0) /\ Bytes(p) \in Nat /\ Total \in Nat
    BY <2>1, <2>2, SizesAdd, SizesAssumption DEF Bytes
  <2> HIDE DEF f, g, S, p
  <2>10. SumFunctionOnSet(g, S) = SumFunctionOnSet(f, S)
    BY <2>5, SumSame
  <2>11. SumFunctionOnSet(f, S) = SumFunctionOnSet(f, p.left)
    <3>1. \A d \in S : f[d] \in Nat
      BY <2>5
    <3> QED BY <2>2, <2>5, <2>6, <3>1, SumOfPart
  <2>12. SizeOf(p, p.left) = Bytes(p) /\ Charged(p) = Bytes(p)
    BY <2>7, <2>10, <2>11
  <2> QED BY <2>8, <2>9, <2>12
<1>2. Plans => RefusalIsJustified
  BY <1>1 DEF RefusalIsJustified
<1> QED BY <1>2, PlansHold, PTL

=============================================================================
