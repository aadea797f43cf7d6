------------------------- MODULE ConversationsProofs -------------------------
(***************************************************************************)
(* What Conversations promises, for any number of requests, steps and      *)
(* mishaps: a turn makes one message, a failed turn has one successor, a   *)
(* withdrawn turn never runs, and an instruction a completed run was told  *)
(* of has been read.                                                       *)
(***************************************************************************)
EXTENDS Conversations, SequenceTheorems, WellFoundedInduction,
        FiniteSetTheorems, TLAPS

\* A call that has opened its turn, or never will.
Opened(c) == call[c].at \in {"start", "record", "refused", "dead", "over"}

\* Places at which a call has a task.
Tasked == {"signal", "mark", "promote", "claim", "start", "record", "refused"}

\* A step has its number within the limit, a run that ends has its outcome, and
\* the row an admission has read is linked to one of the n turns there are.
Fit(w, n) ==
  /\ w.stage = "step" => w.steps < MaxSteps
  /\ w.stage = "finalize" => w.outcome \in Terminal
  /\ w.row.by \in 0..n

\* The types a step relies on: what a call remembers of a task is a task, and
\* each task is opened by a call of its own.
Types ==
  /\ tasks \in Seq(Task) /\ wf \in Seq(Workflow)
  /\ Len(tasks) >= 1 /\ Len(wf) = Len(tasks)
  /\ \A t \in Ids : Fit(wf[t], Len(tasks))
  /\ message \in [Calls -> Message]
  /\ lock \in Calls \cup {None}
  /\ call \in [Calls -> Call]
  /\ mishaps \in 0..MaxMishaps
  /\ \A t \in Ids : tasks[t].after < t /\ tasks[t].from < t /\ tasks[t].by \in Ids \cup {None}
  /\ \A s \in Calls : message[s].task \in Ids \cup {None}
  /\ \A c \in Calls : /\ call[c].task \in Ids \cup {None}
                      /\ call[c].at \in Tasked => call[c].task \in Ids

Bounded == Len(tasks) <= 1 + Cardinality({c \in Calls : Opened(c)})

\* Who is between the lock and the rows it guards.
Guarded(s) == At(s, "write") \/ (At(s, "signal") /\ message[s].task = None)

\* The lock holder's turn is new, and nobody has written a message before.
TurnParts ==
  /\ \A s \in Calls : Guarded(s) => lock = s
  /\ \A s, r \in Calls :
       Guarded(s) /\ message[r].task # None => message[r].turn # message[s].turn
  /\ \A s \in Calls : At(s, "idle") \/ At(s, "write") => message[s].task = None
  /\ \A s \in Calls : At(s, "mark") \/ At(s, "promote") => message[s].task # None
  /\ OneTurnPerId

\* A successor is the one its predecessor is stamped with, unless an admission
\* has written over the stamp.
ResumeParts ==
  \A t \in Ids :
    tasks[t].from # None => tasks[tasks[t].from].by = t \/ tasks[tasks[t].from].cut

\* The call that opened a turn is the one that starts it.
StartParts ==
  /\ \A c \in Calls : At(c, "start") => In(call[c].task, "none")
  /\ \A c, d \in Calls : At(c, "start") /\ At(d, "start") /\ call[c].task = call[d].task => c = d
  /\ \A t \in Ids : tasks[t].state = "completed" => In(t, "over")

\* An instruction goes to the run that its message names.
SignalParts ==
  \A s \in Calls :
    At(s, "signal") /\ message[s].task # None
    => message[s].task = call[s].task /\ message[s].type = "instruction"

\* An instruction that a run was told of, whether or not its row says so yet.
Hearer(s) ==
  /\ message[s].type = "instruction"
  /\ message[s].delivery = "delivered" \/ (message[s].delivery = "pending" /\ At(s, "mark"))

\* Where the workflow w of a row in that state has the instruction s.
Holds(s, state, w) ==
  /\ w.stage # "none"
  /\ w.stage \in {"admit", "claiming", "refusing", "cleanup"} => s \in w.pending
  /\ w.stage = "step" => s \in w.pending \cup w.seen
  /\ w.stage = "finalize" /\ w.outcome = "completed" => s \in w.late
  /\ state = "completed" => s \in w.late

Heard(s) ==
  /\ message[s].task # None
  /\ Holds(s, tasks[message[s].task].state, wf[message[s].task])

HearParts == \A s \in Calls : Hearer(s) => Heard(s)

-----------------------------------------------------------------------------
(* What a step does to the rows and the workflows.                         *)

\* What a commit about task t leaves of its row: the links, but for a stamp that
\* an admission writes over.
Keeps(e, t) ==
  /\ e.after = tasks[t].after /\ e.from = tasks[t].from /\ e.by \in 0..Len(tasks)
  /\ tasks[t].cut => e.cut
  /\ e.by = tasks[t].by \/ e.cut

\* A step about task t: the other tasks and workflows stay, and t keeps its links.
Touches(t) ==
  /\ t \in Ids
  /\ tasks' \in Seq(Task) /\ Len(tasks') = Len(tasks)
  /\ \A u \in Ids \ {t} : tasks'[u] = tasks[u]
  /\ Keeps(tasks'[t], t)
  /\ wf' \in Seq(Workflow) /\ Len(wf') = Len(wf)
  /\ \A u \in Ids \ {t} : wf'[u] = wf[u]
  /\ Fit(wf'[t], Len(tasks))

\* A commit that is not about the links keeps them.
LEMMA Kept ==
  ASSUME Types, NEW t \in Ids, NEW e,
         e.after = tasks[t].after, e.from = tasks[t].from,
         e.by = tasks[t].by, e.cut = tasks[t].cut
  PROVE  Keeps(e, t)
  BY DEF Types, Keeps, Ids, None

\* A row and a workflow replaced at one task (any commit of a run, or about it).
LEMMA Replaces ==
  ASSUME Types, NEW t \in Ids, NEW e \in Task, NEW w \in Workflow, Keeps(e, t),
         Fit(w, Len(tasks)), tasks' = [tasks EXCEPT ![t] = e], wf' = [wf EXCEPT ![t] = w]
  PROVE  Touches(t) /\ tasks'[t] = e /\ wf'[t] = w
<1>1. t \in 1..Len(tasks) /\ t \in 1..Len(wf)
  BY DEF Types, Ids
<1>2. tasks' \in Seq(Task) /\ Len(tasks') = Len(tasks)
      /\ \A j \in 1..Len(tasks) : tasks'[j] = IF j = t THEN e ELSE tasks[j]
  BY <1>1, ExceptSeq DEF Types
<1>3. wf' \in Seq(Workflow) /\ Len(wf') = Len(wf)
      /\ \A j \in 1..Len(wf) : wf'[j] = IF j = t THEN w ELSE wf[j]
  BY <1>1, ExceptSeq DEF Types
<1>4. Len(wf) = Len(tasks)
  BY DEF Types
<1> QED BY <1>1, <1>2, <1>3, <1>4 DEF Touches, Ids

\* A commit that opens a turn appends its row and a workflow yet to be started.
Opens(after, from) ==
  /\ tasks' \in Seq(Task) /\ Len(tasks') = Len(tasks) + 1
  /\ wf' \in Seq(Workflow) /\ Len(wf') = Len(wf) + 1
  /\ tasks'[Len(tasks) + 1] = NewTask(after, from) /\ wf'[Len(tasks) + 1] = NoWorkflow

\* Nothing read yet, and nothing to do: the workflow of a new turn.
LEMMA NewFlow == Unread \in Row /\ Unread.by = 0 /\ NoWorkflow \in Workflow
<1>1. Unread \in Row /\ Unread.by = 0
  BY DEF Unread, Row, Active, None
<1> QED BY <1>1, ConversationsAssumption DEF NoWorkflow, Workflow

\* Open appends the row of the new turn to the rows it is given (a commit of the API).
LEMMA OpenRows ==
  ASSUME Types, NEW c \in Calls, NEW rows \in Seq(Task), NEW wfs \in Seq(Workflow),
         NEW after \in Nat, NEW from \in Nat,
         Len(rows) = Len(tasks), Len(wfs) = Len(tasks), Open(c, rows, wfs, after, from)
  PROVE  Opens(after, from) /\ \A t \in Ids : tasks'[t] = rows[t] /\ wf'[t] = wfs[t]
<1>1. NewTask(after, from) \in Task
  BY DEF NewTask, Task, Active, None, Stamps
<1>2. NoWorkflow \in Workflow
  BY NewFlow
<1> QED BY <1>1, <1>2 DEF Open, Opens, Types, Ids

\* The end of a run leaves a workflow with an outcome to record.
LEMMA EndingType ==
  ASSUME NEW w \in Workflow, NEW outcome \in Terminal
  PROVE  Ending(w, outcome) \in Workflow /\ \A n \in Nat : Fit(Ending(w, outcome), n)
<1> DEFINE w1 == [w EXCEPT !.stage = "finalize"]
           w2 == [w1 EXCEPT !.outcome = outcome]
           w0 == [w2 EXCEPT !.row = Unread]
           w3 == [w0 EXCEPT !.pending = {}]
           w4 == [w3 EXCEPT !.seen = {}]
           w5 == [w4 EXCEPT !.cancelled = FALSE]
           w6 == [w5 EXCEPT !.steps = 0]
<1>1. w1 \in Workflow
  BY DEF Workflow
<1> HIDE DEF w1
<1>2. w2 \in Workflow
  BY <1>1 DEF Workflow
<1> HIDE DEF w2
<1>r. w0 \in Workflow
  BY <1>2, NewFlow DEF Workflow
<1> HIDE DEF w0
<1>3. w3 \in Workflow
  BY <1>r DEF Workflow
<1> HIDE DEF w3
<1>4. w4 \in Workflow
  BY <1>3 DEF Workflow
<1> HIDE DEF w4
<1>5. w5 \in Workflow
  BY <1>4 DEF Workflow
<1> HIDE DEF w5
<1>6. w6 \in Workflow
  BY <1>5, ConversationsAssumption DEF Workflow
<1>7. Ending(w, outcome) = w6
  BY DEF Ending, w0, w1, w2, w3, w4, w5, w6
<1>8. \A n \in Nat : Fit(Ending(w, outcome), n)
  <2>1. LET e == Ending(w, outcome)
        IN  e.stage = "finalize" /\ e.outcome = outcome /\ e.row = Unread
    BY DEF Ending, Workflow
  <2> QED BY <2>1, NewFlow DEF Fit
<1> QED BY <1>6, <1>7, <1>8

\* So does the head of the step loop, with a step to take if it takes one.
LEMMA LoopType ==
  ASSUME NEW t, NEW w \in Workflow, NEW done \in BOOLEAN, NEW n \in Nat, w.row.by \in 0..n
  PROVE  Loop(t, w, done) \in Workflow /\ Fit(Loop(t, w, done), n)
<1>1. CASE w.cancelled
  BY <1>1, EndingType DEF Loop, Terminal
<1>2. CASE ~w.cancelled /\ (~done \/ w.pending # {}) /\ w.steps < MaxSteps
  <2> DEFINE w1 == [w EXCEPT !.stage = "step"]
             w2 == [w1 EXCEPT !.pending = {}]
             w3 == [w2 EXCEPT !.seen = Instructions(t)]
  <2>1. w1 \in Workflow /\ w1.stage = "step" /\ w1.steps < MaxSteps /\ w1.row = w.row
    BY <1>2 DEF Workflow
  <2> HIDE DEF w1
  <2>2. w2 \in Workflow /\ w2.stage = "step" /\ w2.steps < MaxSteps /\ w2.row = w.row
    BY <2>1 DEF Workflow
  <2> HIDE DEF w2
  <2>3. Instructions(t) \in SUBSET Calls
    BY DEF Instructions
  <2>4. w3 \in Workflow /\ w3.stage = "step" /\ w3.steps < MaxSteps /\ w3.row = w.row
    BY <2>2, <2>3 DEF Workflow
  <2>5. Loop(t, w, done) = w3
    BY <1>2 DEF Loop, w1, w2, w3
  <2> HIDE DEF w3
  <2> QED BY <2>4, <2>5 DEF Fit
<1>3. CASE ~w.cancelled /\ ~((~done \/ w.pending # {}) /\ w.steps < MaxSteps) /\ done
  <2> DEFINE w1 == [w EXCEPT !.stage = "cleanup"]
             w2 == [w1 EXCEPT !.seen = {}]
  <2>1. w1 \in Workflow /\ w1.stage = "cleanup" /\ w1.row = w.row
    BY DEF Workflow
  <2> HIDE DEF w1
  <2>2. w2 \in Workflow /\ w2.stage = "cleanup" /\ w2.row = w.row
    BY <2>1 DEF Workflow
  <2>3. Loop(t, w, done) = w2
    BY <1>3 DEF Loop, w1, w2
  <2> HIDE DEF w2
  <2> QED BY <2>2, <2>3 DEF Fit
<1>4. CASE ~w.cancelled /\ ~((~done \/ w.pending # {}) /\ w.steps < MaxSteps) /\ ~done
  BY <1>4, EndingType DEF Loop, Terminal
<1> QED BY <1>1, <1>2, <1>3, <1>4

\* Rows and workflows are what their sequences say.
LEMMA Elements ==
  ASSUME Types, NEW t \in Ids
  PROVE  tasks[t] \in Task /\ wf[t] \in Workflow /\ t \in 1..Len(tasks) /\ t \in 1..Len(wf)
  BY ElementOfSeq DEF Types, Ids

\* What a look at the row changes of a workflow: its stage, if it comes to it.
Looked(w, t) ==
  /\ w.pending = wf[t].pending /\ w.late = wf[t].late /\ w.seen = wf[t].seen
  /\ w.outcome = wf[t].outcome /\ w.ran = wf[t].ran
  /\ \/ w.stage = wf[t].stage
     \/ /\ wf[t].stage = "admit" /\ w.stage \in {"claiming", "refusing"}
        /\ ~Withdrawn(t)

\* The workflow before or after a look is one that has read the row, or has not
\* (resolve_snapshot_activity).
LEMMA LooksType ==
  ASSUME Types, NEW t \in Ids, NEW w \in Looks(t)
  PROVE  w \in Workflow /\ Fit(w, Len(tasks)) /\ Looked(w, t)
<1> DEFINE W == wf[t]
<1>0. tasks[t] \in Task /\ W \in Workflow /\ Fit(W, Len(tasks))
  BY Elements DEF Types
<1>1. CASE w = W
  BY <1>0, <1>1 DEF Looked
<1>2. CASE w # W
  <2>1. w = Look(t) /\ W.stage = "admit" /\ ~Withdrawn(t)
    BY <1>2 DEF Looks, In
  <2> DEFINE stage == IF Waits(t) THEN "refusing" ELSE "claiming"
             row == [state |-> tasks[t].state, by |-> tasks[t].by]
             w1 == [W EXCEPT !.stage = stage]
             w2 == [w1 EXCEPT !.row = row]
  <2>2. stage \in {"claiming", "refusing"}
    OBVIOUS
  <2>3. row \in Row /\ row.by \in 0..Len(tasks)
    BY <1>0 DEF Task, Row, Types, Ids, None
  <2>4. w = w2
    BY <2>1 DEF Look
  <2> HIDE DEF stage, row
  <2>5. /\ w1 \in Workflow /\ w1.stage = stage
        /\ w1.pending = W.pending /\ w1.late = W.late /\ w1.seen = W.seen
        /\ w1.outcome = W.outcome /\ w1.ran = W.ran
    BY <1>0, <2>2 DEF Workflow
  <2> HIDE DEF w1
  <2>6. /\ w2 \in Workflow /\ w2.stage = stage /\ w2.row = row
        /\ w2.pending = W.pending /\ w2.late = W.late /\ w2.seen = W.seen
        /\ w2.outcome = W.outcome /\ w2.ran = W.ran
    BY <2>3, <2>5 DEF Workflow
  <2> HIDE DEF w2
  <2>7. Fit(w2, Len(tasks))
    BY <2>2, <2>3, <2>6 DEF Fit
  <2> QED BY <2>1, <2>2, <2>4, <2>6, <2>7 DEF Looked
<1> QED BY <1>1, <1>2

\* What the commit of an admission leaves of the row: its links, but for a stamp
\* it writes over, and its state, or the new one.
LEMMA WriteBackRow ==
  ASSUME Types, NEW t \in Ids, NEW row \in Row, row.by \in 0..Len(tasks),
         NEW state \in Active, WriteBack(t, row, state)
  PROVE  \E e \in Task : /\ tasks' = [tasks EXCEPT ![t] = e] /\ Keeps(e, t)
                         /\ e.state \in {tasks[t].state, state}
<1> DEFINE T == tasks[t]
           new == IF row.state = state THEN T.state ELSE state
           e1 == [T EXCEPT !.state = new]
           stopA == Settled(T.stop)
           stopB == IF state = "queued" /\ T.stop # "none" THEN "lost" ELSE Settled(T.stop)
           a == [e1 EXCEPT !.stop = stopA]
           b1 == [e1 EXCEPT !.stop = stopB]
           b2 == [b1 EXCEPT !.by = row.by]
           b3 == [b2 EXCEPT !.cut = T.cut \/ T.by # row.by]
<1>0. T \in Task /\ T.by \in 0..Len(tasks)
  BY Elements DEF Types, Ids, None
<1>1. new \in Active \cup Terminal /\ new \in {T.state, state}
      /\ stopA \in Stamps /\ stopB \in Stamps
  BY <1>0 DEF Task, Stamps, Settled
<1> HIDE DEF new, stopA, stopB
<1>2. /\ e1 \in Task /\ e1.state = new /\ e1.stop = T.stop /\ e1.by = T.by /\ e1.cut = T.cut
      /\ e1.after = T.after /\ e1.from = T.from
  BY <1>0, <1>1 DEF Task
<1>3. \/ tasks' = [tasks EXCEPT ![t] = a]
      \/ tasks' = [tasks EXCEPT ![t] = b3]
  <2>1. \/ tasks' = [tasks EXCEPT ![t] =
                       [e1 EXCEPT !.stop = Settled(e1.stop)]]
        \/ tasks' = [tasks EXCEPT ![t] =
                       [e1 EXCEPT !.stop = IF state = "queued" /\ e1.stop # "none"
                                             THEN "lost" ELSE Settled(e1.stop),
                                  !.by = row.by, !.cut = e1.cut \/ T.by # row.by]]
    BY DEF WriteBack, new
  <2> HIDE DEF e1
  <2> QED BY <1>2, <2>1 DEF stopA, stopB
<1> HIDE DEF e1
<1>4. a \in Task /\ a.state = new /\ Keeps(a, t)
  <2>1. a \in Task /\ a.state = new /\ a.by = T.by /\ a.cut = T.cut
        /\ a.after = T.after /\ a.from = T.from
    BY <1>1, <1>2 DEF Task
  <2> HIDE DEF a
  <2> QED BY <2>1, Kept
<1>5. b3 \in Task /\ b3.state = new /\ Keeps(b3, t)
  <2>1. b1 \in Task /\ b1.state = new /\ b1.cut = T.cut
        /\ b1.after = T.after /\ b1.from = T.from
    BY <1>1, <1>2 DEF Task
  <2> HIDE DEF b1
  <2>2. b2 \in Task /\ b2.state = new /\ b2.by = row.by /\ b2.cut = T.cut
        /\ b2.after = T.after /\ b2.from = T.from
    BY <2>1 DEF Task
  <2> HIDE DEF b2
  <2>3. b3 \in Task /\ b3.state = new /\ b3.by = row.by
        /\ (b3.cut <=> (T.cut \/ T.by # row.by))
        /\ b3.after = T.after /\ b3.from = T.from
    BY <2>2 DEF Task
  <2> HIDE DEF b3
  <2> QED BY <2>3 DEF Keeps
<1> QED BY <1>1, <1>3, <1>4, <1>5

\* A run that an admission has claimed is at the head of its step loop, or over.
LEMMA AdmitRow ==
  ASSUME Types, NEW t \in Ids, Admit(t)
  PROVE  \E e \in Task, w0 \in Looks(t), w1 \in Workflow :
           /\ tasks' = [tasks EXCEPT ![t] = e] /\ Keeps(e, t)
           /\ e.state \in {tasks[t].state, "running"}
           /\ w0.stage = "claiming"
           /\ w1.pending = w0.pending /\ w1.late = w0.late /\ w1.row.by = 0
           /\ wf' = [wf EXCEPT ![t] = Loop(t, w1, FALSE)]
<1>1. PICK w0 \in Looks(t) :
        /\ w0.stage = "claiming" /\ WriteBack(t, w0.row, "running")
        /\ wf' = [wf EXCEPT ![t] = Loop(t, [w0 EXCEPT !.ran = TRUE, !.row = Unread], FALSE)]
  BY DEF Admit
<1>2. w0 \in Workflow /\ w0.row \in Row /\ w0.row.by \in 0..Len(tasks)
  BY LooksType DEF Workflow, Fit
<1>3. PICK e \in Task : /\ tasks' = [tasks EXCEPT ![t] = e] /\ Keeps(e, t)
                        /\ e.state \in {tasks[t].state, "running"}
  <2>1. "running" \in Active
    BY DEF Active
  <2> QED BY <1>1, <1>2, <2>1, WriteBackRow
<1> DEFINE v == [w0 EXCEPT !.ran = TRUE]
           w1 == [v EXCEPT !.row = Unread]
<1>4. v \in Workflow /\ v.pending = w0.pending /\ v.late = w0.late
  BY <1>2 DEF Workflow
<1>5. wf' = [wf EXCEPT ![t] = Loop(t, w1, FALSE)]
  BY <1>1
<1> HIDE DEF v
<1>6. w1 \in Workflow /\ w1.pending = w0.pending /\ w1.late = w0.late /\ w1.row.by = 0
  BY <1>4, NewFlow DEF Workflow
<1> HIDE DEF w1
<1> QED BY <1>1, <1>3, <1>5, <1>6

\* A run that has to wait is back where it asks to be admitted.
LEMMA QueueRow ==
  ASSUME Types, NEW t \in Ids, Queue(t)
  PROVE  \E e \in Task, w0 \in Looks(t), w1 \in Workflow :
           /\ tasks' = [tasks EXCEPT ![t] = e] /\ Keeps(e, t)
           /\ e.state \in {tasks[t].state, "queued"}
           /\ w0.stage = "refusing"
           /\ w1.stage = "admit" /\ w1.pending = w0.pending /\ w1.ran = w0.ran
           /\ w1.row.by = 0 /\ wf' = [wf EXCEPT ![t] = w1]
<1>1. PICK w0 \in Looks(t) :
        /\ w0.stage = "refusing" /\ WriteBack(t, w0.row, "queued")
        /\ wf' = [wf EXCEPT ![t] = [w0 EXCEPT !.stage = "admit", !.row = Unread]]
  BY DEF Queue
<1>2. w0 \in Workflow /\ w0.row \in Row /\ w0.row.by \in 0..Len(tasks)
  BY LooksType DEF Workflow, Fit
<1>3. PICK e \in Task : /\ tasks' = [tasks EXCEPT ![t] = e] /\ Keeps(e, t)
                        /\ e.state \in {tasks[t].state, "queued"}
  <2>1. "queued" \in Active
    BY DEF Active
  <2> QED BY <1>1, <1>2, <2>1, WriteBackRow
<1> DEFINE v == [w0 EXCEPT !.stage = "admit"]
           w1 == [v EXCEPT !.row = Unread]
<1>4. v \in Workflow /\ v.stage = "admit" /\ v.pending = w0.pending /\ v.ran = w0.ran
  BY <1>2 DEF Workflow
<1>5. wf' = [wf EXCEPT ![t] = w1]
  BY <1>1
<1> HIDE DEF v
<1>6. /\ w1 \in Workflow /\ w1.stage = "admit" /\ w1.pending = w0.pending /\ w1.ran = w0.ran
      /\ w1.row.by = 0
  BY <1>4, NewFlow DEF Workflow
<1> HIDE DEF w1
<1> QED BY <1>1, <1>3, <1>5, <1>6

\* A workflow is refused while it is admitted, or cancelled before.
LEMMA DenyRow ==
  ASSUME Types, NEW t \in Ids, Deny(t)
  PROVE  /\ wf[t].stage \in {"admit", "claiming"} /\ UNCHANGED <<tasks, message, call, lock>>
         /\ \E o \in {"cancelled", "failed"} : wf' = [wf EXCEPT ![t] = Ending(wf[t], o)]
<1>1. ASSUME NEW w \in Looks(t), w.stage = "claiming" PROVE wf[t].stage \in {"admit", "claiming"}
  BY <1>1, LooksType DEF Looked
<1> QED BY <1>1 DEF Deny, End, In

\* The stamp of a stop, and what its signal does.  An admission that is about to
\* start the run does not see it (signal_task).
LEMMA StopRow ==
  ASSUME Types, NEW t \in Ids, Stop(t)
  PROVE  \E e \in Task, w \in Workflow :
           /\ Touches(t) /\ tasks'[t] = e /\ wf'[t] = w
           /\ e.state = tasks[t].state /\ Looked(w, t)
           /\ w.stage = "claiming" => e.stop = "late"
<1>1. PICK v \in Looks(t) :
        /\ tasks' = [tasks EXCEPT ![t].stop = IF v.stage = "claiming" THEN "late" ELSE "set"]
        /\ \/ wf' = [wf EXCEPT ![t] = [v EXCEPT !.cancelled = ~In(t, "finalize")]]
           \/ wf' = [wf EXCEPT ![t] = v]
  BY DEF Stop
<1>2. tasks[t] \in Task /\ v \in Workflow /\ Fit(v, Len(tasks)) /\ Looked(v, t)
  BY Elements, LooksType
<1> DEFINE stamp == IF v.stage = "claiming" THEN "late" ELSE "set"
           e == [tasks[t] EXCEPT !.stop = stamp]
           w == [v EXCEPT !.cancelled = ~In(t, "finalize")]
<1>3. stamp \in Stamps /\ (v.stage = "claiming" => stamp = "late")
      /\ tasks' = [tasks EXCEPT ![t] = e]
  BY <1>1 DEF Stamps
<1> HIDE DEF stamp
<1>4. /\ e \in Task /\ e.state = tasks[t].state /\ e.stop = stamp
      /\ e.after = tasks[t].after /\ e.from = tasks[t].from
      /\ e.by = tasks[t].by /\ e.cut = tasks[t].cut
  BY <1>2, <1>3 DEF Task
<1>5. /\ w \in Workflow /\ w.stage = v.stage /\ w.pending = v.pending /\ w.late = v.late
      /\ w.seen = v.seen /\ w.outcome = v.outcome /\ w.ran = v.ran
      /\ w.steps = v.steps /\ w.row = v.row
  BY <1>2 DEF Workflow, In
<1>6. wf' = [wf EXCEPT ![t] = w] \/ wf' = [wf EXCEPT ![t] = v]
  BY <1>1
<1> HIDE DEF e, w
<1>7. Fit(w, Len(tasks)) /\ Looked(w, t)
  BY <1>2, <1>5 DEF Fit, Looked
<1>8. Keeps(e, t)
  BY <1>4, Kept
<1>9. \E x \in {w, v} : Touches(t) /\ tasks'[t] = e /\ wf'[t] = x
  BY <1>2, <1>3, <1>4, <1>5, <1>6, <1>7, <1>8, Replaces
<1> QED BY <1>2, <1>3, <1>4, <1>5, <1>7, <1>9

\* A start that was reported as failed: the state, and what an admission has seen
\* of the row before.
LEMMA RefusedRow ==
  ASSUME Types, NEW c \in Calls, Refused(c)
  PROVE  \E t \in Ids, e \in Task, w \in Workflow :
           /\ t = call[c].task
           /\ Touches(t) /\ tasks'[t] = e /\ wf'[t] = w
           /\ e.state = "failed" /\ e.stop = tasks[t].stop /\ Looked(w, t)
<1> DEFINE t == call[c].task
           e == [tasks[t] EXCEPT !.state = "failed"]
<1>1. t \in Ids
  BY DEF Refused, At, Types, Tasked
<1>2. PICK w \in Looks(t) : wf' = [wf EXCEPT ![t] = w]
  BY DEF Refused
<1>3. w \in Workflow /\ Fit(w, Len(tasks)) /\ Looked(w, t) /\ tasks[t] \in Task
  BY <1>1, Elements, LooksType
<1>4. /\ e \in Task /\ e.state = "failed" /\ e.stop = tasks[t].stop
      /\ e.after = tasks[t].after /\ e.from = tasks[t].from
      /\ e.by = tasks[t].by /\ e.cut = tasks[t].cut
  BY <1>3 DEF Task, Terminal
<1>5. tasks' = [tasks EXCEPT ![t] = e]
  BY DEF Refused
<1> HIDE DEF e
<1>6. Keeps(e, t)
  BY <1>1, <1>4, Kept
<1>7. Touches(t) /\ tasks'[t] = e /\ wf'[t] = w
  BY <1>1, <1>2, <1>3, <1>4, <1>5, <1>6, Replaces
<1> QED BY <1>1, <1>3, <1>4, <1>7

\* A turn that was withdrawn: its state and its stamp, with no admission under way.
LEMMA WithdrawRow ==
  ASSUME Types, NEW t \in Ids, Withdraw(t)
  PROVE  /\ wf[t].stage # "claiming" /\ UNCHANGED <<message, wf, lock, call, mishaps>>
         /\ \E e \in Task :
              tasks' = [tasks EXCEPT ![t] = e] /\ Keeps(e, t) /\ e.state = "cancelled"
<1> DEFINE m == [tasks[t] EXCEPT !.state = "cancelled"]
           e == [m EXCEPT !.stop = "set"]
           f == [tasks EXCEPT ![t].state = "cancelled"]
<1>0. tasks[t] \in Task /\ t \in DOMAIN tasks
  BY Elements DEF Types
<1>1. tasks' = [f EXCEPT ![t] = [f[t] EXCEPT !.stop = "set"]]
  BY DEF Withdraw, Cancelled
<1>2. tasks' = [tasks EXCEPT ![t] = e]
  BY <1>0, <1>1
<1>3. /\ m \in Task /\ m.state = "cancelled"
      /\ m.after = tasks[t].after /\ m.from = tasks[t].from
      /\ m.by = tasks[t].by /\ m.cut = tasks[t].cut
  BY <1>0 DEF Task, Terminal
<1> HIDE DEF m
<1>4. /\ e \in Task /\ e.state = "cancelled"
      /\ e.after = tasks[t].after /\ e.from = tasks[t].from
      /\ e.by = tasks[t].by /\ e.cut = tasks[t].cut
  BY <1>3 DEF Task, Stamps
<1> HIDE DEF e, f
<1>5. Keeps(e, t)
  BY <1>4, Kept
<1>6. wf[t].stage # "claiming" /\ UNCHANGED <<message, wf, lock, call, mishaps>>
  BY DEF Withdraw, Unlocked
<1> QED BY <1>2, <1>4, <1>5, <1>6

\* A step of a run is about its own task, and touches nobody's call or lock.
LEMMA RunTouches ==
  ASSUME Types, NEW t \in Ids, Run(t)
  PROVE  Touches(t) /\ UNCHANGED <<call, lock>>
<1> DEFINE T == tasks[t]
           W == wf[t]
<1>0. T \in Task /\ W \in Workflow /\ t \in 1..Len(tasks) /\ t \in 1..Len(wf)
  BY Elements
<1>s. tasks = [tasks EXCEPT ![t] = T] /\ wf = [wf EXCEPT ![t] = W]
  BY <1>0 DEF Types
<1>w. Fit(W, Len(tasks)) /\ Len(tasks) \in Nat
  BY DEF Types
<1>r. ASSUME NEW e \in Task, NEW w \in Workflow, Keeps(e, t), Fit(w, Len(tasks)),
             tasks' = [tasks EXCEPT ![t] = e], wf' = [wf EXCEPT ![t] = w]
      PROVE  Touches(t)
  BY <1>r, Replaces
<1>k. Keeps(T, t)
  BY Kept
<1>1. CASE Admit(t)
  <2>1. PICK e \in Task, w1 \in Workflow :
          /\ tasks' = [tasks EXCEPT ![t] = e] /\ Keeps(e, t) /\ w1.row.by = 0
          /\ wf' = [wf EXCEPT ![t] = Loop(t, w1, FALSE)]
    BY <1>1, AdmitRow
  <2>2. Loop(t, w1, FALSE) \in Workflow /\ Fit(Loop(t, w1, FALSE), Len(tasks))
    <3>1. w1.row.by \in 0..Len(tasks)
      BY <1>w, <2>1
    <3> QED BY <1>w, <3>1, LoopType
  <2> QED BY <1>1, <1>r, <2>1, <2>2 DEF Admit
<1>2. CASE Queue(t)
  <2>1. PICK e \in Task, w1 \in Workflow :
          /\ tasks' = [tasks EXCEPT ![t] = e] /\ Keeps(e, t)
          /\ w1.stage = "admit" /\ w1.row.by = 0 /\ wf' = [wf EXCEPT ![t] = w1]
    BY <1>2, QueueRow
  <2>2. Fit(w1, Len(tasks))
    BY <1>w, <2>1 DEF Fit
  <2> QED BY <1>2, <1>r, <2>1, <2>2 DEF Queue
<1>3. CASE Deny(t)
  <2>1. PICK o \in {"cancelled", "failed"} : wf' = [wf EXCEPT ![t] = Ending(W, o)]
    BY <1>3, DenyRow
  <2>2. Ending(W, o) \in Workflow /\ Fit(Ending(W, o), Len(tasks))
    BY <1>0, <1>w, EndingType DEF Terminal
  <2>3. UNCHANGED <<tasks, call, lock>>
    BY <1>3, DenyRow
  <2> QED BY <1>0, <1>k, <1>r, <1>s, <2>1, <2>2, <2>3
<1>4. CASE EndStep(t)
  <2>1. PICK done \in BOOLEAN :
          wf' = [wf EXCEPT ![t] = Loop(t, [W EXCEPT !.steps = W.steps + 1], done)]
    BY <1>4 DEF EndStep
  <2> DEFINE v == [W EXCEPT !.steps = W.steps + 1]
             w == Loop(t, v, done)
  <2>s. W.steps + 1 \in 0..MaxSteps
    <3>1. W.steps \in 0..MaxSteps
      BY <1>0 DEF Workflow
    <3>2. W.steps < MaxSteps
      BY <1>4, <1>w DEF EndStep, In, Fit
    <3> QED BY <3>1, <3>2, ConversationsAssumption
  <2>2. v \in Workflow /\ v.row = W.row
    BY <1>0, <2>s DEF Workflow
  <2> HIDE DEF v
  <2>3. w \in Workflow /\ Fit(w, Len(tasks))
    <3>1. v.row.by \in 0..Len(tasks)
      BY <1>w, <2>2 DEF Fit
    <3> QED BY <1>w, <2>2, <3>1, LoopType
  <2> HIDE DEF w
  <2> QED BY <1>0, <1>4, <1>k, <1>r, <1>s, <2>1, <2>3 DEF EndStep, v, w
<1>5. CASE StepFails(t)
  <2>1. PICK o \in {"cancelled", "failed"} : wf' = [wf EXCEPT ![t] = Ending(W, o)]
    BY <1>5 DEF StepFails, End
  <2>2. Ending(W, o) \in Workflow /\ Fit(Ending(W, o), Len(tasks))
    BY <1>0, <1>w, EndingType DEF Terminal
  <2>3. PICK e \in {T, [T EXCEPT !.doubt = TRUE], [T EXCEPT !.doubt = FALSE]} :
          tasks' = [tasks EXCEPT ![t] = e]
    BY <1>5, <1>s DEF StepFails
  <2>4. e \in Task /\ e.after = T.after /\ e.from = T.from /\ e.by = T.by /\ e.cut = T.cut
    BY <1>0 DEF Task
  <2>5. Keeps(e, t)
    BY <2>4, Kept
  <2> QED BY <1>5, <1>r, <2>1, <2>2, <2>3, <2>4, <2>5 DEF StepFails
<1>6. CASE LastLook(t)
  <2> DEFINE w == IF W.pending # {} /\ W.steps < MaxSteps
                    THEN Loop(t, W, FALSE)
                    ELSE [Ending(W, "completed") EXCEPT !.late = W.pending]
  <2>1. wf' = [wf EXCEPT ![t] = w]
    BY <1>6 DEF LastLook
  <2>2. Ending(W, "completed") \in Workflow /\ Fit(Ending(W, "completed"), Len(tasks))
    BY <1>0, <1>w, EndingType DEF Terminal
  <2>3. w \in Workflow /\ Fit(w, Len(tasks))
    <3>1. CASE W.pending # {} /\ W.steps < MaxSteps
      BY <1>0, <1>w, <3>1, LoopType DEF Fit
    <3>2. CASE ~(W.pending # {} /\ W.steps < MaxSteps)
      <4> DEFINE e == Ending(W, "completed")
                 l == [e EXCEPT !.late = W.pending]
      <4> HIDE DEF e
      <4>1. l \in Workflow /\ l.stage = e.stage /\ l.steps = e.steps /\ l.outcome = e.outcome
            /\ l.row = e.row
        BY <1>0, <2>2 DEF Workflow, e
      <4>2. w = l
        BY <3>2 DEF e
      <4> HIDE DEF l, w
      <4> QED BY <2>2, <4>1, <4>2 DEF Fit, e
    <3> QED BY <3>1, <3>2
  <2> HIDE DEF w
  <2> QED BY <1>0, <1>6, <1>k, <1>r, <1>s, <2>1, <2>3 DEF LastLook
<1>7. CASE Finalize(t)
  <2> DEFINE e == [T EXCEPT !.state = W.outcome]
             w1 == [W EXCEPT !.stage = "over"]
             w == [w1 EXCEPT !.outcome = "none"]
  <2>1. tasks' = [tasks EXCEPT ![t] = e] /\ wf' = [wf EXCEPT ![t] = w]
    <3> DEFINE f == [wf EXCEPT ![t].stage = "over"]
    <3>1. wf' = [f EXCEPT ![t] = [f[t] EXCEPT !.outcome = "none"]] /\ t \in DOMAIN wf
      BY <1>0, <1>7 DEF Finalize, Types
    <3> QED BY <1>7, <3>1 DEF Finalize
  <2>2. W.outcome \in Terminal
    BY <1>7, <1>w DEF Finalize, In, Fit
  <2>3. e \in Task /\ e.after = T.after /\ e.from = T.from /\ e.by = T.by /\ e.cut = T.cut
    BY <1>0, <2>2 DEF Task
  <2>4. w1 \in Workflow /\ w1.stage = "over" /\ w1.row = W.row
    BY <1>0 DEF Workflow
  <2> HIDE DEF w1
  <2>5. w \in Workflow /\ w.stage = "over" /\ w.row = W.row
    BY <2>4 DEF Workflow
  <2> HIDE DEF e, w
  <2>6. Fit(w, Len(tasks)) /\ Keeps(e, t)
    BY <1>w, <2>3, <2>5, Kept DEF Fit
  <2> QED BY <1>7, <1>r, <2>1, <2>3, <2>5, <2>6 DEF Finalize
<1> QED BY <1>1, <1>2, <1>3, <1>4, <1>5, <1>6, <1>7 DEF Run

-----------------------------------------------------------------------------
(* Types.                                                                  *)

\* The rows and the workflows; the messages, and the calls, about n tasks.
RowTypes(rows, flows) ==
  /\ rows \in Seq(Task) /\ flows \in Seq(Workflow)
  /\ Len(rows) >= 1 /\ Len(flows) = Len(rows)
  /\ \A t \in 1..Len(rows) :
       /\ Fit(flows[t], Len(rows))
       /\ rows[t].after < t /\ rows[t].from < t /\ rows[t].by \in 0..Len(rows)
MessageTypes(rows, n) ==
  rows \in [Calls -> Message] /\ \A s \in Calls : rows[s].task \in 0..n
CallTypes(calls, n) ==
  /\ calls \in [Calls -> Call]
  /\ \A c \in Calls : /\ calls[c].task \in 0..n
                      /\ calls[c].at \in Tasked => calls[c].task \in 1..n

\* Types, in those parts.
LEMMA TypesParts ==
  Types <=> /\ RowTypes(tasks, wf)
            /\ MessageTypes(message, Len(tasks)) /\ CallTypes(call, Len(tasks))
            /\ lock \in Calls \cup {None} /\ mishaps \in 0..MaxMishaps
  BY DEF Types, RowTypes, MessageTypes, CallTypes, Ids, None

\* The parts of the next state make its types.
LEMMA TypesAfter ==
  ASSUME RowTypes(tasks', wf'), MessageTypes(message', Len(tasks')),
         CallTypes(call', Len(tasks')), lock' \in Calls \cup {None}, mishaps' \in 0..MaxMishaps
  PROVE  Types'
  BY DEF Types, RowTypes, MessageTypes, CallTypes, Ids, None

\* More tasks: the messages and the calls are still about tasks.
LEMMA MoreTasks ==
  ASSUME NEW n \in Nat, NEW rows, NEW calls
  PROVE  /\ MessageTypes(rows, n) => MessageTypes(rows, n + 1)
         /\ CallTypes(calls, n) => CallTypes(calls, n + 1)
  BY DEF MessageTypes, CallTypes, Message, Call

\* A step about one task keeps the rows in type (any commit of a run).
LEMMA TouchTypes ==
  ASSUME Types, NEW t \in Ids, Touches(t)
  PROVE  RowTypes(tasks', wf') /\ Len(tasks') = Len(tasks)
<1>1. RowTypes(tasks, wf)
  BY TypesParts
<1>2. ASSUME NEW u \in 1..Len(tasks)
      PROVE  /\ Fit(wf'[u], Len(tasks)) /\ tasks'[u].after = tasks[u].after
             /\ tasks'[u].from = tasks[u].from /\ tasks'[u].by \in 0..Len(tasks)
  <2>1. CASE u = t
    BY <2>1 DEF Touches, Keeps
  <2>2. CASE u # t
    BY <1>1, <2>2 DEF Touches, Ids, RowTypes
  <2> QED BY <2>1, <2>2
<1> QED BY <1>1, <1>2 DEF RowTypes, Touches

\* So does a commit that opens a turn, whatever the link it stamps on a row.
LEMMA OpenTypes ==
  ASSUME Types, NEW after \in 0..Len(tasks), NEW from \in 0..Len(tasks), Opens(after, from),
         \A t \in Ids : /\ tasks'[t].after = tasks[t].after /\ tasks'[t].from = tasks[t].from
                        /\ tasks'[t].by \in {tasks[t].by, Len(tasks) + 1}
                        /\ Fit(wf'[t], Len(tasks))
  PROVE  RowTypes(tasks', wf') /\ Len(tasks') = Len(tasks) + 1
<1>1. RowTypes(tasks, wf) /\ Len(tasks) \in Nat
  BY TypesParts DEF RowTypes
<1>2. Fit(NoWorkflow, Len(tasks) + 1) /\ NewTask(after, from).by = 0
      /\ NewTask(after, from).after = after /\ NewTask(after, from).from = from
  BY <1>1 DEF Fit, NoWorkflow, Unread, NewTask, None
<1>3. \A t \in Ids : Fit(wf'[t], Len(tasks) + 1)
  <2>1. ASSUME NEW w, Fit(w, Len(tasks)) PROVE Fit(w, Len(tasks) + 1)
    BY <1>1, <2>1 DEF Fit
  <2> QED BY <2>1
<1>4. /\ tasks' \in Seq(Task) /\ wf' \in Seq(Workflow)
      /\ Len(tasks') = Len(tasks) + 1 /\ Len(wf') = Len(tasks')
  BY <1>1 DEF RowTypes, Opens
<1>5. ASSUME NEW u \in 1..(Len(tasks) + 1)
      PROVE  /\ Fit(wf'[u], Len(tasks) + 1) /\ tasks'[u].after < u /\ tasks'[u].from < u
             /\ tasks'[u].by \in 0..(Len(tasks) + 1)
  <2>1. CASE u = Len(tasks) + 1
    BY <1>1, <1>2, <2>1 DEF RowTypes, Opens
  <2>2. CASE u # Len(tasks) + 1
    <3>1. u \in Ids
      BY <1>1, <2>2 DEF Ids
    <3> QED BY <1>1, <1>3, <3>1 DEF RowTypes, Ids
  <2> QED BY <2>1, <2>2
<1> QED BY <1>1, <1>4, <1>5 DEF RowTypes

\* A call becomes one that has a task if its place needs one (send_turn, retry_turn).
LEMMA CallBecomes ==
  ASSUME NEW n \in Nat, CallTypes(call, n), NEW c \in Calls, NEW e \in Call,
         e.task \in 0..n, e.at \in Tasked => e.task \in 1..n,
         call' = [call EXCEPT ![c] = e]
  PROVE  CallTypes(call', n)
  BY DEF CallTypes

\* A handler that goes on keeps its task, which the place it goes to may need.
LEMMA GotoTypes ==
  ASSUME NEW n \in Nat, CallTypes(call, n), NEW c \in Calls, NEW stage \in Stages,
         stage \in Tasked => call[c].task \in 1..n,
         Goto(c, stage)
  PROVE  CallTypes(call', n)
<1> DEFINE e == [call[c] EXCEPT !.at = stage]
<1>1. call[c] \in Call /\ call[c].task \in 0..n
  BY DEF CallTypes
<1>2. e \in Call /\ e.at = stage /\ e.task = call[c].task
  BY <1>1 DEF Call
<1>3. call' = [call EXCEPT ![c] = e]
  BY DEF Goto
<1> HIDE DEF e
<1> QED BY <1>1, <1>2, <1>3, CallBecomes

\* A handler that returns forgets its task.
LEMMA LeaveTypes ==
  ASSUME NEW n \in Nat, CallTypes(call, n), NEW c \in Calls, Leave(c)
  PROVE  CallTypes(call', n)
<1> DEFINE e == [at |-> "over", task |-> None, known |-> FALSE]
<1>1. e \in Call /\ e.task \in 0..n /\ (e.at \in Tasked => e.task \in 1..n)
  BY DEF Call, Stages, Tasked, None
<1>2. call' = [call EXCEPT ![c] = e]
  BY DEF Leave
<1> HIDE DEF e
<1> QED BY <1>1, <1>2, CallBecomes

\* Some of the tasks have a newest one.
LEMMA Greatest ==
  ASSUME NEW n \in Nat, NEW T \in SUBSET (1..n), T # {}
  PROVE  \E m \in T : \A u \in T : u <= m
<1> DEFINE R == OpToRel(<, Nat)
           D == {y \in Nat : \E x \in T : y = n - x}
<1>1. IsWellFoundedOn(R, Nat)
  BY NatLessThanWellFounded
<1>2. D \subseteq Nat /\ D # {}
  <2>1. PICK x \in T : TRUE
    OBVIOUS
  <2>2. x \in 1..n /\ n - x \in Nat
    BY <2>1
  <2>3. n - x \in D
    BY <2>2
  <2> QED BY <2>3
<1>3. \A x, y \in Nat : x < y => <<x, y>> \in R
  BY DEF OpToRel
<1> HIDE DEF R
<1>4. PICK x \in D : \A y \in D : <<y, x>> \notin R
  <2> HIDE DEF D
  <2> QED BY <1>1, <1>2, WFMin
<1>5. PICK m \in T : x = n - m
  OBVIOUS
<1>6. ASSUME NEW u \in T PROVE u <= m
  <2>1. u \in 1..n /\ m \in 1..n /\ n - u \in D
    OBVIOUS
  <2>2. ~(n - u < x)
    BY <1>3, <1>4, <2>1
  <2> QED BY <1>5, <2>1, <2>2
<1> QED BY <1>6

\* The turn another is put behind is one of the conversation's (send_turn).
LEMMA NewestIn ==
  ASSUME NEW n \in Nat, NEW T \in SUBSET (1..n)
  PROVE  Newest(T) \in 0..n
<1>1. CASE T = {}
  BY <1>1 DEF Newest, None
<1>2. CASE T # {}
  <2>1. \E m \in T : \A u \in T : u <= m
    BY <1>2, Greatest
  <2>2. (CHOOSE t \in T : \A u \in T : u <= t) \in T
    BY <2>1
  <2>3. Newest(T) \in T
    BY <1>2, <2>2 DEF Newest
  <2>4. \A x \in T : x \in 0..n
    OBVIOUS
  <2> QED BY <2>3, <2>4, Zenon
<1> QED BY <1>1, <1>2

\* The initial turn has been started, and no call has come in.
LEMMA InitTypes == Init => Types
<1> SUFFICES ASSUME Init PROVE Types
  OBVIOUS
<1> DEFINE e == [NewTask(None, None) EXCEPT !.known = TRUE]
           w == [NoWorkflow EXCEPT !.stage = "admit"]
<1>1. e \in Task /\ e.after = 0 /\ e.from = 0 /\ e.by = 0
  BY DEF NewTask, Task, Active, None, Stamps
<1>2. w \in Workflow /\ Fit(w, 1)
  <2>1. NoWorkflow \in Workflow /\ NoWorkflow.row = Unread
    BY NewFlow DEF NoWorkflow
  <2>2. w \in Workflow /\ w.stage = "admit" /\ w.row = Unread
    BY <2>1 DEF Workflow
  <2> HIDE DEF w
  <2> QED BY <2>2, NewFlow DEF Fit
<1>3. tasks = <<e>> /\ wf = <<w>>
  BY DEF Init
<1> HIDE DEF e, w
<1>4. RowTypes(tasks, wf) /\ Len(tasks) = 1
  BY <1>1, <1>2, <1>3 DEF RowTypes
<1>5. NoMessage \in Message /\ NoMessage.task = 0
  BY DEF NoMessage, Message, None
<1>6. MessageTypes(message, 1)
  BY <1>5 DEF Init, MessageTypes
<1>7. CallTypes(call, 1)
  BY DEF Init, CallTypes, Call, Stages, Tasked, None
<1>8. lock \in Calls \cup {None} /\ mishaps \in 0..MaxMishaps
  BY ConversationsAssumption DEF Init
<1> QED BY <1>4, <1>6, <1>7, <1>8, TypesParts

\* The call that opens a turn is about it from then on.
LEMMA OpenCalls ==
  ASSUME NEW n \in Nat, CallTypes(call, n), NEW c \in Calls, NEW rows, NEW wfs, NEW after,
         NEW from, Len(rows) = n, Open(c, rows, wfs, after, from)
  PROVE  CallTypes(call', n + 1)
<1> DEFINE e == [at |-> "start", task |-> n + 1, known |-> FALSE]
<1>1. e \in Call /\ e.task \in 0..(n + 1) /\ (e.at \in Tasked => e.task \in 1..(n + 1))
  BY DEF Call, Stages
<1>2. call' = [call EXCEPT ![c] = e]
  BY DEF Open
<1>3. CallTypes(call, n + 1) /\ n + 1 \in Nat
  BY MoreTasks
<1> HIDE DEF e
<1> QED BY <1>1, <1>2, <1>3, CallBecomes

\* What a workflow is told keeps the rows in type (a start, a signal).
LEMMA FlowTypes ==
  ASSUME Types, NEW t \in Ids, NEW w \in Workflow, Fit(w, Len(tasks)),
         tasks' = tasks, wf' = [wf EXCEPT ![t] = w]
  PROVE  RowTypes(tasks', wf') /\ Len(tasks') = Len(tasks) /\ Touches(t) /\ wf'[t] = w
<1>1. tasks[t] \in Task /\ tasks = [tasks EXCEPT ![t] = tasks[t]]
  BY Elements DEF Types
<1>2. Touches(t) /\ wf'[t] = w
  <2>1. Keeps(tasks[t], t)
    BY Kept
  <2> QED BY <1>1, <2>1, Replaces
<1> QED BY <1>2, TouchTypes

\* What is recorded on a row keeps the rows in type (a start's result, a stop).
LEMMA TaskTypes ==
  ASSUME Types, NEW t \in Ids, NEW e \in Task, Keeps(e, t),
         tasks' = [tasks EXCEPT ![t] = e], wf' = wf
  PROVE  RowTypes(tasks', wf') /\ Len(tasks') = Len(tasks) /\ Touches(t) /\ tasks'[t] = e
<1>1. wf[t] \in Workflow /\ wf = [wf EXCEPT ![t] = wf[t]] /\ Fit(wf[t], Len(tasks))
  BY Elements DEF Types
<1>2. Touches(t) /\ tasks'[t] = e
  BY <1>1, Replaces
<1> QED BY <1>2, TouchTypes

\* A new turn, or an instruction promoted to one, leaves the other rows alone.
LEMMA TurnOpens ==
  ASSUME Types, NEW s \in Calls, WriteTurn(s) \/ Promote(s)
  PROVE  \E after \in 0..Len(tasks) :
           /\ Opens(after, None)
           /\ \A t \in Ids : /\ tasks'[t] = tasks[t] /\ wf'[t] = wf[t]
                             /\ Fit(wf'[t], Len(tasks))
<1>0. RowTypes(tasks, wf) /\ CallTypes(call, Len(tasks)) /\ Len(tasks) \in Nat
  BY TypesParts DEF RowTypes
<1>1. \E after \in 0..Len(tasks) : Open(s, tasks, wf, after, None)
  BY <1>0 DEF WriteTurn, Promote, CallTypes, None
<1>2. None \in Nat /\ tasks \in Seq(Task) /\ wf \in Seq(Workflow) /\ Len(wf) = Len(tasks)
      /\ \A t \in Ids : Fit(wf[t], Len(tasks))
  BY <1>0 DEF None, RowTypes, Ids
<1> QED BY <1>0, <1>1, <1>2, OpenRows

\* The row of the failed turn is stamped with its successor; if it is being
\* admitted, the admission may have read the row before.
LEMMA ClaimOpens ==
  ASSUME Types, NEW r \in Calls, Claim(r)
  PROVE  LET t == call[r].task
         IN  /\ t \in Ids /\ Opens(None, t)
             /\ \A u \in Ids :
                  tasks'[u] = IF u = t THEN [tasks[t] EXCEPT !.by = Len(tasks) + 1] ELSE tasks[u]
             /\ \A u \in Ids : /\ tasks'[u].after = tasks[u].after
                               /\ tasks'[u].from = tasks[u].from
                               /\ tasks'[u].by = IF u = t THEN Len(tasks) + 1 ELSE tasks[u].by
                               /\ tasks'[u].cut = tasks[u].cut
                               /\ tasks'[u].stop = tasks[u].stop
                               /\ tasks'[u].state = tasks[u].state
                               /\ Fit(wf'[u], Len(tasks))
             /\ \E w \in Workflow :
                  Looked(w, t) /\ \A u \in Ids : wf'[u] = IF u = t THEN w ELSE wf[u]
<1> DEFINE n == Len(tasks)
           t == call[r].task
           e == [tasks[t] EXCEPT !.by = n + 1]
           rows == [tasks EXCEPT ![t].by = n + 1]
<1>0. RowTypes(tasks, wf) /\ CallTypes(call, n) /\ n \in Nat
  BY TypesParts DEF RowTypes
<1>1. t \in 1..n /\ t \in Ids
  BY <1>0 DEF Claim, At, CallTypes, Tasked, Ids
<1>2. /\ e \in Task /\ e.after = tasks[t].after /\ e.from = tasks[t].from /\ e.by = n + 1
      /\ e.cut = tasks[t].cut /\ e.stop = tasks[t].stop /\ e.state = tasks[t].state
  <2>1. tasks[t] \in Task
    BY <1>1, Elements DEF Ids
  <2> QED BY <1>0, <2>1 DEF Task
<1>3. rows = [tasks EXCEPT ![t] = e]
  OBVIOUS
<1>4. PICK w \in Looks(t) : Open(r, rows, [wf EXCEPT ![t] = w], None, t)
  BY DEF Claim
<1>w. w \in Workflow /\ Fit(w, n) /\ Looked(w, t)
  BY <1>1, LooksType
<1>e. e = [tasks[t] EXCEPT !.by = Len(tasks) + 1]
  OBVIOUS
<1> DEFINE wfs == [wf EXCEPT ![t] = w]
<1>x. wfs = [wf EXCEPT ![t] = w]
  OBVIOUS
<1> HIDE DEF e, rows, wfs
<1>5. rows \in Seq(Task) /\ Len(rows) = n
      /\ \A u \in 1..n : rows[u] = IF u = t THEN e ELSE tasks[u]
  BY <1>0, <1>1, <1>2, <1>3, ExceptSeq DEF RowTypes
<1>y. wfs \in Seq(Workflow) /\ Len(wfs) = n
      /\ \A u \in 1..n : wfs[u] = IF u = t THEN w ELSE wf[u]
  BY <1>0, <1>1, <1>w, <1>x, ExceptSeq DEF RowTypes
<1>6. Opens(None, t) /\ \A u \in Ids : tasks'[u] = rows[u] /\ wf'[u] = wfs[u]
  <2>1. Open(r, rows, wfs, None, t) /\ None \in Nat /\ t \in Nat
    BY <1>1, <1>4, <1>x DEF None
  <2> QED BY <1>5, <1>y, <2>1, OpenRows
<1>7. \A u \in Ids : Fit(wf'[u], n)
  BY <1>0, <1>w, <1>y, <1>6 DEF RowTypes, Ids
<1>8. \A u \in Ids : wf'[u] = IF u = t THEN w ELSE wf[u]
  BY <1>y, <1>6 DEF Ids
<1>9. \A u \in Ids : tasks'[u] = IF u = t THEN e ELSE tasks[u]
  BY <1>5, <1>6 DEF Ids
<1> QED BY <1>1, <1>2, <1>6, <1>7, <1>8, <1>9, <1>e, <1>w

\* Sending a turn keeps the types (_run_turn).
LEMMA SendTypes ==
  ASSUME Types, NEW s \in Calls, Send(s)
  PROVE  Types'
<1> DEFINE n == Len(tasks)
<1>0. RowTypes(tasks, wf) /\ MessageTypes(message, n) /\ CallTypes(call, n)
      /\ lock \in Calls \cup {None} /\ mishaps \in 0..MaxMishaps /\ n \in Nat
  BY TypesParts DEF RowTypes
<1>c. call[s] \in Call /\ message[s] \in Message
  BY <1>0 DEF CallTypes, MessageTypes
<1>1. CASE Begin(s)
  <2>1. PICK turn \in 1..s :
          \/ Leave(s) /\ UNCHANGED <<lock, message>>
          \/ /\ lock' = s
             /\ message' = [message EXCEPT ![s].turn = turn]
             /\ \E queue \in BOOLEAN :
                  LET t == IF queue THEN Newest(InState(Active)) ELSE Current
                  IN  call' = [call EXCEPT ![s] =
                        [at |-> IF queue \/ t = None THEN "write" ELSE "signal",
                         task |-> t, known |-> t # None /\ tasks[t].known]]
    BY <1>1 DEF Begin
  <2>2. UNCHANGED <<tasks, wf, mishaps>>
    BY <1>1 DEF Begin
  <2>3. CASE Leave(s) /\ UNCHANGED <<lock, message>>
    <3>1. CallTypes(call', n)
      BY <1>0, <2>3, LeaveTypes
    <3> QED BY <1>0, <2>2, <2>3, <3>1, TypesAfter
  <2>4. CASE ~(Leave(s) /\ UNCHANGED <<lock, message>>)
    <3>1. PICK t \in 0..n, queue \in BOOLEAN :
            call' = [call EXCEPT ![s] =
              [at |-> IF queue \/ t = None THEN "write" ELSE "signal",
               task |-> t, known |-> t # None /\ tasks[t].known]]
      <4>1. ASSUME NEW S PROVE Newest(InState(S)) \in 0..n
        <5>1. InState(S) \in SUBSET (1..n)
          BY DEF InState, Ids
        <5> QED BY <1>0, <5>1, NewestIn
      <4>2. Current \in 0..n /\ Newest(InState(Active)) \in 0..n
        BY <4>1 DEF Current
      <4> QED BY <2>1, <2>4, <4>2
    <3> DEFINE e == [at |-> IF queue \/ t = None THEN "write" ELSE "signal",
                     task |-> t, known |-> t # None /\ tasks[t].known]
    <3>2. e.at \in {"write", "signal"} /\ e.task = t /\ e.known \in BOOLEAN
          /\ (e.at \in Tasked => t \in 1..n)
      BY <1>0 DEF Tasked, None
    <3>3. e \in Call /\ e.task \in 0..n /\ (e.at \in Tasked => e.task \in 1..n)
      BY <1>0, <3>2 DEF Call, Stages
    <3> HIDE DEF e
    <3>4. CallTypes(call', n)
      BY <1>0, <3>1, <3>3, CallBecomes DEF e
    <3>5. MessageTypes(message', n)
      <4>1. [message[s] EXCEPT !.turn = turn] \in Message
        BY <1>c, <2>1 DEF Message, Calls
      <4>2. message' = [message EXCEPT ![s] = [message[s] EXCEPT !.turn = turn]]
        BY <2>1, <2>4
      <4>3. [message[s] EXCEPT !.turn = turn].task = message[s].task
        BY <1>c DEF Message
      <4> QED BY <1>0, <4>1, <4>2, <4>3 DEF MessageTypes
    <3>6. lock' \in Calls \cup {None}
      BY <2>1, <2>4
    <3> QED BY <1>0, <2>2, <3>4, <3>5, <3>6, TypesAfter
  <2> QED BY <2>3, <2>4
<1>2. CASE WriteTurn(s)
  <2>1. Open(s, tasks, wf, call[s].task, None) /\ Len(tasks) = n /\ None \in 0..n
    BY <1>0, <1>2 DEF WriteTurn, None
  <2>2. PICK after \in 0..n :
          /\ Opens(after, None)
          /\ \A t \in Ids : tasks'[t] = tasks[t] /\ Fit(wf'[t], n)
    BY <1>2, TurnOpens
  <2>3. RowTypes(tasks', wf') /\ Len(tasks') = n + 1
    BY <2>1, <2>2, OpenTypes
  <2>4. CallTypes(call', n + 1)
    BY <1>0, <2>1, OpenCalls
  <2>5. MessageTypes(message', n + 1)
    <3> DEFINE e == [message[s] EXCEPT !.task = n + 1]
    <3>1. e \in Message /\ e.task \in 0..(n + 1)
      BY <1>0, <1>c DEF Message
    <3>2. message' = [message EXCEPT ![s] = e]
      BY <1>2 DEF WriteTurn
    <3> HIDE DEF e
    <3> QED BY <1>0, <3>1, <3>2, MoreTasks DEF MessageTypes
  <2>6. lock' \in Calls \cup {None} /\ mishaps' = mishaps
    BY <1>2 DEF WriteTurn
  <2> QED BY <1>0, <2>3, <2>4, <2>5, <2>6, TypesAfter
<1>3. CASE WriteInstruction(s)
  <2> DEFINE e == [message[s] EXCEPT !.task = call[s].task, !.type = "instruction",
                                     !.delivery = "pending"]
  <2>1. e \in Message /\ e.task \in 0..n
    BY <1>0, <1>c DEF Message, CallTypes, Call
  <2>2. message' = [message EXCEPT ![s] = e]
    BY <1>3 DEF WriteInstruction
  <2>3. lock' = None /\ UNCHANGED <<tasks, wf, call, mishaps>>
    BY <1>3 DEF WriteInstruction
  <2> HIDE DEF e
  <2>4. MessageTypes(message', n)
    BY <1>0, <2>1, <2>2 DEF MessageTypes
  <2> QED BY <1>0, <2>3, <2>4, TypesAfter
<1>4. CASE Signal(s)
  <2> DEFINE t == call[s].task
  <2>1. UNCHANGED <<tasks, message, lock>> /\ mishaps' \in 0..MaxMishaps /\ t \in 1..n
    BY <1>0, <1>4, ConversationsAssumption DEF Signal, Mishap, CallTypes, Tasked, At
  <2>2. PICK stage \in {"mark", "promote"} : Goto(s, stage)
    BY <1>4 DEF Signal
  <2>3. CallTypes(call', n)
    BY <1>0, <2>1, <2>2, GotoTypes DEF Stages
  <2>4. PICK w \in Workflow : Fit(w, n) /\ wf' = [wf EXCEPT ![t] = w]
    <3>1. t \in Ids /\ wf[t] \in Workflow /\ Fit(wf[t], n) /\ wf = [wf EXCEPT ![t] = wf[t]]
      BY <2>1, Elements DEF Types, Ids
    <3>2. CASE UNCHANGED wf
      BY <3>1, <3>2
    <3>3. CASE Hear(t, s)
      <4> DEFINE wl == [wf[t] EXCEPT !.late = wf[t].late \cup {s}]
                 wp == [wf[t] EXCEPT !.pending = wf[t].pending \cup {s}]
      <4>1. wl \in Workflow /\ Fit(wl, n) /\ wp \in Workflow /\ Fit(wp, n)
        BY <3>1 DEF Workflow, Fit
      <4>2. wf' = [wf EXCEPT ![t] = wl] \/ wf' = [wf EXCEPT ![t] = wp]
        BY <3>3 DEF Hear
      <4> HIDE DEF wl, wp
      <4> QED BY <4>1, <4>2
    <3> QED BY <1>4, <3>2, <3>3 DEF Signal
  <2>5. RowTypes(tasks', wf') /\ Len(tasks') = n
    BY <2>1, <2>4, FlowTypes DEF Ids
  <2> QED BY <1>0, <2>1, <2>3, <2>5, TypesAfter
<1>5. CASE Mark(s)
  <2> DEFINE e == [message[s] EXCEPT !.delivery =
                     IF message[s].delivery = "pending" THEN "delivered" ELSE message[s].delivery]
  <2>1. e \in Message /\ e.task = message[s].task
    BY <1>c DEF Message
  <2>2. message' = [message EXCEPT ![s] = e]
    BY <1>5 DEF Mark
  <2>3. Leave(s) /\ UNCHANGED <<tasks, wf, lock, mishaps>>
    BY <1>5 DEF Mark
  <2> HIDE DEF e
  <2>4. MessageTypes(message', n)
    BY <1>0, <2>1, <2>2 DEF MessageTypes
  <2>5. CallTypes(call', n)
    BY <1>0, <2>3, LeaveTypes
  <2> QED BY <1>0, <2>3, <2>4, <2>5, TypesAfter
<1>6. CASE Promote(s)
  <2>1. Open(s, tasks, wf, None, None) /\ None \in 0..n
    BY <1>0, <1>6 DEF Promote, None
  <2>2. PICK after \in 0..n :
          /\ Opens(after, None)
          /\ \A t \in Ids : tasks'[t] = tasks[t] /\ Fit(wf'[t], n)
    BY <1>6, TurnOpens
  <2>3. RowTypes(tasks', wf') /\ Len(tasks') = n + 1
    BY <2>1, <2>2, OpenTypes
  <2>4. CallTypes(call', n + 1)
    BY <1>0, <2>1, OpenCalls
  <2>5. MessageTypes(message', n + 1)
    <3> DEFINE m == [message[s] EXCEPT !.task = n + 1]
               e == [m EXCEPT !.type = "text"]
    <3>0. m \in Message /\ m.task \in 0..(n + 1)
      BY <1>0, <1>c DEF Message
    <3>1. e \in Message /\ e.task \in 0..(n + 1)
      <4> HIDE DEF m
      <4> QED BY <3>0 DEF Message
    <3>2. message' = [message EXCEPT ![s] = e]
      BY <1>6 DEF Promote
    <3> HIDE DEF e
    <3> QED BY <1>0, <3>1, <3>2, MoreTasks DEF MessageTypes
  <2>6. UNCHANGED <<lock, mishaps>>
    BY <1>6 DEF Promote
  <2> QED BY <1>0, <2>3, <2>4, <2>5, <2>6, TypesAfter
<1> QED BY <1>1, <1>2, <1>3, <1>4, <1>5, <1>6 DEF Send

\* So does picking a failed turn back up (retry_turn).
LEMMA ResumeTypes ==
  ASSUME Types, NEW r \in Calls, Resume(r)
  PROVE  Types'
<1> DEFINE n == Len(tasks)
<1>0. RowTypes(tasks, wf) /\ MessageTypes(message, n) /\ CallTypes(call, n)
      /\ lock \in Calls \cup {None} /\ mishaps \in 0..MaxMishaps /\ n \in Nat
  BY TypesParts DEF RowTypes
<1>c. call[r] \in Call
  BY <1>0 DEF CallTypes
<1>1. CASE Press(r)
  <2>1. UNCHANGED <<tasks, message, wf, lock, mishaps>>
    BY <1>1 DEF Press
  <2>2. CASE Leave(r)
    BY <1>0, <2>1, <2>2, LeaveTypes, TypesAfter
  <2>3. CASE ~Leave(r)
    <3> DEFINE m == [call[r] EXCEPT !.at = "claim"]
               e == [m EXCEPT !.task = n]
    <3>1. call' = [call EXCEPT ![r] = e]
      <4> DEFINE f == [call EXCEPT ![r].at = "claim"]
      <4>1. call' = [f EXCEPT ![r] = [f[r] EXCEPT !.task = n]]
        BY <1>1, <2>3 DEF Press
      <4>2. call \in [Calls -> Call]
        BY <1>0 DEF CallTypes
      <4> QED BY <4>1, <4>2
    <3>2. m \in Call
      BY <1>c DEF Call, Stages
    <3>3. e \in Call /\ e.task = n
      <4> HIDE DEF m
      <4> QED BY <1>0, <3>2 DEF Call
    <3> HIDE DEF e
    <3>4. e.task \in 0..n /\ (e.at \in Tasked => e.task \in 1..n)
      BY <1>0, <3>3 DEF RowTypes
    <3>5. CallTypes(call', n)
      BY <1>0, <3>1, <3>3, <3>4, CallBecomes
    <3> QED BY <1>0, <2>1, <3>5, TypesAfter
  <2> QED BY <2>2, <2>3
<1>2. CASE Claim(r)
  <2> DEFINE t == call[r].task
  <2>0. t \in Ids
    BY <1>2, ClaimOpens
  <2>1. t \in Ids /\ t \in 0..n /\ None \in 0..n
    BY <1>0, <2>0 DEF Ids, None
  <2>2. Opens(None, t) /\ \A u \in Ids : /\ tasks'[u].after = tasks[u].after
                                         /\ tasks'[u].from = tasks[u].from
                                         /\ tasks'[u].by \in {tasks[u].by, n + 1}
                                         /\ Fit(wf'[u], n)
    BY <1>2, ClaimOpens
  <2>3. RowTypes(tasks', wf') /\ Len(tasks') = n + 1
    BY <2>1, <2>2, OpenTypes
  <2>4. UNCHANGED <<lock, mishaps>>
    BY <1>2 DEF Claim
  <2>5. CallTypes(call', n + 1)
    <3>1. PICK rows, wfs : Open(r, rows, wfs, None, t) /\ Len(rows) = n
      <4>1. Len([tasks EXCEPT ![t].by = n + 1]) = n
        BY <1>0, <2>1 DEF RowTypes, Ids
      <4> QED BY <1>2, <4>1 DEF Claim
    <3> QED BY <1>0, <3>1, OpenCalls
  <2>6. MessageTypes(message', n + 1)
    <3>1. message' = [s \in Calls |->
            IF message[s].task = t /\ message[s].type = "text"
              THEN [message[s] EXCEPT !.task = n + 1] ELSE message[s]]
      BY <1>2 DEF Claim
    <3>2. ASSUME NEW s \in Calls
          PROVE  /\ [message[s] EXCEPT !.task = n + 1] \in Message
                 /\ [message[s] EXCEPT !.task = n + 1].task = n + 1
      <4>1. message[s] \in Message
        BY <1>0 DEF MessageTypes
      <4>2. ASSUME NEW m \in Message, NEW k \in Nat
            PROVE  [m EXCEPT !.task = k] \in Message /\ [m EXCEPT !.task = k].task = k
        BY DEF Message
      <4>3. n + 1 \in Nat
        BY <1>0 DEF RowTypes
      <4> QED BY <4>1, <4>2, <4>3
    <3> QED BY <1>0, <3>1, <3>2 DEF MessageTypes
  <2> QED BY <1>0, <2>3, <2>4, <2>5, <2>6, TypesAfter
<1>3. CASE ClaimRefused(r)
  BY <1>0, <1>3, LeaveTypes, TypesAfter DEF ClaimRefused
<1> QED BY <1>1, <1>2, <1>3 DEF Resume

\* So do starting its workflow and what is recorded of the start (start_workflow).
LEMMA LaunchTypes ==
  ASSUME Types, NEW c \in Calls, Launch(c)
  PROVE  Types' /\ Len(tasks') = Len(tasks) /\ Touches(call[c].task)
<1> DEFINE n == Len(tasks)
           t == call[c].task
<1>0. RowTypes(tasks, wf) /\ MessageTypes(message, n) /\ CallTypes(call, n)
      /\ lock \in Calls \cup {None} /\ mishaps \in 0..MaxMishaps /\ n \in Nat
  BY TypesParts DEF RowTypes
<1>t. t \in 1..n /\ t \in Ids
  BY <1>0 DEF Launch, Start, Record, Refused, At, CallTypes, Tasked, Ids
<1>e. tasks[t] \in Task /\ wf[t] \in Workflow /\ Fit(wf[t], n)
  BY <1>t, Elements DEF Types
<1>1. CASE Start(c)
  <2> DEFINE w == [wf[t] EXCEPT !.stage = "admit"]
  <2>1. w \in Workflow /\ Fit(w, n)
    BY <1>e DEF Workflow, Fit
  <2>2. wf' = [wf EXCEPT ![t] = w] \/ wf' = [wf EXCEPT ![t] = wf[t]]
    BY <1>0, <1>1 DEF Start, RowTypes
  <2>3. UNCHANGED <<tasks, message, lock>> /\ mishaps' \in 0..MaxMishaps
    BY <1>0, <1>1, ConversationsAssumption DEF Start, Mishap
  <2> HIDE DEF w
  <2>4. RowTypes(tasks', wf') /\ Len(tasks') = n /\ Touches(t)
    BY <1>t, <1>e, <2>1, <2>2, <2>3, FlowTypes
  <2>5. PICK stage \in {"record", "refused"} : Goto(c, stage)
    BY <1>1 DEF Start
  <2>6. CallTypes(call', n)
    BY <1>0, <1>t, <2>5, GotoTypes DEF Stages
  <2> QED BY <1>0, <2>3, <2>4, <2>6, TypesAfter
<1>2. CASE Record(c)
  <2> DEFINE e == [tasks[t] EXCEPT !.known = TRUE]
  <2>1. e \in Task /\ e.after = tasks[t].after /\ e.from = tasks[t].from /\ e.by = tasks[t].by
        /\ e.cut = tasks[t].cut
    BY <1>e DEF Task
  <2>2. tasks' = [tasks EXCEPT ![t] = e] /\ UNCHANGED <<message, wf, lock, mishaps>> /\ Leave(c)
    BY <1>2 DEF Record
  <2> HIDE DEF e
  <2>3. RowTypes(tasks', wf') /\ Len(tasks') = n /\ Touches(t)
    BY <1>t, <2>1, <2>2, Kept, TaskTypes
  <2> QED BY <1>0, <2>2, <2>3, LeaveTypes, TypesAfter
<1>3. CASE Refused(c)
  <2>1. Touches(t)
    BY <1>3, RefusedRow
  <2>2. RowTypes(tasks', wf') /\ Len(tasks') = n
    BY <1>t, <2>1, TouchTypes
  <2>3. UNCHANGED <<message, lock, mishaps>> /\ Leave(c)
    BY <1>3 DEF Refused
  <2> QED BY <1>0, <2>1, <2>2, <2>3, LeaveTypes, TypesAfter
<1> QED BY <1>1, <1>2, <1>3 DEF Launch

\* What the people at a turn do, its run does, or a mishap, keeps them too.
LEMMA TaskStepTypes ==
  ASSUME Types, NEW t \in Ids, Stop(t) \/ Withdraw(t) \/ Run(t)
  PROVE  Types' /\ Len(tasks') = Len(tasks) /\ Touches(t) /\ UNCHANGED call
<1> DEFINE n == Len(tasks)
<1>0. RowTypes(tasks, wf) /\ MessageTypes(message, n) /\ CallTypes(call, n)
      /\ lock \in Calls \cup {None} /\ mishaps \in 0..MaxMishaps /\ n \in Nat
  BY TypesParts DEF RowTypes
<1>e. tasks[t] \in Task /\ wf[t] \in Workflow /\ Fit(wf[t], n)
  BY Elements DEF Types
<1>1. CASE Stop(t)
  <2>1. Touches(t)
    BY <1>1, StopRow
  <2>2. RowTypes(tasks', wf') /\ Len(tasks') = n
    BY <2>1, TouchTypes
  <2>3. UNCHANGED <<message, lock, call, mishaps>>
    BY <1>1 DEF Stop
  <2> QED BY <1>0, <2>1, <2>2, <2>3, TypesAfter
<1>2. CASE Withdraw(t)
  <2>1. RowTypes(tasks', wf') /\ Len(tasks') = n /\ Touches(t)
    BY <1>2, WithdrawRow, TaskTypes
  <2>2. UNCHANGED <<message, wf, lock, call, mishaps>>
    BY <1>2, WithdrawRow
  <2> QED BY <1>0, <2>1, <2>2, TypesAfter
<1>3. CASE Run(t)
  <2>1. Touches(t) /\ UNCHANGED <<call, lock>>
    BY <1>3, RunTouches
  <2>2. RowTypes(tasks', wf') /\ Len(tasks') = n
    BY <2>1, TouchTypes
  <2>3. MessageTypes(message', n)
    <3>1. CASE UNCHANGED message
      BY <1>0, <3>1
    <3>2. CASE Acknowledge(t)
      <4>1. ASSUME NEW s \in Calls
            PROVE  /\ [message[s] EXCEPT !.delivery = "consumed"] \in Message
                   /\ [message[s] EXCEPT !.delivery = "consumed"].task = message[s].task
        BY <1>0 DEF MessageTypes, Message
      <4> QED BY <1>0, <3>2, <4>1 DEF MessageTypes, Acknowledge
    <3> QED BY <1>3, <3>1, <3>2
            DEF Run, Admit, Queue, Deny, EndStep, StepFails, LastLook, Finalize
  <2>4. mishaps' \in 0..MaxMishaps
    <3>1. UNCHANGED mishaps \/ Mishap("failure")
      BY <1>3 DEF Run, Admit, Queue, Deny, EndStep, StepFails, LastLook, Finalize
    <3> QED BY <1>0, <3>1, ConversationsAssumption DEF Mishap
  <2> QED BY <1>0, <2>1, <2>2, <2>3, <2>4, TypesAfter
<1> QED BY <1>1, <1>2, <1>3

\* The API dies between two commits, and its call forgets everything.
LEMMA CrashTypes ==
  ASSUME Types, NEW c \in Calls, Crash(c)
  PROVE  Types' /\ Len(tasks') = Len(tasks)
<1> DEFINE n == Len(tasks)
           e == [at |-> "dead", task |-> None, known |-> FALSE]
<1>0. RowTypes(tasks, wf) /\ MessageTypes(message, n) /\ CallTypes(call, n)
      /\ lock \in Calls \cup {None} /\ mishaps \in 0..MaxMishaps /\ n \in Nat
  BY TypesParts DEF RowTypes
<1>1. e \in Call /\ e.task \in 0..n /\ (e.at \in Tasked => e.task \in 1..n)
  BY <1>0 DEF Call, Stages, Tasked, None
<1>2. call' = [call EXCEPT ![c] = e] /\ UNCHANGED <<tasks, message, wf, lock>>
      /\ mishaps' \in 0..MaxMishaps
  BY <1>0, ConversationsAssumption DEF Crash, Mishap
<1> HIDE DEF e
<1> QED BY <1>0, <1>1, <1>2, CallBecomes, TypesAfter

\* Every step keeps the types.
LEMMA TypesStep == Types /\ [Next]_vars => Types'
<1> SUFFICES ASSUME Types, [Next]_vars PROVE Types'
  OBVIOUS
<1>1. ASSUME NEW c \in Calls, Send(c) \/ Resume(c) \/ Launch(c) \/ Crash(c) PROVE Types'
  BY <1>1, SendTypes, ResumeTypes, LaunchTypes, CrashTypes
<1>2. ASSUME NEW t \in Ids, Stop(t) \/ Withdraw(t) \/ Run(t) PROVE Types'
  BY <1>2, TaskStepTypes
<1>3. CASE UNCHANGED vars
  BY <1>3 DEF vars, Types, Ids, Fit
<1> QED BY <1>1, <1>2, <1>3 DEF Next

-----------------------------------------------------------------------------
(* No more turns than calls.                                               *)

\* A call opens one turn at most: it never comes back from having opened one.
LEMMA OpensOnce ==
  ASSUME Types, [Next]_vars
  PROVE  /\ \A c \in Calls : Opened(c) => Opened(c)'
         /\ \/ Len(tasks') = Len(tasks)
            \/ /\ Len(tasks') = Len(tasks) + 1
               /\ \E c \in Calls : ~Opened(c) /\ Opened(c)'
<1>0. call \in [Calls -> Call] /\ Len(tasks) \in Nat
  BY DEF Types
<1>1. ASSUME NEW c \in Calls, Begin(c) \/ Press(c)
      PROVE  /\ Len(tasks') = Len(tasks) /\ ~Opened(c)
             /\ \A d \in Calls \ {c} : call'[d] = call[d]
  <2>1. At(c, "idle") /\ UNCHANGED tasks
    BY <1>1 DEF Begin, Press, Arrives
  <2>2. \A d \in Calls \ {c} : call'[d] = call[d]
    <3>1. CASE Begin(c)
      <4>1. \E e : call' = [call EXCEPT ![c] = e]
        BY <3>1 DEF Begin, Leave
      <4> QED BY <1>0, <4>1
    <3>2. CASE Press(c)
      BY <1>0, <3>2 DEF Press, Leave
    <3> QED BY <1>1, <3>1, <3>2
  <2> QED BY <2>1, <2>2 DEF Opened, At
<1>2. ASSUME NEW c \in Calls,
             WriteInstruction(c) \/ Signal(c) \/ Mark(c) \/ ClaimRefused(c) \/ Launch(c) \/ Crash(c)
      PROVE  /\ Len(tasks') = Len(tasks) /\ (Opened(c) => Opened(c)')
             /\ \A d \in Calls \ {c} : call'[d] = call[d]
  <2>1. Len(tasks') = Len(tasks)
    BY <1>2, LaunchTypes, CrashTypes DEF WriteInstruction, Signal, Mark, ClaimRefused
  <2>2. CASE call' = call
    BY <2>1, <2>2 DEF Opened
  <2>3. CASE At(c, "signal") /\ \E stage \in {"mark", "promote"} : Goto(c, stage)
    BY <1>0, <2>1, <2>3 DEF Opened, At, Goto
  <2>4. CASE \E stage \in {"record", "refused"} : Goto(c, stage)
    <3>1. call'[c].at \in {"record", "refused"}
      BY <1>0, <2>4 DEF Goto, Call
    <3> QED BY <1>0, <2>1, <2>4, <3>1 DEF Opened, Goto
  <2>5. CASE Leave(c)
    BY <1>0, <2>1, <2>5 DEF Opened, Leave
  <2>6. CASE Crash(c)
    BY <1>0, <2>1, <2>6 DEF Opened, Crash
  <2> QED BY <1>2, <2>2, <2>3, <2>4, <2>5, <2>6
          DEF WriteInstruction, Signal, Mark, ClaimRefused, Launch, Start, Record, Refused
<1>3. ASSUME NEW c \in Calls, WriteTurn(c) \/ Promote(c) \/ Claim(c)
      PROVE  /\ Len(tasks') = Len(tasks) + 1 /\ ~Opened(c) /\ Opened(c)'
             /\ \A d \in Calls \ {c} : call'[d] = call[d]
  <2>1. \E rows, wfs, after, from : Open(c, rows, wfs, after, from)
    BY <1>3 DEF WriteTurn, Promote, Claim
  <2>2. Len(tasks') = Len(tasks) + 1
    BY <1>3, TurnOpens, ClaimOpens DEF Opens
  <2>3. ~Opened(c)
    BY <1>3 DEF Opened, WriteTurn, Promote, Claim, At
  <2> QED BY <1>0, <2>1, <2>2, <2>3 DEF Opened, Open
<1>4. ASSUME NEW t \in Ids, Stop(t) \/ Withdraw(t) \/ Run(t)
      PROVE  Len(tasks') = Len(tasks) /\ UNCHANGED call
  BY <1>4, TaskStepTypes
<1>5. CASE UNCHANGED vars
  BY <1>5 DEF vars, Opened
<1> QED BY <1>1, <1>2, <1>3, <1>4, <1>5 DEF Next, Send, Resume, Opened

\* So there is a turn for each call that opened one at most, and the first.
LEMMA BoundedStep == Types /\ Bounded /\ [Next]_vars => Bounded'
<1> SUFFICES ASSUME Types, Bounded, [Next]_vars PROVE Bounded'
  OBVIOUS
<1> DEFINE A == {c \in Calls : Opened(c)}
           B == {c \in Calls : Opened(c)'}
<1>1. IsFiniteSet(Calls)
  BY FS_Interval, ConversationsAssumption DEF Calls
<1>2. IsFiniteSet(B) /\ B \subseteq Calls
  <2>1. B \subseteq Calls
    OBVIOUS
  <2> HIDE DEF B
  <2> QED BY <1>1, <2>1, FS_Subset
<1>3. A \subseteq B
  BY OpensOnce
<1>4. IsFiniteSet(A) /\ Cardinality(A) \in Nat /\ Cardinality(B) \in Nat
      /\ Cardinality(A) <= Cardinality(B) /\ (Cardinality(A) = Cardinality(B) => A = B)
  <2> HIDE DEF A, B
  <2> QED BY <1>2, <1>3, FS_Subset, FS_CardinalityType
<1>5. Len(tasks) \in Nat /\ Len(tasks) <= 1 + Cardinality(A)
  BY DEF Types, Bounded
<1>6. CASE Len(tasks') = Len(tasks)
  <2>1. Len(tasks') <= 1 + Cardinality(B)
    <3> HIDE DEF A, B
    <3> QED BY <1>4, <1>5, <1>6
  <2> QED BY <2>1 DEF Bounded
<1>7. CASE Len(tasks') = Len(tasks) + 1 /\ \E c \in Calls : ~Opened(c) /\ Opened(c)'
  <2>1. A # B
    BY <1>7
  <2>2. Len(tasks') <= 1 + Cardinality(B)
    <3> HIDE DEF A, B
    <3> QED BY <1>4, <1>5, <1>7, <2>1
  <2> QED BY <2>2 DEF Bounded
<1> QED BY <1>6, <1>7, OpensOnce

\* The types, and the bound on the turns, hold in every reachable state.
LEMMA TypesHold == Spec => [](Types /\ Bounded)
<1>1. Init => Types /\ Bounded
  <2> SUFFICES ASSUME Init PROVE Types /\ Bounded
    OBVIOUS
  <2>1. {c \in Calls : Opened(c)} = {}
    BY DEF Init, Opened
  <2>2. Len(tasks) = 1
    BY DEF Init
  <2>3. Cardinality({c \in Calls : Opened(c)}) = 0
    BY <2>1, FS_EmptySet
  <2> QED BY <2>2, <2>3, InitTypes DEF Bounded
<1> QED BY <1>1, TypesStep, BoundedStep, PTL DEF Spec

\* Every reachable state is one the rows, the messages and the calls can be in:
\* a call is about a task of the conversation, a turn is put behind an older
\* one, and there is one turn at most for each request that was delivered.
THEOREM TypeCorrect == Spec => []TypeOK
<1>1. Types /\ Bounded => TypeOK
  <2> SUFFICES ASSUME Types, Bounded PROVE TypeOK
    OBVIOUS
  <2>1. IsFiniteSet(Calls) /\ Cardinality(Calls) = MaxCalls
    BY FS_Interval, ConversationsAssumption DEF Calls
  <2>2. {c \in Calls : Opened(c)} \subseteq Calls
    OBVIOUS
  <2>3. Cardinality({c \in Calls : Opened(c)}) <= MaxCalls
        /\ Cardinality({c \in Calls : Opened(c)}) \in Nat
    BY <2>1, <2>2, FS_Subset, FS_CardinalityType
  <2>4. Len(tasks) <= 1 + MaxCalls
    BY <2>3, ConversationsAssumption DEF Types, Bounded
  <2>5. wf \in [Ids -> Workflow]
    BY DEF Types, Ids
  <2> QED BY <2>4, <2>5 DEF TypeOK, Types
<1> QED BY <1>1, TypesHold, PTL

-----------------------------------------------------------------------------
(* A turn makes one message.                                               *)

\* A step that begins no turn, writes none and leaves the lock alone.
LEMMA QuietTurns ==
  ASSUME TurnParts, lock' = lock,
         \A s \in Calls : /\ message'[s].turn = message[s].turn
                          /\ message'[s].task = None <=> message[s].task = None,
         \A c \in Calls : \/ call'[c].at = call[c].at
                          \/ /\ call'[c].at \notin {"idle", "write", "signal"}
                             /\ call'[c].at \in {"mark", "promote"} => message'[c].task # None
  PROVE  TurnParts'
  BY DEF TurnParts, Guarded, At, OneTurnPerId

\* One call moves on, the others stay where they are (every handler).
LEMMA OneMoves ==
  ASSUME Types, NEW c \in Calls, NEW stage \in Stages, Goto(c, stage) \/ Leave(c)
  PROVE  /\ \A d \in Calls \ {c} : call'[d] = call[d]
         /\ call'[c].at \in {stage, "over"}
<1>1. call \in [Calls -> Call]
  BY DEF Types
<1>2. CASE Goto(c, stage)
  <2>1. call[c] \in Call /\ [call[c] EXCEPT !.at = stage].at = stage
    BY <1>1 DEF Call
  <2> QED BY <1>1, <1>2, <2>1 DEF Goto
<1>3. CASE Leave(c)
  BY <1>1, <1>3 DEF Leave
<1> QED BY <1>2, <1>3

\* A request begins by going to write its turn, or its instruction, or by leaving.
LEMMA BeginMoves ==
  ASSUME Types, NEW s \in Calls, Begin(s)
  PROVE  /\ \A d \in Calls \ {s} : call'[d] = call[d]
         /\ call'[s].at \in {"write", "signal", "over"}
<1>0. call \in [Calls -> Call]
  BY DEF Types
<1>1. CASE Leave(s)
  BY <1>0, <1>1 DEF Leave
<1>2. CASE ~Leave(s)
  <2>1. ASSUME NEW queue \in BOOLEAN, NEW t, NEW k
        PROVE  [at |-> IF queue \/ t = None THEN "write" ELSE "signal",
                task |-> t, known |-> k].at \in {"write", "signal"}
    OBVIOUS
  <2>2. PICK queue \in BOOLEAN :
          \E t, k :
            call' = [call EXCEPT ![s] = [at |-> IF queue \/ t = None THEN "write" ELSE "signal",
                                         task |-> t, known |-> k]]
    BY <1>2, Zenon DEF Begin
  <2>3. PICK t, k :
          call' = [call EXCEPT ![s] = [at |-> IF queue \/ t = None THEN "write" ELSE "signal",
                                       task |-> t, known |-> k]]
    BY <2>2
  <2> QED BY <1>0, <2>1, <2>3
<1> QED BY <1>1, <1>2

\* The check for an earlier message and the commit of a new one are under one
\* lock, so that what was checked still holds (_run_turn).
LEMMA TurnStep == Types /\ TurnParts /\ [Next]_vars => TurnParts'
<1> SUFFICES ASSUME Types, TurnParts, [Next]_vars PROVE TurnParts'
  OBVIOUS
<1>0. call \in [Calls -> Call] /\ message \in [Calls -> Message] /\ Len(tasks) \in Nat
      /\ lock \in Calls \cup {None} /\ None \notin Calls
  BY DEF Types, Calls, None
<1>1. ASSUME NEW s \in Calls, Begin(s) PROVE TurnParts'
  <2>1. At(s, "idle") /\ lock = None /\ message[s].task = None
    BY <1>1 DEF Begin, Arrives, Free, TurnParts
  <2>2. CASE Leave(s) /\ UNCHANGED <<lock, message>>
    <3>1. \A c \in Calls : call'[c].at = call[c].at \/ call'[c].at = "over"
      BY <1>0, <2>2 DEF Leave
    <3> QED BY <2>2, <3>1, QuietTurns
  <2>3. CASE ~(Leave(s) /\ UNCHANGED <<lock, message>>)
    <3>1. PICK turn \in 1..s :
            /\ ~\E r \in Calls : message[r].turn = turn /\ message[r].task # None
            /\ lock' = s
            /\ message' = [message EXCEPT ![s].turn = turn]
            /\ \E e : call' = [call EXCEPT ![s] = e] /\ e.at \in {"write", "signal"}
      <4>1. ASSUME NEW queue \in BOOLEAN, NEW t, NEW k
            PROVE  [at |-> IF queue \/ t = None THEN "write" ELSE "signal",
                    task |-> t, known |-> k].at \in {"write", "signal"}
        OBVIOUS
      <4> QED BY <1>1, <2>3, <4>1 DEF Begin
    <3>2. /\ \A c \in Calls \ {s} : call'[c] = call[c] /\ message'[c] = message[c]
          /\ call'[s].at \in {"write", "signal"}
          /\ message'[s].turn = turn /\ message'[s].task = None
      <4>1. message[s] \in Message
        BY <1>0
      <4> QED BY <1>0, <2>1, <3>1, <4>1 DEF Message
    <3>3. \A c \in Calls : ~Guarded(c)
      BY <1>0, <2>1 DEF TurnParts
    <3>4. \A c \in Calls \ {s} : ~Guarded(c)'
      BY <3>2, <3>3 DEF Guarded, At
    <3>5. \A r \in Calls : message'[r].task # None =>
            r # s /\ message[r].task # None /\ message[r].turn # turn /\ message'[r] = message[r]
      BY <3>1, <3>2
    <3> QED BY <2>1, <3>1, <3>2, <3>4, <3>5 DEF TurnParts, At, OneTurnPerId
  <2> QED BY <2>2, <2>3
<1>2. ASSUME NEW s \in Calls, WriteTurn(s) PROVE TurnParts'
  <2>1. At(s, "write") /\ lock = s /\ Guarded(s) /\ lock' = None
    BY <1>2 DEF WriteTurn, TurnParts, Guarded
  <2>2. /\ \A c \in Calls \ {s} : call'[c] = call[c] /\ message'[c] = message[c]
        /\ call'[s].at = "start"
    BY <1>0, <1>2 DEF WriteTurn, Open
  <2>3. message'[s].turn = message[s].turn
    BY <1>0, <1>2 DEF WriteTurn, Message
  <2>4. \A c \in Calls : ~Guarded(c)'
    BY <1>0, <2>1, <2>2 DEF TurnParts, Guarded, At
  <2>5. \A r \in Calls : message[r].task # None => message[r].turn # message[s].turn
    BY <2>1 DEF TurnParts
  <2> QED BY <2>2, <2>3, <2>4, <2>5 DEF TurnParts, At, OneTurnPerId
<1>3. ASSUME NEW s \in Calls, WriteInstruction(s) PROVE TurnParts'
  <2>1. At(s, "signal") /\ Guarded(s) /\ lock = s /\ lock' = None /\ call' = call
    BY <1>3 DEF WriteInstruction, TurnParts, Guarded
  <2>2. message'[s].turn = message[s].turn /\ message'[s].task # None
        /\ \A c \in Calls \ {s} : message'[c] = message[c]
    <3>1. call[s].task # None
      BY <2>1 DEF Types, At, Tasked, Ids, None
    <3> QED BY <1>0, <1>3, <3>1 DEF WriteInstruction, Message
  <2>3. \A c \in Calls : ~Guarded(c)'
    BY <1>0, <2>1, <2>2 DEF TurnParts, Guarded, At
  <2>4. \A r \in Calls : message[r].task # None => message[r].turn # message[s].turn
    BY <2>1 DEF TurnParts
  <2> QED BY <2>1, <2>2, <2>3, <2>4 DEF TurnParts, At, OneTurnPerId
<1>4. ASSUME NEW s \in Calls, Signal(s) PROVE TurnParts'
  <2>1. PICK stage \in {"mark", "promote"} : Goto(s, stage)
    BY <1>4 DEF Signal
  <2>2. \A c \in Calls : call'[c].at = call[c].at \/ (c = s /\ call'[c].at \in {"mark", "promote", "over"})
    BY <2>1, OneMoves DEF Stages
  <2> QED BY <1>4, <2>2, QuietTurns DEF Signal
<1>5. ASSUME NEW s \in Calls, Mark(s) PROVE TurnParts'
  <2>1. \A c \in Calls : call'[c].at = call[c].at \/ call'[c].at = "over"
    BY <1>0, <1>5 DEF Mark, Leave
  <2>2. \A c \in Calls : message'[c].turn = message[c].turn /\ message'[c].task = message[c].task
    BY <1>0, <1>5 DEF Mark, Message
  <2> QED BY <1>5, <2>1, <2>2, QuietTurns DEF Mark
<1>6. ASSUME NEW s \in Calls, Promote(s) PROVE TurnParts'
  <2>1. \A c \in Calls : call'[c].at = call[c].at \/ call'[c].at = "start"
    BY <1>0, <1>6 DEF Promote, Open
  <2>2. \A c \in Calls : /\ message'[c].turn = message[c].turn
                         /\ message'[c].task = None <=> message[c].task = None
    <3>1. message[s].task # None
      BY <1>6 DEF Promote, TurnParts
    <3>2. message'[s].task # None /\ message'[s].turn = message[s].turn
          /\ \A c \in Calls \ {s} : message'[c] = message[c]
      BY <1>0, <1>6 DEF Promote, Message, None
    <3> QED BY <3>1, <3>2
  <2> QED BY <1>6, <2>1, <2>2, QuietTurns DEF Promote
<1>7. ASSUME NEW r \in Calls, Resume(r) PROVE TurnParts'
  <2>1. CASE Press(r) \/ ClaimRefused(r)
    <3>1. \A c \in Calls : call'[c].at = call[c].at \/ call'[c].at \in {"claim", "over"}
      <4>1. CASE Leave(r)
        BY <1>0, <4>1 DEF Leave
      <4>2. CASE call' = [call EXCEPT ![r].at = "claim", ![r].task = Len(tasks)]
        BY <1>0, <4>2 DEF Call
      <4> QED BY <2>1, <4>1, <4>2 DEF Press, ClaimRefused
    <3> QED BY <2>1, <3>1, QuietTurns DEF Press, ClaimRefused
  <2>2. CASE Claim(r)
    <3>1. \A c \in Calls : call'[c].at = call[c].at \/ call'[c].at = "start"
      BY <1>0, <2>2 DEF Claim, Open
    <3>t. call[r].task \in Ids
      BY <2>2, ClaimOpens
    <3>2. call[r].task # None /\ Len(tasks) + 1 # None
      BY <1>0, <3>t DEF Ids, None
    <3>3. \A c \in Calls : /\ message'[c].turn = message[c].turn
                           /\ message'[c].task = None <=> message[c].task = None
      BY <1>0, <2>2, <3>2 DEF Claim, Message
    <3> QED BY <2>2, <3>1, <3>3, QuietTurns DEF Claim
  <2> QED BY <1>7, <2>1, <2>2 DEF Resume
<1>8. ASSUME NEW c \in Calls, Launch(c) PROVE TurnParts'
  <2>1. PICK stage \in {"record", "refused"} : Goto(c, stage) \/ Leave(c)
    BY <1>8 DEF Launch, Start, Record, Refused
  <2>2. \A d \in Calls : call'[d].at = call[d].at \/ call'[d].at \in {"record", "refused", "over"}
    BY <2>1, OneMoves DEF Stages
  <2> QED BY <1>8, <2>2, QuietTurns DEF Launch, Start, Record, Refused
<1>9. ASSUME NEW c \in Calls, Crash(c) PROVE TurnParts'
  <2>1. \A d \in Calls : call'[d].at = call[d].at \/ call'[d].at = "dead"
    BY <1>0, <1>9 DEF Crash
  <2> QED BY <1>9, <2>1, QuietTurns DEF Crash
<1>10. ASSUME NEW t \in Ids, Stop(t) \/ Withdraw(t) \/ Run(t) PROVE TurnParts'
  <2>1. UNCHANGED <<call, lock>>
    BY <1>10, RunTouches DEF Stop, Withdraw
  <2>2. CASE UNCHANGED message
    BY <2>1, <2>2, QuietTurns
  <2>3. CASE Acknowledge(t)
    <3>1. \A s \in Calls : message'[s].turn = message[s].turn /\ message'[s].task = message[s].task
      BY <1>0, <2>3 DEF Acknowledge, Message
    <3> QED BY <2>1, <3>1, QuietTurns
  <2> QED BY <1>10, <2>2, <2>3
          DEF Stop, Withdraw, Run, Admit, Queue, Deny, EndStep, StepFails, LastLook, Finalize
<1>11. CASE UNCHANGED vars
  BY <1>11, QuietTurns DEF vars
<1> QED BY <1>1, <1>2, <1>3, <1>4, <1>5, <1>6, <1>7, <1>8, <1>9, <1>10, <1>11 DEF Next, Send

\* However often a turn is delivered, it makes one message: the row lock of the
\* conversation is held from the look for an existing turn to the commit.
THEOREM TurnsAreSentOnce == Spec => []OneTurnPerId
<1>1. Init => TurnParts
  BY DEF Init, TurnParts, Guarded, At, OneTurnPerId, NoMessage
<1>2. TurnParts => OneTurnPerId
  BY DEF TurnParts
<1> QED BY <1>1, <1>2, TurnStep, TypesHold, PTL DEF Spec

-----------------------------------------------------------------------------
(* A failed turn has one successor.                                        *)

\* The rows a step leaves as they are, those it is about, and those it opens.
LEMMA RowsStep ==
  ASSUME Types, [Next]_vars
  PROVE  \/ UNCHANGED <<tasks, wf>>
         \/ \E t \in Ids : Touches(t)
         \/ \E s \in Calls : WriteTurn(s) \/ Promote(s)
         \/ \E r \in Calls : Claim(r)
<1>1. ASSUME NEW s \in Calls, Signal(s) PROVE \E t \in Ids : Touches(t)
  <2> DEFINE t == call[s].task
  <2>1. t \in Ids /\ UNCHANGED tasks
    BY <1>1 DEF Signal, Types, At, Tasked
  <2>2. wf[t] \in Workflow /\ Fit(wf[t], Len(tasks)) /\ wf = [wf EXCEPT ![t] = wf[t]]
    BY <2>1, Elements DEF Types
  <2>3. PICK w \in Workflow : Fit(w, Len(tasks)) /\ wf' = [wf EXCEPT ![t] = w]
    <3> DEFINE wl == [wf[t] EXCEPT !.late = wf[t].late \cup {s}]
               wp == [wf[t] EXCEPT !.pending = wf[t].pending \cup {s}]
    <3>1. /\ wl \in Workflow /\ Fit(wl, Len(tasks))
          /\ wp \in Workflow /\ Fit(wp, Len(tasks))
      BY <2>2 DEF Workflow, Fit
    <3>2. wf' = [wf EXCEPT ![t] = wl] \/ wf' = [wf EXCEPT ![t] = wp] \/ wf' = wf
      BY <1>1 DEF Signal, Hear
    <3> HIDE DEF wl, wp
    <3> QED BY <2>2, <3>1, <3>2
  <2> QED BY <2>1, <2>3, FlowTypes
<1>2. ASSUME NEW c \in Calls, Launch(c) PROVE \E t \in Ids : Touches(t)
  <2>1. Touches(call[c].task)
    BY <1>2, LaunchTypes
  <2> QED BY <2>1 DEF Touches
<1>3. ASSUME NEW t \in Ids, Stop(t) \/ Withdraw(t) \/ Run(t) PROVE Touches(t)
  BY <1>3, TaskStepTypes
<1> QED BY <1>1, <1>2, <1>3
        DEF Next, vars, Send, Resume, Begin, WriteInstruction, Mark, Press, ClaimRefused, Crash

\* The successor and the stamp are written together, and only where there is
\* none (_claim_failed_turn).
LEMMA ResumeStep == Types /\ ResumeParts /\ [Next]_vars => ResumeParts'
<1> SUFFICES ASSUME Types, ResumeParts, [Next]_vars PROVE ResumeParts'
  OBVIOUS
<1>0. Len(tasks) \in Nat /\ \A t \in Ids : tasks[t] \in Task /\ tasks[t].from < t
  BY Elements DEF Types
<1>f. \A t \in Ids : tasks[t].from # None => tasks[t].from \in Ids
  BY <1>0 DEF Ids, Task, None
<1>1. CASE UNCHANGED <<tasks, wf>>
  BY <1>1 DEF ResumeParts, Ids
<1>2. ASSUME NEW t \in Ids, Touches(t) PROVE ResumeParts'
  <2>1. \A u \in Ids : /\ tasks'[u].from = tasks[u].from
                       /\ tasks[u].cut => tasks'[u].cut
                       /\ tasks'[u].by = tasks[u].by \/ tasks'[u].cut
    BY <1>2 DEF Touches, Keeps
  <2>2. Ids' = Ids
    BY <1>2 DEF Touches, Ids
  <2> QED BY <1>f, <2>1, <2>2 DEF ResumeParts
<1>3. ASSUME NEW s \in Calls, WriteTurn(s) \/ Promote(s) PROVE ResumeParts'
  <2>1. PICK after \in 0..Len(tasks) : Opens(after, None) /\ \A t \in Ids : tasks'[t] = tasks[t]
    BY <1>3, TurnOpens
  <2>2. tasks'[Len(tasks) + 1].from = None /\ Ids' = Ids \cup {Len(tasks) + 1}
    BY <1>0, <2>1 DEF Opens, NewTask, Ids
  <2> QED BY <1>f, <2>1, <2>2 DEF ResumeParts
<1>4. ASSUME NEW r \in Calls, Claim(r) PROVE ResumeParts'
  <2> DEFINE n == Len(tasks)
             t == call[r].task
  <2>1. /\ t \in Ids /\ Opens(None, t)
        /\ \A u \in Ids : /\ tasks'[u].from = tasks[u].from
                          /\ tasks'[u].by = IF u = t THEN n + 1 ELSE tasks[u].by
                          /\ tasks'[u].cut = tasks[u].cut
    BY <1>4, ClaimOpens
  <2>2. tasks'[n + 1].from = t /\ Ids' = Ids \cup {n + 1}
    BY <1>0, <2>1 DEF Opens, NewTask, Ids
  <2>3. tasks[t].by = None
    BY <1>4 DEF Claim, Offered
  <2>4. \A u \in Ids : tasks[u].from = t => tasks[t].cut
    BY <1>f, <2>1, <2>3 DEF ResumeParts, Ids, None
  <2>5. ASSUME NEW u \in Ids', tasks'[u].from # None
        PROVE  tasks'[tasks'[u].from].by = u \/ tasks'[tasks'[u].from].cut
    <3>1. CASE u = n + 1
      BY <2>1, <2>2, <3>1
    <3>2. CASE u # n + 1
      <4>1. u \in Ids /\ tasks[u].from \in Ids /\ tasks'[u].from = tasks[u].from
        BY <1>f, <2>1, <2>2, <2>5, <3>2
      <4>2. tasks[tasks[u].from].by = u \/ tasks[tasks[u].from].cut
        BY <2>5, <4>1 DEF ResumeParts
      <4>3. CASE tasks[u].from = t
        BY <2>1, <2>4, <4>1, <4>3
      <4>4. CASE tasks[u].from # t
        BY <2>1, <4>1, <4>2, <4>4
      <4> QED BY <4>3, <4>4
    <3> QED BY <3>1, <3>2
  <2> QED BY <2>5 DEF ResumeParts
<1> QED BY <1>1, <1>2, <1>3, <1>4, RowsStep

\* However many presses of Retry overlap, a failed turn has one successor, unless
\* an admission of the turn itself has written over the stamp.
THEOREM TurnsAreResumedOnce == Spec => []ResumedOnce
<1>1. Init => ResumeParts
  BY DEF Init, ResumeParts, NewTask, Ids, None
<1>2. ResumeParts => ResumedOnce
  BY DEF ResumeParts, ResumedOnce
<1> QED BY <1>1, <1>2, ResumeStep, TypesHold, PTL DEF Spec

-----------------------------------------------------------------------------
(* An instruction that a completed run was told of has been read.          *)

\* What of a workflow is left at its end, and after the head of the step loop.
LEMMA EndingFields ==
  ASSUME NEW w \in Workflow, NEW o \in Terminal
  PROVE  LET e == Ending(w, o) IN e.stage = "finalize" /\ e.outcome = o /\ e.late = w.late
  BY DEF Ending, Workflow

\* The step loop ends the run without completing it, takes a step, or cleans up.
LEMMA LoopFields ==
  ASSUME NEW t, NEW w \in Workflow, NEW done \in BOOLEAN
  PROVE  LET l == Loop(t, w, done)
         IN  \/ l.stage = "finalize" /\ l.outcome \in {"cancelled", "failed"} /\ l.late = w.late
             \/ l.stage = "step" /\ l.seen = Instructions(t) /\ l.late = w.late
             \/ done /\ l.stage = "cleanup" /\ l.pending = w.pending /\ l.late = w.late
<1>1. CASE w.cancelled
  BY <1>1, EndingFields DEF Loop, Terminal
<1>2. CASE ~w.cancelled /\ (~done \/ w.pending # {}) /\ w.steps < MaxSteps
  BY <1>2 DEF Loop, Workflow
<1>3. CASE ~w.cancelled /\ ~((~done \/ w.pending # {}) /\ w.steps < MaxSteps) /\ done
  BY <1>3 DEF Loop, Workflow
<1>4. CASE ~w.cancelled /\ ~((~done \/ w.pending # {}) /\ w.steps < MaxSteps) /\ ~done
  BY <1>4, EndingFields DEF Loop, Terminal
<1> QED BY <1>1, <1>2, <1>3, <1>4

\* What a step of a run does to its stage and to the instructions it holds: one
\* that was told to it is taken with all others of its transcript, or kept, or
\* the run has no outcome but failure, or it is counted as late.
Reads(t) ==
  LET w == wf[t]
      v == wf'[t]
  IN  /\ v.stage # "none" /\ w.stage \notin {"none", "over"}
      /\ \/ /\ w.stage \in {"admit", "refusing"} /\ v.stage = "admit" /\ v.pending = w.pending
            /\ tasks'[t].state \in {"queued", tasks[t].state}
         \/ /\ v.stage = "finalize" /\ v.outcome # "completed"
            /\ tasks'[t].state \in {"running", tasks[t].state}
         \/ v.stage = "step" /\ v.seen = Instructions(t) /\ tasks'[t].state \in {"running", tasks[t].state}
         \/ /\ w.stage = "step" /\ v.stage = "cleanup" /\ v.pending = w.pending
            /\ tasks'[t].state = tasks[t].state /\ Acknowledge(t)
         \/ /\ w.stage = "cleanup" /\ v.stage = "finalize" /\ v.late = w.pending
            /\ tasks'[t].state = tasks[t].state
         \/ /\ w.stage = "finalize" /\ v.stage = "over" /\ v.late = w.late
            /\ tasks'[t].state = w.outcome
      /\ \/ UNCHANGED message
         \/ w.stage = "step" /\ Acknowledge(t)

\* Every handler of a run is such a step (the workflow's loop).
LEMMA RunReads ==
  ASSUME Types, NEW t \in Ids, Run(t)
  PROVE  Reads(t)
<1> DEFINE W == wf[t]
           T == tasks[t]
<1>0. T \in Task /\ W \in Workflow /\ t \in 1..Len(tasks) /\ t \in 1..Len(wf)
      /\ Fit(W, Len(tasks))
  BY Elements DEF Types
<1>d. t \in DOMAIN tasks /\ t \in DOMAIN wf
  BY <1>0 DEF Types
<1>a. /\ \A w : wf' = [wf EXCEPT ![t] = w] => wf'[t] = w
      /\ \A e : tasks' = [tasks EXCEPT ![t] = e] => tasks'[t] = e
  BY <1>d
<1>1. CASE Admit(t)
  <2>1. PICK e \in Task, w0 \in Looks(t), w1 \in Workflow :
          /\ tasks' = [tasks EXCEPT ![t] = e] /\ Keeps(e, t)
          /\ e.state \in {T.state, "running"}
          /\ w0.stage = "claiming"
          /\ w1.pending = w0.pending /\ w1.late = w0.late /\ w1.row.by = 0
          /\ wf' = [wf EXCEPT ![t] = Loop(t, w1, FALSE)]
    BY <1>1, AdmitRow
  <2>2. W.stage \in {"admit", "claiming"} /\ UNCHANGED message
    BY <1>1, <2>1, LooksType DEF Admit, Looked
  <2>3. wf'[t] = Loop(t, w1, FALSE) /\ tasks'[t].state \in {T.state, "running"}
    BY <1>a, <2>1
  <2>4. \/ wf'[t].stage = "finalize" /\ wf'[t].outcome \in {"cancelled", "failed"}
        \/ wf'[t].stage = "step" /\ wf'[t].seen = Instructions(t)
    BY <2>3, LoopFields
  <2> QED BY <2>2, <2>3, <2>4 DEF Reads
<1>2. CASE Queue(t)
  <2>1. PICK e \in Task, w0 \in Looks(t), w1 \in Workflow :
          /\ tasks' = [tasks EXCEPT ![t] = e] /\ e.state \in {T.state, "queued"}
          /\ w0.stage = "refusing" /\ wf' = [wf EXCEPT ![t] = w1]
          /\ w1.stage = "admit" /\ w1.pending = w0.pending
    BY <1>2, QueueRow
  <2>2. W.stage \in {"admit", "refusing"} /\ w0.pending = W.pending /\ UNCHANGED message
    BY <1>2, <2>1, LooksType DEF Queue, Looked
  <2>3. wf'[t] = w1 /\ tasks'[t].state \in {T.state, "queued"}
    BY <1>a, <2>1
  <2> QED BY <2>1, <2>2, <2>3 DEF Reads
<1>3. CASE Deny(t)
  <2>1. PICK o \in {"cancelled", "failed"} : wf' = [wf EXCEPT ![t] = Ending(W, o)]
    BY <1>3, DenyRow
  <2>2. wf'[t] = Ending(W, o) /\ W.stage \in {"admit", "claiming"} /\ UNCHANGED <<tasks, message>>
    BY <1>a, <1>3, <2>1, DenyRow
  <2> QED BY <1>0, <2>2, EndingFields DEF Reads, Terminal
<1>4. CASE EndStep(t)
  <2> DEFINE w == [W EXCEPT !.steps = W.steps + 1]
  <2>1. PICK done \in BOOLEAN : wf' = [wf EXCEPT ![t] = Loop(t, w, done)]
    BY <1>4 DEF EndStep
  <2>2. W.stage = "step" /\ UNCHANGED tasks /\ Acknowledge(t)
    BY <1>4 DEF EndStep, In
  <2>s. W.steps < MaxSteps
    BY <1>0, <2>2 DEF Fit
  <2>3. w \in Workflow /\ w.pending = W.pending /\ w.late = W.late
    BY <1>0, <2>s, ConversationsAssumption DEF Workflow
  <2> HIDE DEF w
  <2>4. wf'[t] = Loop(t, w, done)
    BY <1>a, <2>1
  <2>5. \/ wf'[t].stage = "finalize" /\ wf'[t].outcome \in {"cancelled", "failed"}
        \/ wf'[t].stage = "step" /\ wf'[t].seen = Instructions(t)
        \/ wf'[t].stage = "cleanup" /\ wf'[t].pending = W.pending
    BY <2>3, <2>4, LoopFields
  <2> QED BY <2>2, <2>5 DEF Reads
<1>5. CASE StepFails(t)
  <2>1. PICK o \in {"cancelled", "failed"} : wf' = [wf EXCEPT ![t] = Ending(W, o)]
    BY <1>5 DEF StepFails, End
  <2>2. wf'[t] = Ending(W, o) /\ W.stage = "step" /\ (UNCHANGED message \/ Acknowledge(t))
    BY <1>a, <1>5, <2>1 DEF StepFails, In
  <2>3. tasks'[t].state = T.state
    <3>1. CASE UNCHANGED tasks
      BY <3>1
    <3>2. ASSUME NEW doubt \in BOOLEAN, tasks' = [tasks EXCEPT ![t].doubt = doubt]
          PROVE  tasks'[t].state = T.state
      BY <1>0, <1>d, <3>2 DEF Task
    <3> QED BY <1>5, <3>1, <3>2 DEF StepFails
  <2> QED BY <1>0, <2>2, <2>3, EndingFields DEF Reads, Terminal
<1>6. CASE LastLook(t)
  <2>1. W.stage = "cleanup" /\ UNCHANGED <<tasks, message>>
    BY <1>6 DEF LastLook, In
  <2>2. CASE W.pending # {} /\ W.steps < MaxSteps
    <3>1. wf'[t] = Loop(t, W, FALSE)
      BY <1>a, <1>6, <2>2 DEF LastLook
    <3> QED BY <1>0, <2>1, <3>1, LoopFields DEF Reads
  <2>3. CASE ~(W.pending # {} /\ W.steps < MaxSteps)
    <3>1. wf'[t] = [Ending(W, "completed") EXCEPT !.late = W.pending]
      BY <1>a, <1>6, <2>3 DEF LastLook
    <3>2. Ending(W, "completed") \in Workflow /\ Ending(W, "completed").stage = "finalize"
      BY <1>0, EndingType, EndingFields DEF Terminal
    <3>3. wf'[t].stage = "finalize" /\ wf'[t].late = W.pending
      BY <3>1, <3>2 DEF Workflow
    <3> QED BY <2>1, <3>3 DEF Reads
  <2> QED BY <2>2, <2>3
<1>7. CASE Finalize(t)
  <2> DEFINE w == [W EXCEPT !.stage = "over", !.outcome = "none"]
             e == [T EXCEPT !.state = W.outcome]
  <2>1. w.stage = "over" /\ w.late = W.late /\ e.state = W.outcome
    BY <1>0 DEF Workflow, Task
  <2>2. wf' = [wf EXCEPT ![t] = w] /\ tasks' = [tasks EXCEPT ![t] = e]
        /\ W.stage = "finalize" /\ UNCHANGED message
    BY <1>7 DEF Finalize, In
  <2> HIDE DEF w, e
  <2>3. wf'[t] = w /\ tasks'[t].state = W.outcome /\ W.stage = "finalize" /\ UNCHANGED message
    BY <1>a, <2>1, <2>2
  <2> QED BY <2>1, <2>3 DEF Reads
<1> QED BY <1>1, <1>2, <1>3, <1>4, <1>5, <1>6, <1>7 DEF Run

\* What a run was told of stays with it to its end.
LEMMA RunHolds ==
  ASSUME Types, StartParts, NEW t \in Ids, Reads(t), NEW s \in Calls, message[s].task = t,
         Hearer(s), Hearer(s)', UNCHANGED call, Holds(s, tasks[t].state, wf[t])
  PROVE  Holds(s, tasks'[t].state, wf'[t])
<1>1. tasks[t].state # "completed"
  BY DEF StartParts, Reads, In
<1>2. s \in Instructions(t)
  BY DEF Instructions, Hearer
<1>3. wf[t].stage = "step" /\ Acknowledge(t) => s \notin wf[t].seen
  <2> SUFFICES ASSUME wf[t].stage = "step", Acknowledge(t), s \in wf[t].seen PROVE FALSE
    OBVIOUS
  <2>1. message' [s] = [message[s] EXCEPT !.delivery = "consumed"]
    BY <1>2 DEF Acknowledge
  <2>2. message[s] \in Message
    BY DEF Types
  <2>3. message'[s].delivery = "consumed"
    BY <2>1, <2>2 DEF Message
  <2> QED BY <2>3 DEF Hearer
<1>4. CASE wf[t].stage \in {"admit", "refusing"} /\ wf'[t].stage = "admit"
           /\ wf'[t].pending = wf[t].pending /\ tasks'[t].state \in {"queued", tasks[t].state}
  BY <1>1, <1>4 DEF Holds
<1>5. CASE wf'[t].stage = "finalize" /\ wf'[t].outcome # "completed"
           /\ tasks'[t].state \in {"running", tasks[t].state}
  BY <1>1, <1>5 DEF Holds
<1>6. CASE wf'[t].stage = "step" /\ wf'[t].seen = Instructions(t)
           /\ tasks'[t].state \in {"running", tasks[t].state}
  BY <1>1, <1>2, <1>6 DEF Holds
<1>7. CASE wf[t].stage = "step" /\ wf'[t].stage = "cleanup" /\ wf'[t].pending = wf[t].pending
           /\ tasks'[t].state = tasks[t].state /\ Acknowledge(t)
  BY <1>1, <1>3, <1>7 DEF Holds
<1>8. CASE wf[t].stage = "cleanup" /\ wf'[t].stage = "finalize" /\ wf'[t].late = wf[t].pending
           /\ tasks'[t].state = tasks[t].state
  BY <1>1, <1>8 DEF Holds
<1>9. CASE wf[t].stage = "finalize" /\ wf'[t].stage = "over" /\ wf'[t].late = wf[t].late
           /\ tasks'[t].state = wf[t].outcome
  BY <1>9 DEF Holds
<1> QED BY <1>4, <1>5, <1>6, <1>7, <1>8, <1>9 DEF Reads

\* A look at the row changes nothing of what a workflow holds.
LEMMA LookHolds ==
  ASSUME Types, NEW t \in Ids, NEW w \in Workflow, Looked(w, t)
  PROVE  \A s \in Calls : \A state : Holds(s, state, wf[t]) => Holds(s, state, w)
  BY DEF Looked, Holds

\* A signal adds to what a workflow holds (send_instruction).
LEMMA HearHolds ==
  ASSUME Types, NEW t \in Ids, NEW s \in Calls, Hear(t, s)
  PROVE  /\ wf'[t].stage = wf[t].stage
         /\ \A r \in Calls : \A state : Holds(r, state, wf[t]) => Holds(r, state, wf'[t])
         /\ \A state \in Active \cup {"failed", "cancelled"} : Alive(t) => Holds(s, state, wf'[t])
<1> DEFINE W == wf[t]
           wl == [W EXCEPT !.late = W.late \cup {s}]
           wp == [W EXCEPT !.pending = W.pending \cup {s}]
<1>0. W \in Workflow /\ t \in DOMAIN wf
  BY Elements DEF Types
<1>1. /\ wl.stage = W.stage /\ wl.pending = W.pending /\ wl.seen = W.seen
      /\ wl.late = W.late \cup {s} /\ wl.outcome = W.outcome
      /\ wp.stage = W.stage /\ wp.pending = W.pending \cup {s} /\ wp.seen = W.seen
      /\ wp.late = W.late /\ wp.outcome = W.outcome
  BY <1>0 DEF Workflow
<1>2. CASE W.stage = "finalize"
  <2>1. wf' = [wf EXCEPT ![t] = wl]
    BY <1>2 DEF Hear
  <2> HIDE DEF wl, wp
  <2>2. wf'[t] = wl
    BY <1>0, <2>1
  <2> QED BY <1>1, <1>2, <2>2 DEF Holds, Active, Alive
<1>3. CASE W.stage # "finalize"
  <2>1. wf' = [wf EXCEPT ![t] = wp]
    BY <1>3 DEF Hear
  <2> HIDE DEF wl, wp
  <2>2. wf'[t] = wp
    BY <1>0, <2>1
  <2>3. Alive(t) => W.stage \in {"admit", "claiming", "refusing", "step", "cleanup"}
    BY <1>0, <1>3 DEF Alive, Workflow
  <2> QED BY <1>1, <1>3, <2>2, <2>3 DEF Holds, Active
<1> QED BY <1>2, <1>3

\* A turn is started by the call that opened it, and completed by its run.
LEMMA StartStep == Types /\ StartParts /\ [Next]_vars => StartParts'
<1> SUFFICES ASSUME Types, StartParts, [Next]_vars PROVE StartParts'
  OBVIOUS
<1>0. call \in [Calls -> Call] /\ Len(tasks) \in Nat
  BY DEF Types
<1>i. \A c \in Calls : At(c, "start") => call[c].task \in Ids
  BY DEF Types, At, Tasked
\* A step that starts no call's turn, nor completes one that is not over.
<1>q. ASSUME Ids' = Ids,
             \A c \in Calls : call'[c] = call[c] \/ call'[c].at # "start",
             \A t \in Ids : /\ In(t, "none") => In(t, "none")'
                            /\ tasks'[t].state = "completed" => In(t, "over")'
      PROVE  StartParts'
  BY <1>i, <1>q DEF StartParts, At
<1>1. ASSUME NEW t \in Ids, Stop(t) \/ Withdraw(t) PROVE StartParts'
  <2>1. Touches(t) /\ UNCHANGED call
    BY <1>1, TaskStepTypes
  <2>2. tasks[t] \in Task /\ wf[t] \in Workflow /\ t \in DOMAIN tasks /\ t \in DOMAIN wf
    BY Elements DEF Types
  <2>3. wf'[t].stage = wf[t].stage \/ (wf[t].stage = "admit" /\ wf'[t].stage # "none")
    BY <1>1, StopRow, WithdrawRow DEF Looked
  <2>4. tasks'[t].state \in {tasks[t].state, "cancelled"}
    BY <1>1, <2>2, StopRow, WithdrawRow
  <2>5. Ids' = Ids /\ \A u \in Ids \ {t} : tasks'[u] = tasks[u] /\ wf'[u] = wf[u]
    BY <2>1 DEF Touches, Ids
  <2> QED BY <1>q, <2>1, <2>3, <2>4, <2>5 DEF StartParts, In
<1>2. ASSUME NEW t \in Ids, Run(t) PROVE StartParts'
  <2>1. Touches(t) /\ UNCHANGED call
    BY <1>2, TaskStepTypes
  <2>2. Reads(t)
    BY <1>2, RunReads
  <2>3. Ids' = Ids /\ \A u \in Ids \ {t} : tasks'[u] = tasks[u] /\ wf'[u] = wf[u]
    BY <2>1 DEF Touches, Ids
  <2>4. wf[t].stage # "none" /\ tasks[t].state # "completed"
    BY <2>2 DEF Reads, StartParts, In
  <2>5. tasks'[t].state = "completed" => wf'[t].stage = "over"
    BY <2>2, <2>4 DEF Reads
  <2> QED BY <1>q, <2>1, <2>3, <2>4, <2>5 DEF StartParts, In
<1>3. ASSUME UNCHANGED <<tasks, wf>>,
             \A c \in Calls : call'[c] = call[c] \/ call'[c].at # "start"
      PROVE  StartParts'
  BY <1>q, <1>3 DEF StartParts, In, Ids
<1>4. ASSUME NEW s \in Calls, Begin(s) \/ WriteInstruction(s) \/ Mark(s)
      PROVE  StartParts'
  <2>2. \A c \in Calls : call'[c] = call[c] \/ call'[c].at # "start"
    BY <1>0, <1>4, BeginMoves DEF WriteInstruction, Mark, Leave
  <2> QED BY <1>3, <1>4, <2>2 DEF Begin, WriteInstruction, Mark
<1>5. ASSUME NEW r \in Calls, Press(r) \/ ClaimRefused(r) PROVE StartParts'
  <2>1. CASE Leave(r)
    BY <1>0, <1>3, <1>5, <2>1 DEF Press, ClaimRefused, Leave
  <2>2. CASE call' = [call EXCEPT ![r].at = "claim", ![r].task = Len(tasks)]
    <3>1. \A c \in Calls : call'[c] = call[c] \/ call'[c].at # "start"
      BY <1>0, <2>2 DEF Call
    <3> QED BY <1>3, <1>5, <3>1 DEF Press, ClaimRefused
  <2> QED BY <1>5, <2>1, <2>2 DEF Press, ClaimRefused
<1>6. ASSUME NEW c \in Calls, Crash(c) PROVE StartParts'
  BY <1>0, <1>3, <1>6 DEF Crash
<1>7. ASSUME NEW s \in Calls, Signal(s) PROVE StartParts'
  <2> DEFINE t == call[s].task
  <2>1. t \in Ids /\ UNCHANGED tasks
    BY <1>7 DEF Signal, Types, At, Tasked
  <2>2. \A u \in Ids : wf'[u].stage = wf[u].stage
    <3>1. CASE UNCHANGED wf
      BY <3>1
    <3>2. CASE Hear(t, s)
      <4>1. wf'[t].stage = wf[t].stage
        BY <2>1, <3>2, HearHolds
      <4>2. \A u \in Ids \ {t} : wf'[u] = wf[u]
        BY <3>2 DEF Hear, Types, Ids
      <4> QED BY <4>1, <4>2
    <3> QED BY <1>7, <3>1, <3>2 DEF Signal
  <2>3. PICK stage \in {"mark", "promote"} : Goto(s, stage)
    BY <1>7 DEF Signal
  <2>4. \A c \in Calls : call'[c] = call[c] \/ call'[c].at # "start"
    BY <2>3, OneMoves DEF Stages
  <2> QED BY <1>q, <2>1, <2>2, <2>4 DEF StartParts, In, Ids
<1>8. ASSUME NEW c \in Calls, Launch(c) PROVE StartParts'
  <2> DEFINE t == call[c].task
  <2>1. Touches(t)
    BY <1>8, LaunchTypes
  <2>2. t \in Ids /\ Ids' = Ids /\ \A u \in Ids \ {t} : tasks'[u] = tasks[u] /\ wf'[u] = wf[u]
    BY <2>1 DEF Touches, Ids
  <2>3. PICK stage \in {"record", "refused"} : Goto(c, stage) \/ Leave(c)
    BY <1>8 DEF Launch, Start, Record, Refused
  <2>4. /\ \A d \in Calls \ {c} : call'[d] = call[d]
        /\ call'[c].at \in {"record", "refused", "over"}
    BY <2>3, OneMoves DEF Stages
  <2>5. tasks[t] \in Task /\ wf[t] \in Workflow /\ t \in DOMAIN tasks /\ t \in DOMAIN wf
    BY <2>2, Elements DEF Types
  <2>6. CASE Start(c)
    <3>1. In(t, "none") /\ UNCHANGED tasks /\ At(c, "start")
      BY <2>6 DEF Start, StartParts
    <3>2. tasks[t].state # "completed"
      BY <2>2, <3>1 DEF StartParts, In
    <3>3. \A d \in Calls \ {c} : At(d, "start") => call[d].task # t
      BY <3>1 DEF StartParts
    <3> QED BY <1>i, <2>2, <2>4, <3>1, <3>2, <3>3 DEF StartParts, At, In
  <2>7. CASE Record(c) \/ Refused(c)
    <3>1. /\ wf'[t].stage = wf[t].stage \/ wf[t].stage = "admit"
          /\ tasks'[t].state \in {tasks[t].state, "failed"}
      <4>1. CASE Record(c)
        BY <2>5, <4>1 DEF Record, Task
      <4>2. CASE Refused(c)
        BY <4>2, RefusedRow DEF Looked
      <4> QED BY <2>7, <4>1, <4>2
    <3> QED BY <1>q, <2>2, <2>4, <3>1 DEF StartParts, In
  <2> QED BY <1>8, <2>6, <2>7 DEF Launch
<1>9. ASSUME NEW c \in Calls, WriteTurn(c) \/ Promote(c) \/ Claim(c) PROVE StartParts'
  <2> DEFINE n == Len(tasks)
  <2>1. PICK after, from : Opens(after, from)
    BY <1>9, TurnOpens, ClaimOpens
  <2>2. \A t \in Ids : /\ wf'[t].stage = wf[t].stage \/ wf[t].stage = "admit"
                       /\ tasks'[t].state = tasks[t].state
    <3>1. CASE WriteTurn(c) \/ Promote(c)
      BY <3>1, TurnOpens
    <3>2. CASE Claim(c)
      BY <3>2, ClaimOpens DEF Looked
    <3> QED BY <1>9, <3>1, <3>2
  <2>3. Ids' = Ids \cup {n + 1} /\ wf'[n + 1].stage = "none" /\ tasks'[n + 1].state = "queued"
    BY <1>0, <2>1 DEF Opens, Ids, NoWorkflow, NewTask
  <2>4. \E rows, wfs, a, f : Open(c, rows, wfs, a, f) /\ Len(rows) = n
    <3>1. Len([tasks EXCEPT ![call[c].task].by = n + 1]) = n
      BY DEF Types
    <3> QED BY <1>9, <3>1 DEF WriteTurn, Promote, Claim
  <2>5. /\ \A d \in Calls \ {c} : call'[d] = call[d]
        /\ call'[c].task = n + 1
    BY <1>0, <2>4 DEF Open
  <2>6. n + 1 \notin Ids
    BY <1>0 DEF Ids
  <2> QED BY <1>i, <2>2, <2>3, <2>5, <2>6 DEF StartParts, At, In
<1>10. CASE UNCHANGED vars
  BY <1>3, <1>10 DEF vars
<1> QED BY <1>1, <1>2, <1>4, <1>5, <1>6, <1>7, <1>8, <1>9, <1>10 DEF Next, Send, Resume

\* An instruction keeps its message from the commit to the signal (send_turn);
\* a press of Retry moves a person's messages, and no instruction.
LEMMA SignalStep == Types /\ TurnParts /\ SignalParts /\ [Next]_vars => SignalParts'
<1> SUFFICES ASSUME Types, TurnParts, SignalParts, [Next]_vars PROVE SignalParts'
  OBVIOUS
<1>0. call \in [Calls -> Call] /\ message \in [Calls -> Message]
  BY DEF Types
<1>q. ASSUME \A c \in Calls :
               At(c, "signal")' /\ message'[c].task # None
               => /\ call'[c] = call[c] /\ message[c].task # None
                  /\ message[c].type = "instruction"
                     => message'[c].task = message[c].task /\ message'[c].type = "instruction"
      PROVE  SignalParts'
  BY <1>q DEF SignalParts, At
<1>1. ASSUME NEW s \in Calls, Begin(s) PROVE SignalParts'
  <2>1. message[s].task = None
    BY <1>1 DEF Begin, Arrives, TurnParts, At
  <2>2. \A c \in Calls : message'[c].task = message[c].task /\ message'[c].type = message[c].type
    BY <1>0, <1>1 DEF Begin, Message
  <2>3. \A c \in Calls \ {s} : call'[c] = call[c]
    BY <1>1, BeginMoves
  <2> QED BY <1>q, <2>1, <2>2, <2>3
<1>2. ASSUME NEW s \in Calls, WriteInstruction(s) PROVE SignalParts'
  <2>1. message'[s].task = call[s].task /\ message'[s].type = "instruction" /\ call' = call
        /\ \A c \in Calls \ {s} : message'[c] = message[c]
    BY <1>0, <1>2 DEF WriteInstruction, Message
  <2> QED BY <2>1 DEF SignalParts, At
<1>3. ASSUME NEW s \in Calls, WriteTurn(s) \/ Promote(s) PROVE SignalParts'
  <2>1. /\ \A c \in Calls \ {s} : call'[c] = call[c] /\ message'[c] = message[c]
        /\ call'[s].at = "start"
    BY <1>0, <1>3 DEF WriteTurn, Promote, Open
  <2> QED BY <1>q, <2>1 DEF At
<1>4. ASSUME NEW s \in Calls, Signal(s) \/ Launch(s) PROVE SignalParts'
  <2>1. PICK stage \in {"mark", "promote", "record", "refused"} : Goto(s, stage) \/ Leave(s)
    BY <1>4 DEF Signal, Launch, Start, Record, Refused
  <2>2. UNCHANGED message /\ \A c \in Calls : call'[c] = call[c] \/ call'[c].at # "signal"
    BY <1>4, <2>1, OneMoves DEF Signal, Launch, Start, Record, Refused, Stages
  <2> QED BY <1>q, <2>2 DEF At
<1>5. ASSUME NEW s \in Calls, Mark(s) PROVE SignalParts'
  <2>1. \A c \in Calls : call'[c] = call[c] \/ call'[c].at = "over"
    BY <1>0, <1>5 DEF Mark, Leave
  <2>2. \A c \in Calls : message'[c].task = message[c].task /\ message'[c].type = message[c].type
    BY <1>0, <1>5 DEF Mark, Message
  <2> QED BY <1>q, <2>1, <2>2 DEF At
<1>6. ASSUME NEW r \in Calls, Press(r) \/ ClaimRefused(r) PROVE SignalParts'
  <2>1. \A c \in Calls : call'[c] = call[c] \/ call'[c].at \in {"claim", "over"}
    <3>1. CASE Leave(r)
      BY <1>0, <3>1 DEF Leave
    <3>2. CASE call' = [call EXCEPT ![r].at = "claim", ![r].task = Len(tasks)]
      BY <1>0, <3>2 DEF Call
    <3> QED BY <1>6, <3>1, <3>2 DEF Press, ClaimRefused
  <2> QED BY <1>q, <1>6, <2>1 DEF At, Press, ClaimRefused
<1>7. ASSUME NEW r \in Calls, Claim(r) PROVE SignalParts'
  <2>1. \A c \in Calls : call'[c] = call[c] \/ call'[c].at = "start"
    BY <1>0, <1>7 DEF Claim, Open
  <2>2. call[r].task \in Ids
    BY <1>7, ClaimOpens
  <2>3. \A c \in Calls : /\ message'[c].type = message[c].type
                         /\ message[c].type = "instruction" => message'[c] = message[c]
                         /\ message'[c].task # None => message[c].task # None
    BY <1>0, <1>7, <2>2 DEF Claim, Message, Ids, None
  <2> QED BY <1>q, <2>1, <2>3 DEF At
<1>8. ASSUME NEW c \in Calls, Crash(c) PROVE SignalParts'
  <2>1. \A d \in Calls : call'[d] = call[d] \/ call'[d].at = "dead"
    BY <1>0, <1>8 DEF Crash
  <2> QED BY <1>q, <1>8, <2>1 DEF At, Crash
<1>9. ASSUME NEW t \in Ids, Stop(t) \/ Withdraw(t) \/ Run(t) PROVE SignalParts'
  <2>1. UNCHANGED call
    BY <1>9, TaskStepTypes
  <2>2. \A s \in Calls : message'[s].type = message[s].type /\ message'[s].task = message[s].task
    <3>1. UNCHANGED message \/ Acknowledge(t)
      BY <1>9, RunReads DEF Stop, Withdraw, Reads
    <3> QED BY <1>0, <3>1 DEF Acknowledge, Message
  <2> QED BY <1>q, <2>1, <2>2
<1>10. CASE UNCHANGED vars
  BY <1>q, <1>10 DEF vars
<1> QED BY <1>1, <1>2, <1>3, <1>4, <1>5, <1>6, <1>7, <1>8, <1>9, <1>10 DEF Next, Send, Resume

\* What a run was told of stays with the run until it is read, becomes a turn of
\* its own, or is counted as late.
LEMMA HearStep ==
  Types /\ TurnParts /\ StartParts /\ SignalParts /\ HearParts /\ [Next]_vars => HearParts'
<1> SUFFICES ASSUME Types, TurnParts, StartParts, SignalParts, HearParts, [Next]_vars
             PROVE  HearParts'
  OBVIOUS
<1>0. call \in [Calls -> Call] /\ message \in [Calls -> Message] /\ Len(tasks) \in Nat
  BY DEF Types
<1>i. \A s \in Calls : message[s].task # None => message[s].task \in Ids
  BY DEF Types
\* A step that leaves the message of an instruction and what its run has of it.
<1>q. ASSUME \A s \in Calls :
               Hearer(s)' => Hearer(s) /\ message'[s].task = message[s].task,
             \A t \in Ids, s \in Calls :
               Hearer(s)' /\ message[s].task = t /\ Holds(s, tasks[t].state, wf[t])
               => Holds(s, tasks'[t].state, wf'[t])
      PROVE  HearParts'
  BY <1>i, <1>q DEF HearParts, Heard
<1>r. ASSUME \A s \in Calls : Hearer(s)' => Hearer(s) /\ message'[s].task = message[s].task,
             \A t \in Ids : wf'[t] = wf[t] /\ tasks'[t].state \in {tasks[t].state, "failed", "cancelled"}
      PROVE  HearParts'
  BY <1>q, <1>r DEF Holds
\* Nothing becomes an instruction that was heard while its message stays.
<1>m. ASSUME UNCHANGED message, \A c \in Calls : call'[c] = call[c] \/ call'[c].at # "mark"
      PROVE  \A s \in Calls : Hearer(s)' => Hearer(s) /\ message'[s].task = message[s].task
  BY <1>m DEF Hearer, At
<1>1. ASSUME NEW s \in Calls, Begin(s) PROVE HearParts'
  <2>1. \A c \in Calls : /\ message'[c].task = message[c].task /\ message'[c].type = message[c].type
                         /\ message'[c].delivery = message[c].delivery
    <3>1. CASE UNCHANGED message
      BY <3>1
    <3>2. ASSUME NEW turn, message' = [message EXCEPT ![s].turn = turn]
          PROVE  \A c \in Calls : /\ message'[c].task = message[c].task
                                  /\ message'[c].type = message[c].type
                                  /\ message'[c].delivery = message[c].delivery
      BY <1>0, <3>2 DEF Message
    <3> QED BY <1>1, <3>1, <3>2 DEF Begin
  <2>2. \A c \in Calls : call'[c] = call[c] \/ call'[c].at # "mark"
    BY <1>1, BeginMoves
  <2>3. \A c \in Calls : Hearer(c)' => Hearer(c)
    BY <2>1, <2>2 DEF Hearer, At
  <2> QED BY <1>r, <1>1, <2>1, <2>3 DEF Begin
<1>2. ASSUME NEW s \in Calls, WriteInstruction(s) PROVE HearParts'
  <2>1. message'[s].delivery = "pending" /\ UNCHANGED <<tasks, wf, call>> /\ At(s, "signal")
        /\ \A c \in Calls \ {s} : message'[c] = message[c]
    BY <1>0, <1>2 DEF WriteInstruction, Message
  <2>2. \A c \in Calls : Hearer(c)' => Hearer(c) /\ message'[c].task = message[c].task
    BY <2>1 DEF Hearer, At
  <2> QED BY <1>r, <2>1, <2>2
<1>3. ASSUME NEW s \in Calls, WriteTurn(s) \/ Promote(s) PROVE HearParts'
  <2>1. /\ \A c \in Calls \ {s} : call'[c] = call[c] /\ message'[c] = message[c]
        /\ call'[s].at = "start"
    BY <1>0, <1>3 DEF WriteTurn, Promote, Open
  <2>2. \A t \in Ids : wf'[t] = wf[t] /\ tasks'[t].state = tasks[t].state
    BY <1>3, TurnOpens
  <2>3. ~Hearer(s)'
    <3>1. CASE WriteTurn(s)
      <4>1. message[s].task = None
        BY <3>1 DEF WriteTurn, TurnParts
      <4>2. ~Hearer(s)
        BY <4>1 DEF HearParts, Heard
      <4>3. message'[s].type = message[s].type /\ message'[s].delivery = message[s].delivery
        BY <1>0, <3>1 DEF WriteTurn, Message
      <4> QED BY <2>1, <4>2, <4>3 DEF Hearer, At
    <3>2. CASE Promote(s)
      <4> DEFINE f == [message EXCEPT ![s].task = Len(tasks) + 1]
      <4>1. message' = [f EXCEPT ![s] = [f[s] EXCEPT !.type = "text"]]
        BY <3>2 DEF Promote
      <4>2. f[s] = [message[s] EXCEPT !.task = Len(tasks) + 1] /\ s \in DOMAIN f
        BY <1>0
      <4>3. message'[s] = [f[s] EXCEPT !.type = "text"]
        BY <4>1, <4>2
      <4>4. f[s] \in Message
        <5>m. message[s] \in Message /\ Len(tasks) + 1 \in Nat
          BY <1>0
        <5>1. [message[s] EXCEPT !.task = Len(tasks) + 1] \in Message
          BY <5>m DEF Message
        <5> HIDE DEF f
        <5> QED BY <4>2, <5>1
      <4>5. message'[s].type = "text"
        <5> HIDE DEF f
        <5> QED BY <4>3, <4>4 DEF Message
      <4> QED BY <4>5 DEF Hearer
    <3> QED BY <1>3, <3>1, <3>2
  <2> QED BY <1>r, <2>1, <2>2, <2>3 DEF Hearer, At
<1>4. ASSUME NEW s \in Calls, Signal(s) PROVE HearParts'
  <2> DEFINE t == call[s].task
  <2>1. t \in Ids /\ UNCHANGED <<tasks, message>> /\ At(s, "signal") /\ message[s].task = t
    BY <1>4 DEF Signal, SignalParts, Types, At, Tasked
  <2>2. PICK stage \in {"mark", "promote"} : Goto(s, stage)
    BY <1>4 DEF Signal
  <2>3. \A c \in Calls \ {s} : call'[c] = call[c]
    BY <2>2, OneMoves DEF Stages
  <2>4. \A r \in Calls, u \in Ids : Holds(r, tasks[u].state, wf[u]) => Holds(r, tasks[u].state, wf'[u])
    <3>1. CASE UNCHANGED wf
      BY <3>1
    <3>2. CASE Hear(t, s)
      <4>1. \A r \in Calls : Holds(r, tasks[t].state, wf[t]) => Holds(r, tasks[t].state, wf'[t])
        BY <2>1, <3>2, HearHolds
      <4>2. \A u \in Ids \ {t} : wf'[u] = wf[u]
        BY <3>2 DEF Hear, Types, Ids
      <4> QED BY <4>1, <4>2
    <3> QED BY <1>4, <3>1, <3>2 DEF Signal
  <2>5. ASSUME At(s, "mark")' PROVE Heard(s)'
    <3>1. Hear(t, s) /\ Alive(t)
      <4>1. ~Goto(s, "promote")
        BY <1>0, <2>5 DEF Goto, At, Call
      <4> QED BY <1>4, <4>1 DEF Signal
    <3>2. tasks[t].state # "completed" /\ tasks[t] \in Task
      BY <2>1, <3>1, Elements DEF StartParts, In, Alive
    <3>3. tasks[t].state \in Active \cup {"failed", "cancelled"}
      BY <3>2 DEF Task, Active, Terminal
    <3>4. Holds(s, tasks[t].state, wf'[t])
      BY <2>1, <3>1, <3>3, HearHolds
    <3>5. message'[s].task = t /\ t # None
      BY <2>1 DEF Ids, None
    <3> QED BY <2>1, <3>4, <3>5 DEF Heard
  <2>6. ASSUME NEW r \in Calls, Hearer(r)', ~At(s, "mark")' \/ r # s PROVE Heard(r)'
    <3>1. Hearer(r)
      BY <2>1, <2>3, <2>6 DEF Hearer, At
    <3>2. Heard(r) /\ message[r].task \in Ids
      BY <1>i, <3>1 DEF HearParts, Heard
    <3> QED BY <2>1, <2>4, <3>2 DEF Heard
  <2> QED BY <2>5, <2>6 DEF HearParts
<1>5. ASSUME NEW s \in Calls, Mark(s) PROVE HearParts'
  <2>1. /\ At(s, "mark") /\ call'[s].at = "over"
        /\ \A c \in Calls \ {s} : call'[c] = call[c]
    BY <1>0, <1>5 DEF Mark, Leave
  <2>2. \A c \in Calls : /\ message'[c].task = message[c].task /\ message'[c].type = message[c].type
                         /\ c # s => message'[c] = message[c]
    BY <1>0, <1>5 DEF Mark, Message
  <2>3. message'[s].delivery = "delivered" => message[s].delivery \in {"pending", "delivered"}
    BY <1>0, <1>5 DEF Mark, Message
  <2>4. ASSUME NEW c \in Calls, Hearer(c)' PROVE Hearer(c)
    <3>1. CASE c = s
      BY <2>1, <2>2, <2>3, <2>4, <3>1 DEF Hearer, At
    <3>2. CASE c # s
      BY <2>1, <2>2, <2>4, <3>2 DEF Hearer, At
    <3> QED BY <3>1, <3>2
  <2> QED BY <1>r, <1>5, <2>2, <2>4 DEF Mark
<1>6. ASSUME NEW r \in Calls, Press(r) \/ ClaimRefused(r) PROVE HearParts'
  <2>1. \A c \in Calls : call'[c] = call[c] \/ call'[c].at \in {"claim", "over"}
    <3>1. CASE Leave(r)
      BY <1>0, <3>1 DEF Leave
    <3>2. CASE call' = [call EXCEPT ![r].at = "claim", ![r].task = Len(tasks)]
      BY <1>0, <3>2 DEF Call
    <3> QED BY <1>6, <3>1, <3>2 DEF Press, ClaimRefused
  <2>2. UNCHANGED <<tasks, wf, message>>
    BY <1>6 DEF Press, ClaimRefused
  <2> QED BY <1>m, <1>r, <2>1, <2>2
<1>7. ASSUME NEW r \in Calls, Claim(r) PROVE HearParts'
  <2>1. \A c \in Calls : call'[c] = call[c] \/ call'[c].at = "start"
    BY <1>0, <1>7 DEF Claim, Open
  <2>2. \A c \in Calls : message'[c].type = "instruction" => message'[c] = message[c]
    BY <1>0, <1>7 DEF Claim, Message
  <2>3. \A c \in Calls : Hearer(c)' => Hearer(c) /\ message'[c].task = message[c].task
    BY <2>1, <2>2 DEF Hearer, At
  <2>4. ASSUME NEW t \in Ids, NEW s \in Calls, Holds(s, tasks[t].state, wf[t])
        PROVE  Holds(s, tasks'[t].state, wf'[t])
    <3>1. PICK w \in Workflow : Looked(w, call[r].task)
                                /\ \A u \in Ids : wf'[u] = IF u = call[r].task THEN w ELSE wf[u]
      BY <1>7, ClaimOpens
    <3>2. tasks'[t].state = tasks[t].state
      BY <1>7, ClaimOpens
    <3>3. CASE t = call[r].task
      BY <2>4, <3>1, <3>2, <3>3, LookHolds
    <3>4. CASE t # call[r].task
      BY <2>4, <3>1, <3>2, <3>4
    <3> QED BY <3>3, <3>4
  <2> QED BY <1>q, <2>3, <2>4
<1>8. ASSUME NEW c \in Calls, Crash(c) PROVE HearParts'
  <2>1. \A d \in Calls : call'[d] = call[d] \/ call'[d].at = "dead"
    BY <1>0, <1>8 DEF Crash
  <2>2. UNCHANGED <<tasks, wf, message>>
    BY <1>8 DEF Crash
  <2> QED BY <1>m, <1>r, <2>1, <2>2
<1>9. ASSUME NEW c \in Calls, Launch(c) PROVE HearParts'
  <2> DEFINE t == call[c].task
  <2>1. PICK stage \in {"record", "refused"} : Goto(c, stage) \/ Leave(c)
    BY <1>9 DEF Launch, Start, Record, Refused
  <2>2. UNCHANGED message /\ \A d \in Calls : call'[d] = call[d] \/ call'[d].at # "mark"
    BY <1>9, <2>1, OneMoves DEF Launch, Start, Record, Refused, Stages
  <2>3. Touches(t)
    BY <1>9, LaunchTypes
  <2>4. t \in Ids /\ \A u \in Ids \ {t} : tasks'[u] = tasks[u] /\ wf'[u] = wf[u]
    BY <2>3 DEF Touches
  <2>5. tasks[t] \in Task /\ t \in DOMAIN tasks
    BY <2>4, Elements DEF Types
  <2>6. CASE Start(c)
    <3>1. In(t, "none")
      BY <2>6 DEF Start, StartParts
    <3>2. \A s \in Calls : ~Holds(s, tasks[t].state, wf[t])
      BY <3>1 DEF In, Holds
    <3>3. \A u \in Ids, s \in Calls :
            Holds(s, tasks[u].state, wf[u]) => Holds(s, tasks'[u].state, wf'[u])
      BY <2>4, <3>2
    <3> QED BY <1>m, <1>q, <2>2, <3>3
  <2>7. CASE Record(c)
    <3>1. UNCHANGED wf /\ tasks'[t].state = tasks[t].state
      BY <2>5, <2>7 DEF Record, Task
    <3> QED BY <1>m, <1>r, <2>2, <2>4, <3>1
  <2>8. CASE Refused(c)
    <3>1. PICK w \in Workflow : Looked(w, t) /\ wf'[t] = w /\ tasks'[t].state = "failed"
      BY <2>8, RefusedRow
    <3>2. \A s \in Calls : Holds(s, tasks[t].state, wf[t]) => Holds(s, tasks'[t].state, wf'[t])
      <4>1. \A s \in Calls : Holds(s, tasks[t].state, wf[t]) => Holds(s, tasks[t].state, w)
        BY <2>4, <3>1, LookHolds
      <4> QED BY <3>1, <4>1 DEF Holds
    <3>3. \A u \in Ids, s \in Calls :
            Holds(s, tasks[u].state, wf[u]) => Holds(s, tasks'[u].state, wf'[u])
      BY <2>4, <3>2
    <3> QED BY <1>m, <1>q, <2>2, <3>3
  <2> QED BY <1>9, <2>6, <2>7, <2>8 DEF Launch
<1>10. ASSUME NEW t \in Ids, Stop(t) \/ Withdraw(t) \/ Run(t) PROVE HearParts'
  <2>1. Touches(t) /\ UNCHANGED call
    BY <1>10, TaskStepTypes
  <2>2. \A u \in Ids \ {t} : tasks'[u] = tasks[u] /\ wf'[u] = wf[u]
    BY <2>1 DEF Touches
  <2>3. CASE Stop(t) \/ Withdraw(t)
    <3>1. tasks[t] \in Task /\ t \in DOMAIN tasks
      BY Elements DEF Types
    <3>2. PICK w \in Workflow : Looked(w, t) /\ wf'[t] = w
      <4>1. CASE Stop(t)
        BY <4>1, StopRow
      <4>2. CASE Withdraw(t)
        BY <4>2, Elements, WithdrawRow DEF Looked
      <4> QED BY <2>3, <4>1, <4>2
    <3>3. tasks'[t].state \in {tasks[t].state, "cancelled"}
      BY <2>3, <3>1, StopRow, WithdrawRow
    <3>4. \A s \in Calls : Holds(s, tasks[t].state, wf[t]) => Holds(s, tasks'[t].state, wf'[t])
      <4>1. \A s \in Calls : Holds(s, tasks[t].state, wf[t]) => Holds(s, tasks[t].state, w)
        BY <3>2, LookHolds
      <4> QED BY <3>2, <3>3, <4>1 DEF Holds
    <3>5. UNCHANGED message
      BY <2>3 DEF Stop, Withdraw
    <3> QED BY <1>m, <1>q, <2>1, <2>2, <3>4, <3>5
  <2>4. CASE Run(t)
    <3>1. Reads(t)
      BY <2>4, RunReads
    <3>2. UNCHANGED message \/ Acknowledge(t)
      BY <3>1 DEF Reads
    <3>3. \A s \in Calls : /\ message'[s].type = message[s].type /\ message'[s].task = message[s].task
                           /\ message'[s].delivery \in {message[s].delivery, "consumed"}
      BY <1>0, <3>2 DEF Acknowledge, Message
    <3>4. \A s \in Calls : Hearer(s)' => Hearer(s) /\ message'[s].task = message[s].task
      BY <2>1, <3>3 DEF Hearer, At
    <3>5. ASSUME NEW s \in Calls, Hearer(s)', message[s].task = t, Holds(s, tasks[t].state, wf[t])
          PROVE  Holds(s, tasks'[t].state, wf'[t])
      BY <2>1, <3>1, <3>4, <3>5, RunHolds
    <3> QED BY <1>q, <2>2, <3>4, <3>5
  <2> QED BY <1>10, <2>3, <2>4
<1>11. CASE UNCHANGED vars
  BY <1>m, <1>r, <1>11 DEF vars
<1> QED BY <1>1, <1>2, <1>3, <1>4, <1>5, <1>6, <1>7, <1>8, <1>9, <1>10, <1>11
        DEF Next, Send, Resume

\* A run that completed has read each instruction it was told of, unless it came
\* during the final projection, or when there was no step left to take it: the
\* step loop looks for instructions once more after its clean-up.
THEOREM InstructionsAreRead == Spec => []HeardIsRead
<1>1. Init => StartParts /\ SignalParts /\ HearParts /\ TurnParts
  <2> SUFFICES ASSUME Init PROVE StartParts /\ SignalParts /\ HearParts /\ TurnParts
    OBVIOUS
  <2>1. \A c \in Calls : call[c].at = "idle"
    BY DEF Init
  <2>2. Ids = {1} /\ tasks[1].state = "queued"
    BY DEF Init, NewTask, Ids
  <2>3. \A s \in Calls : message[s].task = None /\ message[s].type = "text"
    BY DEF Init, NoMessage
  <2>4. StartParts /\ SignalParts /\ HearParts
    BY <2>1, <2>2, <2>3 DEF StartParts, SignalParts, HearParts, Hearer, At
  <2>5. TurnParts
    BY DEF Init, TurnParts, Guarded, At, OneTurnPerId, NoMessage
  <2> QED BY <2>4, <2>5
<1>2. Types /\ HearParts => HeardIsRead
  <2> SUFFICES ASSUME Types, HearParts, NEW s \in Calls,
                      message[s].delivery = "delivered", message[s].type = "instruction",
                      tasks[message[s].task].state = "completed"
               PROVE  s \in wf[message[s].task].late
    BY DEF HeardIsRead
  <2>1. Heard(s)
    BY DEF HearParts, Hearer
  <2> QED BY <2>1 DEF Heard, Holds
<1> QED BY <1>1, <1>2, TurnStep, StartStep, SignalStep, HearStep, TypesHold, PTL DEF Spec

-----------------------------------------------------------------------------
(* A turn that was withdrawn never runs.                                   *)

\* An admission that is about to start the run has seen each stamp but one that
\* came late.
Sighted == \A t \in Ids : In(t, "claiming") => tasks[t].stop # "set"

\* A withdrawal waits for the admission, and a stop that comes meanwhile is late
\* (resolve_snapshot_activity, change_queued, signal_task).
LEMMA SightedStep == Types /\ Sighted /\ [Next]_vars => Sighted'
<1> SUFFICES ASSUME Types, Sighted, [Next]_vars PROVE Sighted'
  OBVIOUS
<1>0. Len(tasks) \in Nat
  BY DEF Types
\* A workflow that comes to be claiming has read the row as it is left.
<1>q. ASSUME Ids' = Ids,
             \A u \in Ids :
               wf'[u].stage = "claiming"
               => \/ tasks'[u].stop = "late"
                  \/ /\ tasks'[u].stop = tasks[u].stop
                     /\ wf[u].stage = "claiming" \/ ~Withdrawn(u)
      PROVE  Sighted'
  BY <1>q DEF Sighted, In, Withdrawn
<1>1. ASSUME UNCHANGED <<tasks, wf>> PROVE Sighted'
  BY <1>1 DEF Sighted, Ids, In
<1>2. ASSUME NEW s \in Calls, Signal(s) PROVE Sighted'
  <2> DEFINE t == call[s].task
  <2>1. t \in Ids /\ UNCHANGED tasks
    BY <1>2 DEF Signal, Types, At, Tasked
  <2>2. \A u \in Ids : wf'[u].stage = wf[u].stage
    <3>1. CASE UNCHANGED wf
      BY <3>1
    <3>2. CASE Hear(t, s)
      <4>1. wf'[t].stage = wf[t].stage
        BY <2>1, <3>2, HearHolds
      <4>2. \A u \in Ids \ {t} : wf'[u] = wf[u]
        BY <3>2 DEF Hear, Types, Ids
      <4> QED BY <4>1, <4>2
    <3> QED BY <1>2, <3>1, <3>2 DEF Signal
  <2> QED BY <1>q, <2>1, <2>2 DEF Ids
<1>3. ASSUME NEW t \in Ids, Touches(t),
             wf'[t].stage = "claiming"
             => \/ tasks'[t].stop = "late"
                \/ /\ tasks'[t].stop = tasks[t].stop
                   /\ wf[t].stage = "claiming" \/ ~Withdrawn(t)
      PROVE  Sighted'
  <2>1. Ids' = Ids /\ \A u \in Ids \ {t} : tasks'[u] = tasks[u] /\ wf'[u] = wf[u]
    BY <1>3 DEF Touches, Ids
  <2> QED BY <1>q, <1>3, <2>1
<1>4. ASSUME NEW c \in Calls, Launch(c) PROVE Sighted'
  <2> DEFINE t == call[c].task
  <2>1. Touches(t) /\ t \in Ids
    BY <1>4, LaunchTypes DEF Touches
  <2>2. tasks[t] \in Task /\ wf[t] \in Workflow /\ t \in DOMAIN tasks /\ t \in DOMAIN wf
    BY <2>1, Elements DEF Types
  <2>3. CASE Start(c)
    <3>1. UNCHANGED tasks /\ (wf' = wf \/ wf'[t].stage = "admit")
      BY <2>2, <2>3 DEF Start, Workflow
    <3> QED BY <1>1, <1>3, <2>1, <3>1
  <2>4. CASE Record(c)
    BY <1>3, <2>1, <2>2, <2>4 DEF Record, Task
  <2>5. CASE Refused(c)
    <3>1. PICK w \in Workflow : /\ Looked(w, t) /\ wf'[t] = w
                                /\ tasks'[t].stop = tasks[t].stop
      BY <2>5, RefusedRow
    <3> QED BY <1>3, <2>1, <3>1 DEF Looked
  <2> QED BY <1>4, <2>3, <2>4, <2>5 DEF Launch
<1>5. ASSUME NEW t \in Ids, Stop(t) \/ Withdraw(t) \/ Run(t) PROVE Sighted'
  <2>1. Touches(t)
    BY <1>5, TaskStepTypes
  <2>2. CASE Stop(t)
    BY <1>3, <2>1, <2>2, StopRow
  <2>3. CASE Withdraw(t)
    BY <1>3, <2>1, <2>3, WithdrawRow
  <2>4. CASE Run(t)
    <3>1. wf'[t].stage # "claiming"
      BY <2>4, RunReads DEF Reads
    <3> QED BY <1>3, <2>1, <3>1
  <2> QED BY <1>5, <2>2, <2>3, <2>4
<1>6. ASSUME NEW c \in Calls, WriteTurn(c) \/ Promote(c) \/ Claim(c) PROVE Sighted'
  <2> DEFINE n == Len(tasks)
  <2>1. \E after, from : Opens(after, from)
    BY <1>6, TurnOpens, ClaimOpens
  <2>2. Ids' = Ids \cup {n + 1} /\ wf'[n + 1].stage = "none"
    BY <1>0, <2>1 DEF Opens, Ids, NoWorkflow
  <2>3. \A u \in Ids : /\ tasks'[u].stop = tasks[u].stop
                       /\ wf'[u].stage = "claiming" => In(u, "claiming") \/ ~Withdrawn(u)
    <3>1. CASE WriteTurn(c) \/ Promote(c)
      BY <3>1, TurnOpens DEF In
    <3>2. CASE Claim(c)
      BY <3>2, ClaimOpens DEF Looked, In
    <3> QED BY <1>6, <3>1, <3>2
  <2> QED BY <2>2, <2>3 DEF Sighted, In, Withdrawn
<1> QED BY <1>1, <1>2, <1>4, <1>5, <1>6
        DEF Next, vars, Send, Resume, Begin, WriteInstruction, Mark, Press, ClaimRefused, Crash

\* A turn that was withdrawn before its run began never gets one, whatever a
\* failed start has written over the state; nor does one that was stopped, but
\* while an admission that had read its row was under way.
THEOREM WithdrawnStaysOut == Spec => WithdrawnNeverRuns
<1>1. ASSUME Types, Sighted, [Next]_vars, NEW t \in Ids, tasks[t].stop = "set", ~wf[t].ran
      PROVE  ~wf'[t].ran
  <2>0. wf[t] \in Workflow /\ t \in 1..Len(wf)
    BY <1>1, Elements
  <2>1. CASE wf'[t].ran = wf[t].ran
    BY <1>1, <2>1
  <2>2. ASSUME NEW u \in Ids, u # t, Run(u) \/ Stop(u) PROVE wf'[t] = wf[t]
    BY <1>1, <2>2, TaskStepTypes DEF Touches
  <2>3. ASSUME Run(t) PROVE wf'[t].ran = wf[t].ran
    <3>1. ~Admit(t)
      <4> SUFFICES ASSUME NEW w \in Looks(t), w.stage = "claiming" PROVE FALSE
        BY DEF Admit
      <4>1. wf[t].stage = "claiming" \/ ~Withdrawn(t)
        BY <1>1, LooksType DEF Looked
      <4> QED BY <1>1, <4>1 DEF Sighted, In, Withdrawn
    <3>2. \A w \in Workflow, o \in Terminal : Ending(w, o).ran = w.ran
      BY DEF Ending, Workflow
    <3>3. ASSUME NEW w \in Workflow, NEW done \in BOOLEAN PROVE Loop(t, w, done).ran = w.ran
      BY <3>2 DEF Loop, Workflow, Terminal
    <3>4. CASE Queue(t)
      <4>1. PICK w0 \in Looks(t), w1 \in Workflow :
              w1.ran = w0.ran /\ wf' = [wf EXCEPT ![t] = w1]
        BY <1>1, <3>4, QueueRow
      <4>2. w0.ran = wf[t].ran
        BY <1>1, LooksType DEF Looked
      <4> QED BY <1>1, <2>0, <4>1, <4>2 DEF Types
    <3>5. CASE Deny(t) \/ StepFails(t)
      <4>1. PICK o \in Terminal : wf' = [wf EXCEPT ![t] = Ending(wf[t], o)]
        BY <1>1, <3>5, DenyRow DEF StepFails, End, Terminal
      <4> QED BY <1>1, <2>0, <3>2, <4>1 DEF Types
    <3>6. CASE EndStep(t)
      <4> DEFINE w == [wf[t] EXCEPT !.steps = wf[t].steps + 1]
      <4>1. PICK done \in BOOLEAN : wf' = [wf EXCEPT ![t] = Loop(t, w, done)]
        BY <3>6 DEF EndStep
      <4>2. wf[t].steps < MaxSteps
        BY <1>1, <3>6 DEF Types, Fit, EndStep, In
      <4>3. w \in Workflow /\ w.ran = wf[t].ran
        BY <2>0, <4>2, ConversationsAssumption DEF Workflow
      <4> HIDE DEF w
      <4> QED BY <1>1, <2>0, <3>3, <4>1, <4>3 DEF Types
    <3>7. CASE LastLook(t)
      <4>1. Ending(wf[t], "completed") \in Workflow
        BY <2>0, EndingType DEF Terminal
      <4>2. [Ending(wf[t], "completed") EXCEPT !.late = wf[t].pending].ran = wf[t].ran
        BY <2>0, <3>2, <4>1 DEF Workflow, Terminal
      <4>3. \E w : wf' = [wf EXCEPT ![t] = w] /\ w.ran = wf[t].ran
        BY <2>0, <3>3, <3>7, <4>2 DEF LastLook
      <4> QED BY <1>1, <2>0, <4>3 DEF Types
    <3>8. CASE Finalize(t)
      BY <1>1, <2>0, <3>8 DEF Finalize, Types, Workflow
    <3> QED BY <2>3, <3>1, <3>4, <3>5, <3>6, <3>7, <3>8 DEF Run
  <2>4. ASSUME Stop(t) PROVE wf'[t].ran = wf[t].ran
    BY <1>1, <2>4, StopRow DEF Looked
  <2>5. ASSUME NEW c \in Calls, Signal(c) \/ Start(c) PROVE wf'[t].ran = wf[t].ran
    <3>1. CASE wf' = wf
      BY <3>1
    <3>2. CASE \E w : /\ wf' = [wf EXCEPT ![call[c].task] = w]
                      /\ call[c].task \in Ids => w.ran = wf[call[c].task].ran
      BY <1>1, <2>0, <3>2 DEF Types
    <3>3. \A w \in Workflow : /\ [w EXCEPT !.stage = "admit"].ran = w.ran
                              /\ [w EXCEPT !.late = w.late \cup {c}].ran = w.ran
                              /\ [w EXCEPT !.pending = w.pending \cup {c}].ran = w.ran
      BY DEF Workflow
    <3>4. call[c].task \in Ids => wf[call[c].task] \in Workflow
      BY <1>1, Elements
    <3> QED BY <2>5, <3>1, <3>2, <3>3, <3>4 DEF Signal, Hear, Start
  <2>6. ASSUME NEW c \in Calls, WriteTurn(c) \/ Promote(c) PROVE wf'[t].ran = wf[t].ran
    BY <1>1, <2>6, TurnOpens
  <2>7. ASSUME NEW c \in Calls, Claim(c) PROVE wf'[t].ran = wf[t].ran
    BY <1>1, <2>7, ClaimOpens DEF Looked
  <2>8. ASSUME NEW c \in Calls, Refused(c) PROVE wf'[t].ran = wf[t].ran
    <3>1. PICK u \in Ids, w \in Workflow : Touches(u) /\ wf'[u] = w /\ Looked(w, u)
      BY <1>1, <2>8, RefusedRow
    <3>2. CASE u = t
      BY <3>1, <3>2 DEF Looked
    <3>3. CASE u # t
      BY <1>1, <3>1, <3>3 DEF Touches
    <3> QED BY <3>2, <3>3
  <2> QED BY <1>1, <2>1, <2>2, <2>3, <2>4, <2>5, <2>6, <2>7, <2>8
          DEF Next, vars, Send, Resume, Launch, Begin, WriteInstruction, Mark, Press, ClaimRefused,
              Record, Crash, Withdraw
<1>2. Types /\ Sighted /\ [Next]_vars
      => [\A t \in Ids : tasks[t].stop = "set" /\ ~wf[t].ran => ~wf'[t].ran]_vars
  BY <1>1
<1>3. Init => Sighted
  BY DEF Init, Sighted, In, Ids, NewTask, NoWorkflow
<1> QED BY <1>2, <1>3, SightedStep, TypesHold, PTL DEF Spec, WithdrawnNeverRuns

=============================================================================
