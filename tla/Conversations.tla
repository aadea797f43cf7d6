---------------------------- MODULE Conversations ----------------------------
(***************************************************************************)
(* One conversation, between the API calls that send a turn or pick a      *)
(* failed one back up, and the workflows that run its turns.               *)
(*                                                                         *)
(* A turn is a task row, a message row and a workflow, written by three    *)
(* commits and one remote call: the API commits the rows, starts or        *)
(* signals the workflow, and then commits what came of it.  Here are the   *)
(* orders in which these meet the steps of a run.  What a step does, slots *)
(* and pauses are AgentTask's business; the files, the project and the     *)
(* editorial assignment of a turn, and an archived chat, are left out.     *)
(***************************************************************************)
EXTENDS Naturals, Sequences, FiniteSets

CONSTANTS
  MaxSteps,      \* run_limits.max_steps
  MaxStops,      \* bound: turns that people stop or withdraw
  MaxCalls,      \* bound: requests that are delivered
  MaxMishaps,    \* bound: how often something goes wrong
  Faults         \* what may go wrong at Temporal, of PossibleFaults

PossibleFaults ==
  {"failure",      \* an activity of a run fails for good
   "crash",        \* the API dies after its first commit
   "unreachable",  \* a start or a signal fails
   "unconfirmed"}  \* a start or a signal arrives, and its answer does not

ASSUME ConversationsAssumption ==
  /\ MaxSteps \in Nat \ {0} /\ MaxStops \in Nat
  /\ MaxCalls \in Nat /\ MaxMishaps \in Nat
  /\ Faults \subseteq PossibleFaults

VARIABLES
  tasks,    \* the task rows of the conversation, oldest first
  message,  \* the message row that a call wrote
  wf,       \* the workflow of a task
  lock,     \* who holds the row lock of the conversation
  call,     \* the API calls under way
  mishaps   \* how often something went wrong

vars == <<tasks, message, wf, lock, call, mishaps>>

Calls == 1..MaxCalls  \* numbered as they arrive
None == 0
Ids == 1..Len(tasks)

Active == {"queued", "running"}
Terminal == {"completed", "failed", "cancelled"}

\* stop_requested_at is set too late when an admission that starts the run has
\* read the row before, and lost when one that queues the turn wrote over it.
Stamps == {"none", "set", "late", "lost"}

Task ==
  [state : Active \cup Terminal,
   after : Nat,          \* queue_after_task_id, or None
   known : BOOLEAN,      \* is temporal_workflow_id set?
   stop : Stamps,
   from : Nat, by : Nat, \* the links of a turn that was resumed, or None
   cut : BOOLEAN,        \* history: has an admission written over the second one?
   doubt : BOOLEAN]      \* has it a call nobody can account for?

\* What the commit of an admission compares and writes.
Row == [state : Active \cup Terminal, by : Nat]

\* turn is the client_turn_id.  An unwritten message has no task.
Message ==
  [task : Nat, turn : Nat, type : {"text", "instruction"},
   delivery : {"none", "pending", "delivered", "consumed"}]

Workflow ==
  [stage : {"none", "admit", "claiming", "refusing", "step", "cleanup", "finalize", "over"},
   row : Row,               \* the row of the task, as the admission read it
   pending : SUBSET Calls,  \* _pending_instructions
   late : SUBSET Calls,     \* history: instructions with no step left to take them
   seen : SUBSET Calls,     \* the instructions in the history a step reads
   cancelled : BOOLEAN, ran : BOOLEAN,
   steps : 0..MaxSteps,
   outcome : Terminal \cup {"none"}]

Stages ==
  {"idle", "write", "signal", "mark", "promote", "claim", "start", "record",
   "refused", "dead", "over"}
Call == [at : Stages, task : Nat, known : BOOLEAN]

TypeOK ==
  /\ tasks \in Seq(Task)
  /\ Len(tasks) <= 1 + MaxCalls
  /\ message \in [Calls -> Message]
  /\ wf \in [Ids -> Workflow]
  /\ lock \in Calls \cup {None}
  /\ call \in [Calls -> Call]
  /\ mishaps \in 0..MaxMishaps
  /\ \A t \in Ids : tasks[t].after < t /\ tasks[t].from < t /\ tasks[t].by \in Ids \cup {None}
  /\ \A s \in Calls : message[s].task \in Ids \cup {None}

At(c, stage) == call[c].at = stage
Goto(c, stage) == call' = [call EXCEPT ![c].at = stage]
Leave(c) == call' = [call EXCEPT ![c] = [at |-> "over", task |-> None, known |-> FALSE]]
In(t, stage) == wf[t].stage = stage
Arrives(c) == At(c, "idle") /\ \A d \in 1..(c - 1) : ~At(d, "idle")
Newest(T) == IF T = {} THEN None ELSE CHOOSE t \in T : \A u \in T : u <= t
InState(S) == {t \in Ids : tasks[t].state \in S}

\* _active_task
Current ==
  IF InState({"running"}) # {} THEN Newest(InState({"running"})) ELSE Newest(InState({"queued"}))

NewTask(after, from) ==
  [state |-> "queued", after |-> after, known |-> FALSE, stop |-> "none",
   from |-> from, by |-> None, cut |-> FALSE, doubt |-> FALSE]
Unread == [state |-> "queued", by |-> None]
NoWorkflow ==
  [stage |-> "none", row |-> Unread, pending |-> {}, late |-> {}, seen |-> {}, cancelled |-> FALSE,
   ran |-> FALSE, steps |-> 0, outcome |-> "none"]

NoMessage == [task |-> None, turn |-> None, type |-> "text", delivery |-> "none"]

\* The first turn of the conversation has been sent and started.
Init ==
  /\ tasks = <<[NewTask(None, None) EXCEPT !.known = TRUE]>>
  /\ message = [s \in Calls |-> NoMessage]
  /\ wf = <<[NoWorkflow EXCEPT !.stage = "admit"]>>
  /\ lock = None
  /\ call = [c \in Calls |-> [at |-> "idle", task |-> None, known |-> FALSE]]
  /\ mishaps = 0

\* A row, with its workflow still to be started by the call c.
Open(c, rows, wfs, after, from) ==
  /\ tasks' = Append(rows, NewTask(after, from))
  /\ wf' = Append(wfs, NoWorkflow)
  /\ call' = [call EXCEPT ![c] = [at |-> "start", task |-> Len(rows) + 1, known |-> FALSE]]

Mishap(fault) ==
  /\ fault \in Faults /\ mishaps < MaxMishaps
  /\ mishaps' = mishaps + 1

-----------------------------------------------------------------------------
(* Sending a turn.                                                         *)

\* Wrong: the row is not locked before the rows are read.
Unguarded == TRUE

Free == lock = None

\* A turn, or one that was sent before and is delivered again: _existing_turn
\* answers for both.
Begin(s) ==
  /\ Arrives(s) /\ Free
  /\ \E turn \in 1..s :
       IF \E r \in Calls : message[r].turn = turn /\ message[r].task # None
         THEN Leave(s) /\ UNCHANGED <<lock, message>>
         ELSE /\ lock' = s
              /\ message' = [message EXCEPT ![s].turn = turn]
              /\ \E queue \in BOOLEAN :
                   LET t == IF queue THEN Newest(InState(Active)) ELSE Current
                   IN  call' = [call EXCEPT ![s] =
                         [at |-> IF queue \/ t = None THEN "write" ELSE "signal",
                          task |-> t, known |-> t # None /\ tasks[t].known]]
  /\ UNCHANGED <<tasks, wf, mishaps>>

\* The task and its message, in one commit.
WriteTurn(s) ==
  /\ At(s, "write")
  /\ Open(s, tasks, wf, call[s].task, None)
  /\ message' = [message EXCEPT ![s].task = Len(tasks) + 1]
  /\ lock' = None
  /\ UNCHANGED mishaps

\* Steering: the instruction is committed before the run is told of it.
WriteInstruction(s) ==
  /\ At(s, "signal") /\ message[s].task = None
  /\ message' = [message EXCEPT ![s] =
                   [@ EXCEPT !.task = call[s].task, !.type = "instruction", !.delivery = "pending"]]
  /\ lock' = None
  /\ UNCHANGED <<tasks, wf, call, mishaps>>

Alive(t) == wf[t].stage \notin {"none", "over"}

Hear(t, s) ==
  IF wf[t].stage = "finalize"
    THEN wf' = [wf EXCEPT ![t].late = @ \cup {s}]
    ELSE wf' = [wf EXCEPT ![t].pending = @ \cup {s}]

\* signal_task works on the row as it was read under the lock: a workflow that
\* was not recorded by then cannot be reached.
Signal(s) ==
  LET t == call[s].task
      reached == call[s].known /\ Alive(t)
  IN  /\ At(s, "signal") /\ message[s].task # None
      /\ \/ reached /\ Hear(t, s) /\ Goto(s, "mark") /\ UNCHANGED mishaps
         \/ reached /\ Mishap("unconfirmed") /\ Hear(t, s) /\ Goto(s, "promote")
         \/ reached /\ Mishap("unreachable") /\ Goto(s, "promote") /\ UNCHANGED wf
         \/ ~reached /\ Goto(s, "promote") /\ UNCHANGED <<wf, mishaps>>
      /\ UNCHANGED <<tasks, message, lock>>

Mark(s) ==
  /\ At(s, "mark")
  /\ message' = [message EXCEPT ![s].delivery = IF @ = "pending" THEN "delivered" ELSE @]
  /\ Leave(s)
  /\ UNCHANGED <<tasks, wf, lock, mishaps>>

\* The run is thought to be over: the instruction becomes a turn of its own.
\* The conversation is no longer locked.
Promote(s) ==
  /\ At(s, "promote")
  /\ Open(s, tasks, wf, None, None)
  /\ message' = [message EXCEPT ![s].task = Len(tasks) + 1, ![s].type = "text"]
  /\ UNCHANGED <<lock, mishaps>>

-----------------------------------------------------------------------------
(* What admission reads: resolve_snapshot_activity is one transaction that *)
(* holds the lock of the workspace, but none of the row of the task.       *)

Withdrawn(t) == tasks[t].stop \in {"set", "late"} \/ tasks[t].state = "cancelled"

Waits(t) == tasks[t].after # None /\ tasks[tasks[t].after].state \in Active

Unlocked == \A t \in Ids : wf[t].stage \notin {"claiming", "refusing"}

Look(t) ==
  [wf[t] EXCEPT !.stage = IF Waits(t) THEN "refusing" ELSE "claiming",
                !.row = [state |-> tasks[t].state, by |-> tasks[t].by]]

\* The workflow, before and after a look.  A look is one step with what comes
\* next: the commit of the admission, or the first change of the row that it
\* does not see.
Looks(t) ==
  {wf[t]} \cup (IF In(t, "admit") /\ Unlocked /\ ~Withdrawn(t) THEN {Look(t)} ELSE {})

-----------------------------------------------------------------------------
(* Picking a failed turn back up.                                          *)

Press(r) ==
  /\ Arrives(r)
  /\ IF tasks[Len(tasks)].state = "failed"
       THEN call' = [call EXCEPT ![r].at = "claim", ![r].task = Len(tasks)]
       ELSE Leave(r)
  /\ UNCHANGED <<tasks, message, wf, lock, mishaps>>

\* Wrong: the row that was read before the lock does not show the other press.
OfferedAsRead(t) == tasks[t].state = "failed" /\ ~tasks[t].doubt

\* Read again under the row lock of the failed task.
Offered(t) == tasks[t].by = None /\ tasks[t].state = "failed" /\ ~tasks[t].doubt

\* The person's message moves to the successor; an instruction stays.
Claim(r) ==
  LET t == call[r].task
  IN  /\ At(r, "claim") /\ Offered(t)
      /\ \E w \in Looks(t) :
           Open(r, [tasks EXCEPT ![t].by = Len(tasks) + 1], [wf EXCEPT ![t] = w], None, t)
      /\ message' = [s \in Calls |->
           IF message[s].task = t /\ message[s].type = "text"
             THEN [message[s] EXCEPT !.task = Len(tasks) + 1]
             ELSE message[s]]
      /\ UNCHANGED <<lock, mishaps>>

ClaimRefused(r) ==
  /\ At(r, "claim") /\ ~Offered(call[r].task)
  /\ Leave(r)
  /\ UNCHANGED <<tasks, message, wf, lock, mishaps>>

-----------------------------------------------------------------------------
(* start_workflow, after the commit of the rows.                           *)

Start(c) ==
  LET started == wf' = [wf EXCEPT ![call[c].task].stage = "admit"]
  IN  /\ At(c, "start")
      /\ \/ started /\ Goto(c, "record") /\ UNCHANGED mishaps
         \/ Mishap("unconfirmed") /\ started /\ Goto(c, "refused")
         \/ Mishap("unreachable") /\ Goto(c, "refused") /\ UNCHANGED wf
      /\ UNCHANGED <<tasks, message, lock>>

Record(c) ==
  /\ At(c, "record")
  /\ tasks' = [tasks EXCEPT ![call[c].task].known = TRUE]
  /\ Leave(c)
  /\ UNCHANGED <<message, wf, lock, mishaps>>

\* Wrong: the caller is told, and the row is left as it was.
RefusedSilently(c) ==
  /\ At(c, "refused")
  /\ Leave(c)
  /\ UNCHANGED <<tasks, message, wf, lock, mishaps>>

\* Whatever the row says by now: the state was loaded before the start.
Refused(c) ==
  /\ At(c, "refused")
  /\ tasks' = [tasks EXCEPT ![call[c].task].state = "failed"]
  /\ \E w \in Looks(call[c].task) : wf' = [wf EXCEPT ![call[c].task] = w]
  /\ Leave(c)
  /\ UNCHANGED <<message, lock, mishaps>>

Dead == {c \in Calls : At(c, "dead")}

Crash(c) ==
  /\ Mishap("crash")
  /\ call[c].at \in {"signal", "mark", "promote", "start", "record", "refused"}
  /\ lock # c
  /\ call' = [call EXCEPT ![c] = [at |-> "dead", task |-> None, known |-> FALSE]]
  /\ UNCHANGED <<tasks, message, wf, lock>>

-----------------------------------------------------------------------------
(* Stopping the current turn, and withdrawing one that waits.              *)

MayStop(t) ==
  tasks[t].stop = "none" /\ Cardinality({u \in Ids : tasks[u].stop # "none"}) < MaxStops

\* The stamp is committed under no lock, then the workflow is told: or the signal
\* is lost.
Stop(t) ==
  /\ t = Current /\ MayStop(t)
  /\ \E w \in Looks(t) :
       /\ tasks' = [tasks EXCEPT ![t].stop = IF w.stage = "claiming" THEN "late" ELSE "set"]
       /\ \/ tasks[t].known /\ Alive(t)
             /\ wf' = [wf EXCEPT ![t] = [w EXCEPT !.cancelled = ~In(t, "finalize")]]
          \/ wf' = [wf EXCEPT ![t] = w]
  /\ UNCHANGED <<message, lock, call, mishaps>>

Cancelled(t) == tasks' = [tasks EXCEPT ![t].state = "cancelled", ![t].stop = "set"]

\* Wrong: the workspace is not locked.
WithdrawUnlocked(t) ==
  /\ tasks[t].state = "queued" /\ ~wf[t].ran /\ MayStop(t)
  /\ Cancelled(t)
  /\ \E w \in Looks(t) : wf' = [wf EXCEPT ![t] = w]
  /\ UNCHANGED <<message, lock, call, mishaps>>

\* Like an admission, change_queued locks the workspace.
Withdraw(t) ==
  /\ Unlocked
  /\ tasks[t].state = "queued" /\ ~wf[t].ran /\ MayStop(t)
  /\ Cancelled(t)
  /\ UNCHANGED <<message, wf, lock, call, mishaps>>

-----------------------------------------------------------------------------
(* The workflow of a turn.                                                 *)

Instructions(t) == {s \in Calls : message[s].task = t /\ message[s].type = "instruction"}

\* What the workflow still holds is not looked at again.
Ending(w, outcome) ==
  [w EXCEPT !.stage = "finalize", !.outcome = outcome, !.row = Unread,
            !.pending = {}, !.seen = {}, !.cancelled = FALSE, !.steps = 0]
End(t, outcome) == wf' = [wf EXCEPT ![t] = Ending(@, outcome)]

\* The head of the step loop.  A step takes the instructions signalled so far,
\* and reads all that the transcript has.  A run that is done is cleaned up
\* before it looks at its instructions one last time.
Loop(t, w, done) ==
  IF w.cancelled THEN Ending(w, "cancelled")
  ELSE IF (~done \/ w.pending # {}) /\ w.steps < MaxSteps
    THEN [w EXCEPT !.stage = "step", !.pending = {}, !.seen = Instructions(t)]
  ELSE IF done THEN [w EXCEPT !.stage = "cleanup", !.seen = {}]
  ELSE Ending(w, "failed")

Settled(stop) == IF stop = "late" THEN "set" ELSE stop

\* A commit writes the columns that differ from the row that was read, and where
\* an entry of the queue comes, changes or goes, metadata_json as it was read.
\* Nobody asks for the stamp of a turn that has its run: whether that one is still
\* there makes no difference.
WriteBack(t, row, state) ==
  LET written == [tasks[t] EXCEPT !.state = IF row.state = state THEN @ ELSE state]
  IN  \/ tasks' = [tasks EXCEPT ![t] = [written EXCEPT !.stop = Settled(@)]]
      \/ tasks' = [tasks EXCEPT ![t] =
                     [written EXCEPT !.stop = IF state = "queued" /\ @ # "none" THEN "lost" ELSE Settled(@),
                                     !.by = row.by,
                                     !.cut = @ \/ tasks[t].by # row.by]]

\* Admission does not ask whether the row has failed.
Admit(t) ==
  /\ \E w \in Looks(t) :
       /\ w.stage = "claiming"
       /\ WriteBack(t, w.row, "running")
       /\ wf' = [wf EXCEPT ![t] = Loop(t, [w EXCEPT !.ran = TRUE, !.row = Unread], FALSE)]
  /\ UNCHANGED <<message, lock, call, mishaps>>

Queue(t) ==
  /\ \E w \in Looks(t) :
       /\ w.stage = "refusing"
       /\ WriteBack(t, w.row, "queued")
       /\ wf' = [wf EXCEPT ![t] = [w EXCEPT !.stage = "admit", !.row = Unread]]
  /\ UNCHANGED <<message, lock, call, mishaps>>

\* A queued run hears of the stop, the row shows it, or an admission fails.
Deny(t) ==
  /\ \/ In(t, "admit") /\ wf[t].cancelled /\ End(t, "cancelled") /\ UNCHANGED mishaps
     \/ In(t, "admit") /\ Unlocked /\ Withdrawn(t) /\ End(t, "cancelled") /\ UNCHANGED mishaps
     \/ /\ \E w \in Looks(t) : w.stage = "claiming"
        /\ End(t, "failed") /\ Mishap("failure")
  /\ UNCHANGED <<tasks, message, lock, call>>

\* _acknowledge_instructions
Acknowledge(t) ==
  message' = [s \in Calls |->
    IF s \in wf[t].seen \cap Instructions(t)
      THEN [message[s] EXCEPT !.delivery = "consumed"] ELSE message[s]]

EndStep(t) ==
  /\ In(t, "step")
  /\ Acknowledge(t)
  /\ \E done \in BOOLEAN :
       wf' = [wf EXCEPT ![t] = Loop(t, [wf[t] EXCEPT !.steps = wf[t].steps + 1], done)]
  /\ UNCHANGED <<tasks, lock, call, mishaps>>

\* An activity of the step fails for good, before or after its reasoning is
\* committed; a tool may have been running.
StepFails(t) ==
  /\ In(t, "step") /\ Mishap("failure")
  /\ \/ UNCHANGED <<tasks, message>>
     \/ Acknowledge(t)
        /\ \E doubt \in BOOLEAN : tasks' = [tasks EXCEPT ![t].doubt = doubt]
  /\ End(t, IF wf[t].cancelled THEN "cancelled" ELSE "failed")
  /\ UNCHANGED <<lock, call>>

\* Wrong: the run ends without the last look.
NoLastLook(t) ==
  /\ In(t, "cleanup")
  /\ End(t, "completed")
  /\ UNCHANGED <<tasks, message, lock, call, mishaps>>

LastLook(t) ==
  /\ In(t, "cleanup")
  /\ IF wf[t].pending # {} /\ wf[t].steps < MaxSteps
       THEN wf' = [wf EXCEPT ![t] = Loop(t, @, FALSE)]
       ELSE wf' = [wf EXCEPT ![t] = [Ending(@, "completed") EXCEPT !.late = wf[t].pending]]
  /\ UNCHANGED <<tasks, message, lock, call, mishaps>>

Finalize(t) ==
  /\ In(t, "finalize")
  /\ tasks' = [tasks EXCEPT ![t].state = wf[t].outcome]
  /\ wf' = [wf EXCEPT ![t].stage = "over", ![t].outcome = "none"]
  /\ UNCHANGED <<message, lock, call, mishaps>>

-----------------------------------------------------------------------------

Send(s) ==
  \/ Begin(s) \/ WriteTurn(s) \/ WriteInstruction(s) \/ Signal(s) \/ Mark(s) \/ Promote(s)
Resume(r) == Press(r) \/ Claim(r) \/ ClaimRefused(r)
Launch(c) == Start(c) \/ Record(c) \/ Refused(c)
Run(t) ==
  \/ Admit(t) \/ Queue(t) \/ Deny(t)
  \/ EndStep(t) \/ StepFails(t) \/ LastLook(t) \/ Finalize(t)

Next ==
  \/ \E c \in Calls : Send(c) \/ Resume(c) \/ Launch(c) \/ Crash(c)
  \/ \E t \in Ids : Stop(t) \/ Withdraw(t) \/ Run(t)

Spec == Init /\ [][Next]_vars

\* A call under way and a workflow go on; nobody has to press anything.
Fairness == WF_vars((\E c \in Calls : Launch(c)) \/ \E t \in Ids : Run(t))
FairSpec == Spec /\ Fairness

-----------------------------------------------------------------------------
(* Properties.                                                             *)

\* However often a turn is delivered, it makes one message.  Two deliveries of
\* one client_turn_id meet at the row lock that _run_turn takes before it looks
\* for an existing turn.
OneTurnPerId ==
  \A s, r \in Calls :
    message[s].task # None /\ message[r].task # None /\ message[s].turn = message[r].turn => s = r

\* A failed turn has one successor, however many presses overlap: the stamp is
\* read again under the row lock, and written with the successor.  A turn whose
\* workflow lives on, and writes over the stamp, may get another one.
ResumedOnce ==
  \A t, u \in Ids :
    tasks[t].from # None /\ tasks[t].from = tasks[u].from => t = u \/ tasks[tasks[t].from].cut

\* A turn that was withdrawn before it had a run never gets one, also when its
\* start was reported as failed, which overwrites the state that withdrew it.
\* Nor does one that was stopped, unless the stop came while an admission that
\* had read the row was under way (resolve_snapshot_activity, change_queued,
\* signal_task).
WithdrawnNeverRuns ==
  [][\A t \in Ids : tasks[t].stop = "set" /\ ~wf[t].ran => ~wf'[t].ran]_vars

\* An instruction that a completed run was told of has been read, unless it came
\* during the final projection, or there was no step left to take it.
HeardIsRead ==
  \A s \in Calls :
    LET t == message[s].task
    IN  /\ message[s].delivery = "delivered" /\ message[s].type = "instruction"
        /\ tasks[t].state = "completed"
        => s \in wf[t].late

\* No turn is left silently queued: it ends, or the call that was to start one
\* of them died.
EveryTurnEnds ==
  []<>(Dead # {} \/ \A t \in Ids : tasks[t].state \in Terminal)

=============================================================================
