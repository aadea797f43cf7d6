---------------------------- MODULE WorkRequests ----------------------------
(***************************************************************************)
(* One agent's turn asks colleagues for work, and their results come back  *)
(* as later turns of the same conversation: the work_request rows, the     *)
(* decisions on them (which read a row and write it without a lock),       *)
(* WorkRequestTaskWorkflow, and the outbox that starts a continuation.     *)
(*                                                                         *)
(* A request is asked for by the turn or opened by a person, who gives no  *)
(* requester task.  Auto-activation is on, the default.  Caps, grants and   *)
(* the text of requests are left out, and completed and failed are one.    *)
(***************************************************************************)
EXTENDS Naturals, Sequences, FiniteSets

CONSTANTS
  Requests,    \* possible idempotency keys
  Decidable,   \* bound of the model: the requests that deciders act on
  Sessions,    \* database sessions of deciders, each one tool call or HTTP call at a time
  MaxTasks,    \* bound of the model: tasks created for one request
  Ops,         \* what deciders do here, of PossibleOps
  Faults       \* what may go wrong, of PossibleFaults

PossibleOps == {"ask", "accept_agent", "accept_user", "decline", "clarify"}
PossibleFaults ==
  {"lost_step",       \* the turn fails after its tools committed
   "lost_activity",   \* every attempt of an activity fails
   "lost_reply",      \* an attempt commits and fails
   "rejected_start",  \* a WorkRequestTaskWorkflow cannot be started
   "lost_dispatch",   \* a dispatcher dies, or Temporal fails it
   "no_target"}       \* the target agent is paused or archived

ASSUME WorkRequestAssumption ==
  /\ Decidable \subseteq Requests
  /\ MaxTasks \in Nat \ {0}
  /\ Ops \subseteq PossibleOps
  /\ Faults \subseteq PossibleFaults

VARIABLES
  req,     \* work_request rows, each with its continuation task and that task's workflow
  line,    \* requests in the order their continuation tasks were inserted
  holder,  \* how far the dispatcher that holds a row lock has got
  sess,    \* what each decider's session has read
  turn,    \* the requester's AgentTaskWorkflow, about to start what it asked for
  starts,  \* step.work_request_starts not yet handled
  src,     \* the requester's task row
  wf       \* WorkRequestTaskWorkflow, whose id is the request's

outboxVars == <<req, line, holder>>
turnVars   == <<turn, starts, src>>
vars == <<outboxVars, sess, turnVars, wf>>

Source == "source"  \* the requester's task, as a queue predecessor
None   == "none"

ASSUME NoneAssumption == None \notin Requests /\ Source \notin Requests

Undecided == {"pending", "clarification_requested"}
Statuses  == Undecided \cup {None, "accepted", "declined", "settled"}

Row ==
  [status : Statuses,
   byTurn : BOOLEAN,            \* requester_task_id is set
   made : 0..MaxTasks,          \* tasks created for the request
   result : BOOLEAN,            \* result_message_id is set
   armed : BOOLEAN,             \* continuation_requested_at
   cont : {None, "queued", "running", "done", "cancelled"},  \* state of the continuation task
   after : Requests \cup {None, Source},                     \* its queue_after_task_id
   run : {None, "waiting", "working", "closed"},             \* its workflow
   episodes : 0..2,             \* executions of that workflow
   dispatched : BOOLEAN,
   suppressed : {None, "requester_cancelled", "cancelled_before_dispatch"}]

Idle == [stage |-> "idle"]
Session ==
  [stage : {"write", "start"}, request : Requests, op : PossibleOps,
   saw : Statuses]

TypeOK ==
  /\ req \in [Requests -> Row]
  /\ line \in Seq(Requests)
  /\ holder \in [Requests -> {"free", "checked", "started"}]
  /\ sess \in [Sessions -> {Idle} \cup Session]
  /\ turn \in [at : {"asking", "arm", "start", "repair", "closing", "closed"},
               on : Requests \cup {None}]
  /\ turn.on # None <=> turn.at \in {"arm", "start", "repair"}
  /\ starts \subseteq Requests
  /\ src \in [state : {"running", "ended", "cancelled"}, stop : BOOLEAN]
  /\ wf \in [Requests -> {None, "open", "closed"}]

NoRequest ==
  [status |-> None, byTurn |-> FALSE, made |-> 0, result |-> FALSE,
   armed |-> FALSE, cont |-> None, after |-> None, run |-> None, episodes |-> 0,
   dispatched |-> FALSE, suppressed |-> None]

Init ==
  /\ req = [r \in Requests |-> NoRequest]
  /\ line = <<>>
  /\ holder = [r \in Requests |-> "free"]
  /\ sess = [s \in Sessions |-> Idle]
  /\ turn = [at |-> "asking", on |-> None]
  /\ starts = {}
  /\ src = [state |-> "running", stop |-> FALSE]
  /\ wf = [r \in Requests |-> None]

-----------------------------------------------------------------------------
(* Decisions.  A session reads the row, decides, and writes what it        *)
(* changed; nothing makes the write depend on the row it overwrites.       *)

Asks(s) == sess[s] # Idle /\ sess[s].op = "ask"

Read(s, r, op) ==
  /\ sess[s] = Idle /\ r \in Decidable
  /\ op \in Ops /\ req[r].status # None
  /\ op = "ask" => turn.at = "asking" /\ req[r].byTurn /\ \A other \in Sessions : ~Asks(other)
  /\ sess' = [sess EXCEPT ![s] = [stage |-> "write", request |-> r, op |-> op,
                                  saw |-> req[r].status]]
  /\ UNCHANGED <<outboxVars, turnVars, wf>>

\* What the target's status may read as.
TargetActive == {TRUE} \cup (IF "no_target" \in Faults THEN {FALSE} ELSE {})

\* A row with a new task.  The INSERT and the row's UPDATE are one transaction.
Accepted(row) == [row EXCEPT !.status = "accepted", !.made = @ + 1]

\* fail_work_request posts a result of its own.
Failed(row) == [row EXCEPT !.status = "settled", !.result = TRUE]

\* What the accepting caller does with the task it was given: it starts that
\* task's workflow next.
Lift(s) ==
  IF sess[s].op = "ask"
    THEN /\ starts' = starts \cup {sess[s].request}
         /\ sess' = [sess EXCEPT ![s] = Idle]
    ELSE /\ sess' = [sess EXCEPT ![s].stage = "start"]
         /\ UNCHANGED starts

Drop(s) == sess' = [sess EXCEPT ![s] = Idle] /\ UNCHANGED starts

\* accept_work_request, also on behalf of the target (activate_work_request).
Accept(s) ==
  LET r == sess[s].request IN
  /\ sess[s].stage = "write" /\ sess[s].op \in {"ask", "accept_agent", "accept_user"}
  /\ holder[r] = "free"
  /\ \/ /\ sess[s].saw = "accepted"  \* the existing task; a person's accept starts nothing
        /\ UNCHANGED req
        /\ IF sess[s].op = "accept_user" THEN Drop(s) ELSE Lift(s)
     \/ /\ sess[s].saw \in Undecided /\ TRUE \in TargetActive
        /\ req[r].made < MaxTasks
        /\ req' = [req EXCEPT ![r] = Accepted(@)]
        /\ Lift(s)
     \/ /\ sess[s].saw \in Undecided /\ FALSE \in TargetActive
        /\ req' = IF sess[s].op = "ask" THEN [req EXCEPT ![r] = Failed(@)] ELSE req
        /\ Drop(s)
     \/ /\ sess[s].saw \in {"declined", "settled"}
        /\ UNCHANGED req
        /\ Drop(s)
  /\ UNCHANGED <<line, holder, turn, src, wf>>

\* decline_work_request and request_clarification.  An attribute set to the
\* value it was loaded with is not written.
Answer(s) ==
  LET r == sess[s].request
      new == IF sess[s].op = "decline" THEN "declined" ELSE "clarification_requested"
  IN
  /\ sess[s].stage = "write" /\ sess[s].op \in {"decline", "clarify"}
  /\ holder[r] = "free"
  /\ req' = IF sess[s].saw \in Undecided \ {new} THEN [req EXCEPT ![r].status = new] ELSE req
  /\ Drop(s)
  /\ UNCHANGED <<line, holder, turn, src, wf>>

\* organization.request_work for a key that has no row yet, activation included.
AskNew(r) ==
  /\ turn.at = "asking" /\ req[r].status = None
  /\ \A s \in Sessions : ~Asks(s)
  /\ LET new == [NoRequest EXCEPT !.status = "pending", !.byTurn = TRUE] IN
     \E active \in TargetActive :
       /\ req' = [req EXCEPT ![r] = IF active THEN Accepted(new) ELSE Failed(new)]
       /\ starts' = IF active THEN starts \cup {r} ELSE starts
  /\ UNCHANGED <<line, holder, sess, turn, src, wf>>

\* POST /work-requests: nobody is activated.
OpenByPerson(r) ==
  /\ r \in Decidable /\ req[r].status = None
  /\ req' = [req EXCEPT ![r] = [NoRequest EXCEPT !.status = "pending"]]
  /\ UNCHANGED <<line, holder, sess, turnVars, wf>>

-----------------------------------------------------------------------------
(* Continuations.  These run with the row locked.                          *)

Stopped == src.state = "cancelled" \/ src.stop

\* Wrong: queues every continuation behind the turn that asked.
PredecessorOwn == Source

\* The newest turn of the requester that is at work or queued, else its own.
Predecessor ==
  LET busy == {i \in DOMAIN line : req[line[i]].cont \in {"queued", "running"}} IN
  IF busy = {} THEN Source ELSE line[CHOOSE i \in busy : \A j \in busy : j <= i]

\* ensure_work_request_continuation.
Due(row) ==
  row.armed /\ row.cont = None /\ row.suppressed = None /\ row.result

Ensured(row) ==
  IF ~Due(row) THEN row
  ELSE IF Stopped THEN [row EXCEPT !.suppressed = "requester_cancelled"]
  ELSE [row EXCEPT !.cont = "queued", !.after = Predecessor]

Store(r, row) ==
  /\ req' = [req EXCEPT ![r] = row]
  /\ line' = IF row.cont # req[r].cont THEN Append(line, r) ELSE line
  /\ UNCHANGED holder

\* finalize_work_request: a declined row is not terminal to it.
Finalized(row) == Ensured([row EXCEPT !.status = "settled", !.result = TRUE])

-----------------------------------------------------------------------------
(* The requester's turn, after its step returned.                          *)

Onward(rest) ==
  /\ starts' = rest
  /\ IF rest = {}
       THEN turn' = [turn EXCEPT !.at = "closing", !.on = None]
       ELSE \E r \in rest : turn' = [turn EXCEPT !.at = "arm", !.on = r]

StepReturns ==
  /\ turn.at = "asking"
  /\ \A s \in Sessions : ~Asks(s)
  /\ Onward(starts)
  /\ UNCHANGED <<outboxVars, sess, src, wf>>

\* The step's attempts are used up, or those of the arming activity, whose
\* last one may have committed before its dispatch raised (then at "start").
TurnFails ==
  /\ \/ turn.at = "asking" /\ "lost_step" \in Faults /\ \A s \in Sessions : ~Asks(s)
     \/ turn.at \in {"arm", "start"} /\ "lost_activity" \in Faults
  /\ turn' = [at |-> "closing", on |-> None]
  /\ starts' = {}
  /\ UNCHANGED <<outboxVars, sess, src, wf>>

\* Wrong: expects the result to come later.
ArmEarly ==
  /\ turn.at = "arm" /\ holder[turn.on] = "free"
  /\ Store(turn.on, [req[turn.on] EXCEPT !.armed = TRUE])
  /\ turn' = [turn EXCEPT !.at = "start"]
  /\ UNCHANGED <<sess, starts, src, wf>>

\* prepare_work_request_continuation, before the child is started.
Arm ==
  /\ turn.at = "arm" /\ holder[turn.on] = "free"
  /\ Store(turn.on, Ensured([req[turn.on] EXCEPT !.armed = TRUE]))
  /\ turn' = [turn EXCEPT !.at = "start"]
  /\ UNCHANGED <<sess, starts, src, wf>>

Child(r) == [wf EXCEPT ![r] = "open"]

\* REJECT_DUPLICATE: a closed workflow holds its id too.
StartChild ==
  /\ turn.at = "start"
  /\ wf' = IF wf[turn.on] = None THEN Child(turn.on) ELSE wf
  /\ Onward(starts \ {turn.on})
  /\ UNCHANGED <<outboxVars, sess, src>>

StartChildFails ==
  /\ turn.at = "start" /\ wf[turn.on] = None
  /\ "rejected_start" \in Faults
  /\ turn' = [turn EXCEPT !.at = "repair"]
  /\ UNCHANGED <<outboxVars, sess, starts, src, wf>>

\* The request is closed for the workflow that never was, or that fails too.
Repair ==
  /\ turn.at = "repair" /\ holder[turn.on] = "free"
  /\ \/ Store(turn.on, Finalized(req[turn.on]))
     \/ "lost_activity" \in Faults /\ UNCHANGED outboxVars
  /\ Onward(starts \ {turn.on})
  /\ UNCHANGED <<sess, src, wf>>

\* A stop that reaches the workflow in time cancels the turn.
CloseTurn ==
  /\ turn.at = "closing"
  /\ turn' = [turn EXCEPT !.at = "closed"]
  /\ \E state \in {"ended"} \cup (IF src.stop THEN {"cancelled"} ELSE {}) :
       src' = [src EXCEPT !.state = state]
  /\ UNCHANGED <<outboxVars, sess, starts, wf>>

StopTurn ==
  /\ src.state = "running" /\ ~src.stop
  /\ src' = [src EXCEPT !.stop = TRUE]
  /\ UNCHANGED <<outboxVars, sess, turn, starts, wf>>

-----------------------------------------------------------------------------
(* WorkRequestTaskWorkflow, started by a decider, and its two steps.       *)

\* ALLOW_DUPLICATE: only an open workflow holds its id.
StartByDecider(s) ==
  LET r == sess[s].request IN
  /\ sess[s].stage = "start"
  /\ wf' = Child(r)
  /\ sess' = [sess EXCEPT ![s] = Idle]
  /\ UNCHANGED <<outboxVars, turnVars>>

\* The API marks the created task failed and answers 503; an agent's run
\* finalizes the request like the requester's does.
StartByDeciderFails(s) ==
  LET r == sess[s].request IN
  /\ sess[s].stage = "start" /\ "rejected_start" \in Faults
  /\ holder[r] = "free"
  /\ IF sess[s].op = "accept_agent"
       THEN Store(r, Finalized(req[r]))
       ELSE UNCHANGED outboxVars
  /\ sess' = [sess EXCEPT ![s] = Idle]
  /\ UNCHANGED <<turnVars, wf>>

\* The child has ended by itself, or its execution timeout has ended it.
Finalize(r) ==
  /\ wf[r] = "open" /\ holder[r] = "free"
  /\ Store(r, Finalized(req[r]))
  /\ wf' = [wf EXCEPT ![r] = "closed"]
  /\ UNCHANGED <<sess, turnVars>>

\* An attempt fails before its commit, or after it (the dispatch raised); it
\* is the last one, or another follows.
FinalizeFails(r) ==
  /\ wf[r] = "open" /\ holder[r] = "free"
  /\ \/ "lost_activity" \in Faults /\ UNCHANGED outboxVars
     \/ "lost_reply" \in Faults /\ Store(r, Finalized(req[r]))
  /\ wf' \in {wf, [wf EXCEPT ![r] = "closed"]}
  /\ UNCHANGED <<sess, turnVars>>

-----------------------------------------------------------------------------
(* dispatch_work_request_continuations: on startup, on every tick of the   *)
(* reconciliation loop, and at the end of Arm and Finalize.                *)

Outbox(r) ==
  req[r].cont # None /\ ~req[r].dispatched /\ req[r].suppressed = None

Hold(r, stage) == holder' = [holder EXCEPT ![r] = stage]

\* Wrong: trusts the check made when the task was inserted.
CheckInserted(r) ==
  /\ Outbox(r) /\ holder[r] = "free"
  /\ Hold(r, "checked") /\ UNCHANGED req
  /\ UNCHANGED <<line, sess, turnVars, wf>>

\* The reason is not looked at again under the lock: who wrote one meanwhile had
\* found the turn stopped, as this check does.
Check(r) ==
  /\ Outbox(r) /\ holder[r] = "free"
  /\ IF Stopped
       THEN /\ req' = [req EXCEPT ![r].suppressed = "cancelled_before_dispatch",
                                  ![r].cont = "cancelled"]
            /\ UNCHANGED holder
       ELSE Hold(r, "checked") /\ UNCHANGED req
  /\ UNCHANGED <<line, sess, turnVars, wf>>

\* Wrong: a closed workflow gives its id back.
LaunchedAgain(row) ==
  IF row.run \in {None, "closed"}
    THEN [row EXCEPT !.run = "waiting", !.episodes = @ + 1]
    ELSE row

\* REJECT_DUPLICATE, and already-started counts as started.
Launched(row) ==
  IF row.run = None THEN [row EXCEPT !.run = "waiting", !.episodes = @ + 1] ELSE row

StartContinuation(r) ==
  /\ holder[r] = "checked"
  /\ req' = [req EXCEPT ![r] = Launched(@)]
  /\ Hold(r, "started")
  /\ UNCHANGED <<line, sess, turnVars, wf>>

Acknowledge(r) ==
  /\ holder[r] = "started"
  /\ req' = [req EXCEPT ![r].dispatched = TRUE]
  /\ Hold(r, "free")
  /\ UNCHANGED <<line, sess, turnVars, wf>>

\* The worker dies or the call raises, and the lock is released: the start
\* was refused (at "checked"), or its reply was lost (at "started").
DispatchFails(r) ==
  /\ "lost_dispatch" \in Faults /\ holder[r] # "free"
  /\ Hold(r, "free")
  /\ UNCHANGED <<req, line, sess, turnVars, wf>>

\* Is the turn a continuation waits for over?  (The admission's queue test.)
Free(r) ==
  IF req[r].after = Source THEN src.state # "running"
  ELSE req[req[r].after].cont \notin {"queued", "running"}

\* Its AgentTaskWorkflow is admitted, refused as cancelled, or done.
BeginContinuation(r) ==
  /\ req[r].run = "waiting"
  /\ \/ /\ req[r].cont = "queued" /\ Free(r)
        /\ req' = [req EXCEPT ![r].run = "working", ![r].cont = "running"]
     \/ /\ req[r].cont = "cancelled"
        /\ req' = [req EXCEPT ![r].run = "closed"]
  /\ UNCHANGED <<line, holder, sess, turnVars, wf>>

EndContinuation(r) ==
  /\ req[r].run = "working" /\ holder[r] = "free"
  /\ req' = [req EXCEPT ![r].run = "closed", ![r].cont = "done"]
  /\ UNCHANGED <<line, holder, sess, turnVars, wf>>

-----------------------------------------------------------------------------
Decide(s) ==
  \/ \E r \in Requests, op \in Ops : Read(s, r, op)
  \/ Accept(s)
  \/ Answer(s)

TurnStep == StepReturns \/ Arm \/ StartChild \/ Repair \/ CloseTurn

Next ==
  \/ \E s \in Sessions : Decide(s) \/ StartByDecider(s) \/ StartByDeciderFails(s)
  \/ \E r \in Requests : AskNew(r) \/ OpenByPerson(r)
  \/ TurnStep \/ TurnFails \/ StartChildFails \/ StopTurn
  \/ \E r \in Requests :
       \/ Finalize(r) \/ FinalizeFails(r)
       \/ Check(r) \/ StartContinuation(r) \/ Acknowledge(r) \/ DispatchFails(r)
       \/ BeginContinuation(r) \/ EndContinuation(r)

Spec == Init /\ [][Next]_vars

\* The turn and admitted continuations run on, the loop ticks, and Temporal
\* answers again and again.
Fairness ==
  /\ WF_vars(TurnStep)
  /\ \A r \in Requests :
       /\ WF_vars(Check(r)) /\ SF_vars(StartContinuation(r)) /\ SF_vars(Acknowledge(r))
       /\ WF_vars(BeginContinuation(r) \/ EndContinuation(r))

FairSpec == Spec /\ Fairness

-----------------------------------------------------------------------------
(* Properties.                                                             *)

\* A continuation is executed at most once, whichever replies of Temporal and
\* acknowledgements of dispatchers are lost and however often it is retried
\* (the deterministic task id, REJECT_DUPLICATE and the row lock together).
ContinuesOnce == \A r \in Requests : req[r].episodes <= 1

\* While nobody stops the requester's turn, the conversation has one turn at
\* work at a time, whatever is lost: the turn that asked and the continuations of
\* several results never work together (_ensure_continuation's predecessor).
OneWriterUnstopped ==
  ~src.stop =>
    Cardinality({r \in Requests : req[r].run = "working"})
      + (IF src.state = "running" THEN 1 ELSE 0) <= 1

\* Once the requester is stopped, a continuation that was not started yet
\* never is, unless a dispatcher had already found the requester unstopped.
StoppedStaysStopped ==
  \A r \in Requests :
    [](src.stop /\ holder[r] = "free" /\ req[r].run = None => [](req[r].run = None))

\* How far the turn of a result has got, as far as it can be told from its
\* workflow and, before that, from its row.
StageOf(row) ==
  CASE row.run = "waiting" -> "sent"
    [] row.run = "working" -> "working"
    [] row.run = "closed"  -> "over"
    [] OTHER -> IF row.suppressed # None THEN "dropped"
                ELSE IF row.cont # None THEN "queued" ELSE "none"

Promise == INSTANCE ResultOutbox WITH
  Results <- Requests,
  stage   <- [r \in Requests |-> StageOf(req[r])],
  order   <- line,
  claimed <- {r \in Requests : holder[r] # "free"},
  stopped <- src.stop,
  busy    <- src.state = "running"

\* The outbox keeps its promise, whatever is lost and however often it is tried
\* again: one turn for each result, in the order of the queue while nobody stops
\* the requester, and none that was not taken in hand before the stop
\* (dispatch_work_request_continuations, resolve_snapshot_activity).
KeepsOutbox == Promise!PromiseSpec

\* Every armed result reaches the conversation: its continuation is worked
\* off, or cancelled or suppressed because the requester was stopped.
ResultsReturn ==
  \A r \in Requests :
    req[r].armed /\ req[r].result
      ~> req[r].cont \in {"done", "cancelled"} \/ req[r].suppressed # None

=============================================================================
