-------------------------- MODULE AgentTaskProofs ---------------------------
(***************************************************************************)
(* What AgentTask promises, for every number of tasks, agents, slots,      *)
(* steps and decisions, and whatever of PossibleFaults goes wrong: its     *)
(* types, the slots of admission, the order of a conversation's turns, the *)
(* calls that wait for people, and that it implements RunSlots.            *)
(***************************************************************************)
EXTENDS AgentTask, SequenceTheorems, FiniteSetTheorems, TLAPS

\* The bounds are numbers.
LEMMA Bounds ==
  /\ MaxSteps \in Nat \ {0} /\ MaxAttempts \in Nat \ {0}
  /\ MaxTurns \in Nat /\ 0 \in 0..MaxTurns /\ 1 \in 1..MaxAttempts
  BY AgentTaskAssumption DEF AgentTaskAssumption

\* The names of the stages and of the outcomes.
LEMMA Names ==
  /\ "admit" \in Stages /\ "refused" \in Stages /\ "queued" \in Stages
  /\ "top" \in Stages /\ "paused" \in Stages /\ "step" \in Stages
  /\ "asked" \in Stages /\ "await" \in Stages /\ "resolve" \in Stages
  /\ "wrap" \in Stages /\ "finalize" \in Stages /\ "kick" \in Stages
  /\ "closed" \in Stages /\ "lost" \in Stages
  /\ "completed" \in Terminal /\ "failed" \in Terminal /\ "cancelled" \in Terminal
  BY DEF Stages, Admitting, Stepping, Closing, Ended, Terminal

RunStatus == ActiveRun \cup Terminal

\* A row that is written over keeps its place (an UPDATE of a run or a gate).
LEMMA Rewritten ==
  ASSUME NEW S, NEW s \in Seq(S), NEW i \in DOMAIN s, NEW x \in S
  PROVE  /\ [s EXCEPT ![i] = x] \in Seq(S)
         /\ DOMAIN [s EXCEPT ![i] = x] = DOMAIN s
  BY ExceptSeq

\* A row that is inserted is the last one.
LEMMA Inserted ==
  ASSUME NEW S, NEW s \in Seq(S), NEW x \in S
  PROVE  /\ Append(s, x) \in Seq(S)
         /\ DOMAIN s \subseteq DOMAIN Append(s, x)
         /\ Len(Append(s, x)) \in DOMAIN Append(s, x)
         /\ Len(Append(s, x)) \in Nat \ {0}
         /\ Append(s, x)[Len(Append(s, x))] = x
         /\ \A i \in DOMAIN s : Append(s, x)[i] = s[i]
  BY AppendProperties, LenProperties


-----------------------------------------------------------------------------
\* A workflow execution next to the rows of its task.
WfOK(w, rs, gs) ==
  /\ w \in Workflow
  /\ w.heard \subseteq DOMAIN gs
  /\ w.run \in DOMAIN rs \cup {None}
  /\ w.stage \in Stepping \cup {"wrap"} => w.run # None
  /\ w.stage = "step" => w.steps < MaxSteps
  /\ w.stage \in {"wrap", "finalize"} => w.outcome # "none"
  /\ w.stage \in {"asked", "await", "resolve"} => w.gate \in DOMAIN gs

\* The execution of each task is one.
LEMMA WfOfTask ==
  ASSUME TypeOK, NEW t \in Tasks
  PROVE  /\ WfOK(wf[t], runs[t], gates[t])
         /\ state[t] \in ActiveState \cup Terminal
         /\ runs[t] \in Seq(RunStatus)
         /\ gates[t] \in Seq(Gate)
  BY DEF TypeOK, WfOK, RunStatus

\* A step that concerns one task keeps the types if it keeps them there.
LEMMA Focus ==
  ASSUME TypeOK, NEW t \in Tasks,
         NEW st \in ActiveState \cup Terminal, NEW rs \in Seq(RunStatus),
         NEW gs \in Seq(Gate), NEW w, WfOK(w, rs, gs),
         state' = [state EXCEPT ![t] = st], stop' \in [Tasks -> Stamps],
         runs' = [runs EXCEPT ![t] = rs], gates' = [gates EXCEPT ![t] = gs],
         wf' = [wf EXCEPT ![t] = w]
  PROVE  TypeOK'
  BY DEF TypeOK, WfOK, RunStatus

\* One that only moves the execution on.
LEMMA FocusWf ==
  ASSUME TypeOK, NEW t \in Tasks, NEW w, WfOK(w, runs[t], gates[t]),
         wf' = [wf EXCEPT ![t] = w], UNCHANGED rowVars
  PROVE  TypeOK'
  BY DEF TypeOK, WfOK, rowVars


-----------------------------------------------------------------------------
(* Steps that only move the execution on, in the order of the workflow.    *)

\* The answer of the queue, and those that turn a task away
\* (AgentTaskWorkflow.run).
LEMMA AnswerTypes ==
  ASSUME TypeOK, NEW t \in Tasks,
         Queued(t) \/ DenyWithdrawn(t) \/ Wake(t)
  PROVE  TypeOK'
<1>1. CASE Queued(t)
  <2> DEFINE w == [wf[t] EXCEPT !.stage = "queued", !.kick = FALSE]
  <2>1. wf[t].stage = "refused"
    BY <1>1 DEF Queued, At
  <2>2. w \in Workflow
    BY <2>1, WfOfTask, Names, Bounds DEF WfOK, Workflow
  <2>3. WfOK(w, runs[t], gates[t])
    BY <2>1, <2>2, WfOfTask, Names DEF WfOK, Stepping, Workflow
  <2>4. wf' = [wf EXCEPT ![t] = w] /\ UNCHANGED rowVars
    BY <1>1 DEF Queued, TypeOK, Goto, End
  <2> QED BY <2>3, <2>4, FocusWf
<1>2. CASE DenyWithdrawn(t)
  <2> DEFINE w == [wf[t] EXCEPT !.stage = "finalize", !.outcome = "cancelled"]
  <2>1. wf[t].stage = "admit"
    BY <1>2 DEF DenyWithdrawn, At
  <2>2. w \in Workflow
    BY <2>1, WfOfTask, Names, Bounds DEF WfOK, Workflow
  <2>3. WfOK(w, runs[t], gates[t])
    BY <2>1, <2>2, WfOfTask, Names DEF WfOK, Stepping, Workflow
  <2>4. wf' = [wf EXCEPT ![t] = w] /\ UNCHANGED rowVars
    BY <1>2 DEF DenyWithdrawn, TypeOK, Goto, End
  <2> QED BY <2>3, <2>4, FocusWf
<1>3. CASE Wake(t)
  <2> DEFINE w == IF wf[t].cancelled THEN [wf[t] EXCEPT !.stage = "finalize", !.outcome = "cancelled"]
                 ELSE [wf[t] EXCEPT !.stage = "admit"]
  <2>1. wf[t].stage = "queued"
    BY <1>3 DEF Wake, At
  <2>2. w \in Workflow
    BY <2>1, WfOfTask, Names, Bounds DEF WfOK, Workflow
  <2>3. WfOK(w, runs[t], gates[t])
    BY <2>1, <2>2, WfOfTask, Names DEF WfOK, Stepping, Workflow
  <2>4. wf' = [wf EXCEPT ![t] = w] /\ UNCHANGED rowVars
    BY <1>3 DEF Wake, TypeOK, Goto, End
  <2> QED BY <2>3, <2>4, FocusWf
<1> QED BY <1>1, <1>2, <1>3

\* A step begins, ends, or is cut short (_run_step_loop).
LEMMA StepTypes ==
  ASSUME TypeOK, NEW t \in Tasks,
         BeginStep(t) \/ StepStopped(t) \/ StepCut(t) \/ StepDone(t)
  PROVE  TypeOK'
<1>1. CASE BeginStep(t)
  <2> DEFINE w == [wf[t] EXCEPT !.stage = "step", !.turns = 0]
  <2>1. wf[t].stage = "top" /\ wf[t].steps < MaxSteps
    BY <1>1 DEF BeginStep, At, MoreToDo
  <2>2. w \in Workflow
    BY <2>1, WfOfTask, Names, Bounds DEF WfOK, Workflow
  <2>3. WfOK(w, runs[t], gates[t])
    BY <2>1, <2>2, WfOfTask, Names DEF WfOK, Stepping, Workflow
  <2>4. wf' = [wf EXCEPT ![t] = w] /\ UNCHANGED rowVars
    BY <1>1 DEF BeginStep, TypeOK, Goto, End
  <2> QED BY <2>3, <2>4, FocusWf
<1>2. CASE StepStopped(t)
  <2> DEFINE w == [wf[t] EXCEPT !.stage = "wrap", !.cancelled = TRUE, !.outcome = "cancelled"]
  <2>1. wf[t].stage = "step"
    BY <1>2 DEF StepStopped, At
  <2>2. w \in Workflow
    BY <2>1, WfOfTask, Names, Bounds DEF WfOK, Workflow
  <2>3. WfOK(w, runs[t], gates[t])
    BY <2>1, <2>2, WfOfTask, Names DEF WfOK, Stepping, Workflow
  <2>4. wf' = [wf EXCEPT ![t] = w] /\ UNCHANGED rowVars
    BY <1>2 DEF StepStopped, TypeOK, Goto, End
  <2> QED BY <2>3, <2>4, FocusWf
<1>3. CASE StepCut(t)
  <2> DEFINE w == [wf[t] EXCEPT !.stage = "wrap", !.outcome = "cancelled"]
  <2>1. wf[t].stage = "step"
    BY <1>3 DEF StepCut, At
  <2>2. w \in Workflow
    BY <2>1, WfOfTask, Names, Bounds DEF WfOK, Workflow
  <2>3. WfOK(w, runs[t], gates[t])
    BY <2>1, <2>2, WfOfTask, Names DEF WfOK, Stepping, Workflow
  <2>4. wf' = [wf EXCEPT ![t] = w] /\ UNCHANGED rowVars
    BY <1>3 DEF StepCut, TypeOK, Goto, End
  <2> QED BY <2>3, <2>4, FocusWf
<1>4. CASE StepDone(t)
  <2>1. PICK done \in BOOLEAN :
          wf' = [wf EXCEPT ![t].stage = "top", ![t].steps = @ + 1, ![t].done = done]
    BY <1>4 DEF StepDone
  <2> DEFINE w == [wf[t] EXCEPT !.stage = "top", !.steps = @ + 1, !.done = done]
  <2>2. wf[t].stage = "step" /\ wf[t].steps + 1 \in 0..MaxSteps
    BY <1>4, WfOfTask, Bounds DEF StepDone, At, WfOK, Workflow
  <2>3. w \in Workflow
    BY <2>2, WfOfTask, Names DEF WfOK, Workflow
  <2>4. WfOK(w, runs[t], gates[t])
    BY <2>2, <2>3, WfOfTask, Names DEF WfOK, Stepping, Workflow
  <2>5. wf' = [wf EXCEPT ![t] = w] /\ UNCHANGED rowVars
    BY <1>4, <2>1 DEF StepDone, TypeOK
  <2> QED BY <2>4, <2>5, FocusWf
<1> QED BY <1>1, <1>2, <1>3, <1>4

\* A wait begins or is over (the waits of _run_step_loop, _await_person_answer).
LEMMA WaitTypes ==
  ASSUME TypeOK, NEW t \in Tasks,
         BeginWait(t) \/ Hear(t) \/ HearStop(t) \/ GiveUp(t)
  PROVE  TypeOK'
<1>1. CASE BeginWait(t)
  <2> DEFINE w == [wf[t] EXCEPT !.stage = "await"]
  <2>1. wf[t].stage = "asked"
    BY <1>1 DEF BeginWait, At
  <2>2. w \in Workflow
    BY <2>1, WfOfTask, Names, Bounds DEF WfOK, Workflow
  <2>3. WfOK(w, runs[t], gates[t])
    BY <2>1, <2>2, WfOfTask, Names DEF WfOK, Stepping, Workflow
  <2>4. wf' = [wf EXCEPT ![t] = w] /\ UNCHANGED rowVars
    BY <1>1 DEF BeginWait, TypeOK, Goto, End
  <2> QED BY <2>3, <2>4, FocusWf
<1>2. CASE Hear(t)
  <2> DEFINE w == [wf[t] EXCEPT !.stage = "resolve", !.heard = @ \ {wf[t].gate}]
  <2>1. wf[t].stage = "await"
    BY <1>2 DEF Hear, At
  <2>2. w \in Workflow
    BY <2>1, WfOfTask, Names, Bounds DEF WfOK, Workflow
  <2>3. WfOK(w, runs[t], gates[t])
    BY <2>1, <2>2, WfOfTask, Names DEF WfOK, Stepping, Workflow
  <2>4. wf' = [wf EXCEPT ![t] = w] /\ UNCHANGED rowVars
    BY <1>2 DEF Hear, TypeOK, Goto, End
  <2> QED BY <2>3, <2>4, FocusWf
<1>3. CASE HearStop(t)
  <2> DEFINE w == [wf[t] EXCEPT !.stage = "wrap", !.outcome = "cancelled"]
  <2>1. wf[t].stage = "await"
    BY <1>3 DEF HearStop, At
  <2>2. w \in Workflow
    BY <2>1, WfOfTask, Names, Bounds DEF WfOK, Workflow
  <2>3. WfOK(w, runs[t], gates[t])
    BY <2>1, <2>2, WfOfTask, Names DEF WfOK, Stepping, Workflow
  <2>4. wf' = [wf EXCEPT ![t] = w] /\ UNCHANGED rowVars
    BY <1>3 DEF HearStop, TypeOK, Goto, End
  <2> QED BY <2>3, <2>4, FocusWf
<1>4. CASE GiveUp(t)
  <2> DEFINE w == [wf[t] EXCEPT !.stage = "resolve"]
  <2>1. wf[t].stage = "await"
    BY <1>4 DEF GiveUp, At
  <2>2. w \in Workflow
    BY <2>1, WfOfTask, Names, Bounds DEF WfOK, Workflow
  <2>3. WfOK(w, runs[t], gates[t])
    BY <2>1, <2>2, WfOfTask, Names DEF WfOK, Stepping, Workflow
  <2>4. wf' = [wf EXCEPT ![t] = w] /\ UNCHANGED rowVars
    BY <1>4 DEF GiveUp, TypeOK, Goto, End
  <2> QED BY <2>3, <2>4, FocusWf
<1> QED BY <1>1, <1>2, <1>3, <1>4

\* The loop is left and cleaned up after, or the terminal projection is lost
\* (_cleanup_run_workspace, _finalize).
LEMMA LeaveTypes ==
  ASSUME TypeOK, NEW t \in Tasks, Leave(t) \/ CleanUp(t) \/ LoseFinalize(t)
  PROVE  TypeOK'
<1>1. CASE Leave(t)
  <2> DEFINE outcome == CASE wf[t].cancelled -> "cancelled"
                          [] ~wf[t].cancelled /\ wf[t].done -> "completed"
                          [] OTHER -> "failed"
             w == [wf[t] EXCEPT !.stage = "wrap", !.outcome = outcome]
  <2>1. wf[t].stage = "top" /\ wf' = [wf EXCEPT ![t] = w] /\ UNCHANGED rowVars
    BY <1>1 DEF Leave, At, End, TypeOK
  <2>2. outcome \in Terminal /\ outcome # "none"
    BY Names
  <2> HIDE DEF outcome
  <2>3. w \in Workflow
    BY <2>2, WfOfTask, Names DEF WfOK, Workflow
  <2>4. WfOK(w, runs[t], gates[t])
    BY <2>1, <2>2, <2>3, WfOfTask DEF WfOK, Stepping, Workflow
  <2> QED BY <2>1, <2>4, FocusWf
<1>2. CASE CleanUp(t)
  <2> DEFINE w == IF wf[t].outcome = "completed" /\ wf[t].turns > 0 /\ wf[t].steps < MaxSteps
                 THEN [wf[t] EXCEPT !.stage = "top", !.done = FALSE, !.outcome = "none"]
                 ELSE [wf[t] EXCEPT !.stage = "finalize"]
  <2>1. wf[t].stage = "wrap"
    BY <1>2 DEF CleanUp, At
  <2>2. w \in Workflow
    BY <2>1, WfOfTask, Names, Bounds DEF WfOK, Workflow
  <2>3. WfOK(w, runs[t], gates[t])
    BY <2>1, <2>2, WfOfTask, Names DEF WfOK, Stepping, Workflow
  <2>4. wf' = [wf EXCEPT ![t] = w] /\ UNCHANGED rowVars
    BY <1>2 DEF CleanUp, TypeOK, Goto, End
  <2> QED BY <2>3, <2>4, FocusWf
<1>3. CASE LoseFinalize(t)
  <2> DEFINE w == [wf[t] EXCEPT !.stage = "lost"]
  <2>1. wf[t].stage = "finalize"
    BY <1>3 DEF LoseFinalize, At
  <2>2. w \in Workflow
    BY <2>1, WfOfTask, Names, Bounds, ZenonT(60) DEF WfOK, Workflow
  <2>3. WfOK(w, runs[t], gates[t])
    BY <2>1, <2>2, WfOfTask, Names DEF WfOK, Stepping, Workflow
  <2>4. wf' = [wf EXCEPT ![t] = w] /\ UNCHANGED rowVars
    BY <1>3 DEF LoseFinalize, TypeOK, Goto, End
  <2> QED BY <2>3, <2>4, FocusWf
<1> QED BY <1>1, <1>2, <1>3

\* Signals set a flag or add an instruction (user_instruction, pause, resume,
\* cancel).
LEMMA SignalTypes ==
  ASSUME TypeOK, NEW t \in Tasks, Instruct(t) \/ PauseOrResume(t) \/ SignalStop(t)
  PROVE  TypeOK'
<1>1. CASE Instruct(t)
  <2> DEFINE w == [wf[t] EXCEPT !.turns = @ + 1]
  <2>1. wf[t].turns + 1 \in 0..MaxTurns
    BY <1>1, WfOfTask, Bounds DEF Instruct, At, WfOK, Workflow
  <2>2. w \in Workflow
    BY <2>1, WfOfTask, Names, Bounds DEF WfOK, Workflow
  <2>3. WfOK(w, runs[t], gates[t])
    BY <2>1, <2>2, WfOfTask, Names DEF WfOK, Stepping, Workflow
  <2>4. wf' = [wf EXCEPT ![t] = w] /\ UNCHANGED rowVars
    BY <1>1 DEF Instruct, TypeOK, Goto, End
  <2> QED BY <2>3, <2>4, FocusWf
<1>2. CASE PauseOrResume(t)
  <2> DEFINE w == [wf[t] EXCEPT !.paused = ~@]
  <2>1. TRUE
    BY <1>2 DEF PauseOrResume, At
  <2>2. w \in Workflow
    BY <2>1, WfOfTask, Names, Bounds DEF WfOK, Workflow
  <2>3. WfOK(w, runs[t], gates[t])
    BY <2>1, <2>2, WfOfTask, Names DEF WfOK, Stepping, Workflow
  <2>4. wf' = [wf EXCEPT ![t] = w] /\ UNCHANGED rowVars
    BY <1>2 DEF PauseOrResume, TypeOK, Goto, End
  <2> QED BY <2>3, <2>4, FocusWf
<1>3. CASE SignalStop(t)
  <2> DEFINE w == [wf[t] EXCEPT !.cancelled = TRUE]
  <2>1. TRUE
    BY <1>3 DEF SignalStop, At
  <2>2. w \in Workflow
    BY <2>1, WfOfTask, Names, Bounds, ZenonT(60) DEF WfOK, Workflow
  <2>3. WfOK(w, runs[t], gates[t])
    BY <2>1, <2>2, WfOfTask, Names DEF WfOK, Stepping, Workflow
  <2>4. wf' = [wf EXCEPT ![t] = w] /\ UNCHANGED rowVars
    BY <1>3 DEF SignalStop, TypeOK, Goto, End
  <2> QED BY <2>3, <2>4, FocusWf
<1> QED BY <1>1, <1>2, <1>3

-----------------------------------------------------------------------------
(* Steps that write the rows.                                              *)

\* A failed attempt is tried again, or the run gives up (_SNAPSHOT_RETRY).
LEMMA RetryOK ==
  ASSUME TypeOK, NEW t \in Tasks, NEW rs, DOMAIN runs[t] \subseteq DOMAIN rs,
         At(t, "admit"), NEW w,
         \/ /\ wf[t].attempt = MaxAttempts
            /\ w = [wf[t] EXCEPT !.stage = "finalize", !.outcome = "failed"]
         \/ wf[t].attempt # MaxAttempts /\ w = [wf[t] EXCEPT !.attempt = @ + 1]
  PROVE  WfOK(w, rs, gates[t])
<1>1. wf[t].attempt # MaxAttempts => wf[t].attempt + 1 \in 1..MaxAttempts
  BY WfOfTask, Bounds DEF WfOK, Workflow
<1>2. w \in Workflow
  BY <1>1, WfOfTask, Names DEF WfOK, Workflow
<1> QED BY <1>2, WfOfTask DEF WfOK, At, Stepping, Workflow

\* The rows of an admission: one run more, and a task that runs.
LEMMA ClaimTypes ==
  ASSUME TypeOK, NEW t \in Tasks, ClaimSlot(t)
  PROVE  /\ wf[t].stage = "admit"
         /\ \E st \in ActiveState \cup Terminal : state' = [state EXCEPT ![t] = st]
         /\ runs' = [runs EXCEPT ![t] = Append(runs[t], "running")]
         /\ runs'[t] = Append(runs[t], "running")
         /\ runs'[t] \in Seq(RunStatus)
         /\ DOMAIN runs[t] \subseteq DOMAIN runs'[t]
         /\ Len(runs'[t]) \in DOMAIN runs'[t] /\ Len(runs'[t]) \in Nat \ {0}
<1>1. "running" \in RunStatus
  BY DEF RunStatus, ActiveRun
<1>2. runs' = [runs EXCEPT ![t] = Append(runs[t], "running")]
  BY DEF ClaimSlot
<1>3. runs'[t] = Append(runs[t], "running")
  BY <1>2 DEF TypeOK
<1>4. state' = [state EXCEPT ![t] = IF state[t] = "paused" THEN state[t] ELSE "running"]
  BY DEF ClaimSlot
<1>5. (IF state[t] = "paused" THEN state[t] ELSE "running") \in ActiveState \cup Terminal
  BY DEF ActiveState
<1>6. /\ Append(runs[t], "running") \in Seq(RunStatus)
      /\ DOMAIN runs[t] \subseteq DOMAIN Append(runs[t], "running")
      /\ Len(Append(runs[t], "running")) \in DOMAIN Append(runs[t], "running")
      /\ Len(Append(runs[t], "running")) \in Nat \ {0}
  BY <1>1, WfOfTask, Inserted
<1>7. wf[t].stage = "admit"
  BY DEF ClaimSlot, At
<1>8. \E st \in ActiveState \cup Terminal : state' = [state EXCEPT ![t] = st]
  BY <1>4, <1>5
<1> QED BY <1>2, <1>3, <1>6, <1>7, <1>8

\* A stamp that an admission did not see is kept, or written over
\* (resolve_snapshot_activity).
LEMMA StampTypes ==
  ASSUME TypeOK, NEW t \in Tasks, KeepStop(t) \/ WriteBack(t)
  PROVE  stop' \in [Tasks -> Stamps]
  BY DEF TypeOK, KeepStop, WriteBack, Stamps

\* resolve_snapshot_activity: a run row, or a place in the queue, or a refusal, or
\* an attempt that is lost before its commit or after it.
LEMMA AdmissionTypes ==
  ASSUME TypeOK, NEW t \in Tasks,
         Admit(t) \/ Queue(t) \/ DenyAdmission(t) \/ LoseAdmission(t)
  PROVE  TypeOK'
<1>0. /\ stop' \in [Tasks -> Stamps]
      /\ gates' = gates /\ gates' = [gates EXCEPT ![t] = gates[t]]
  <2>1. KeepStop(t) \/ WriteBack(t)
    BY DEF Admit, Queue, DenyAdmission, LoseAdmission, ClaimSlot
  <2>2. gates' = gates /\ gates' = [gates EXCEPT ![t] = gates[t]]
    BY DEF Admit, Queue, DenyAdmission, LoseAdmission, TypeOK
  <2> QED BY <2>1, <2>2, StampTypes
<1>1. CASE Admit(t)
  <2> DEFINE w == [wf[t] EXCEPT !.stage = "top", !.attempt = 1, !.run = Len(runs'[t])]
  <2>1. wf' = [wf EXCEPT ![t] = w]
    BY <1>1 DEF Admit, TypeOK
  <2>2. ClaimSlot(t)
    BY <1>1 DEF Admit
  <2>3. Len(runs'[t]) \in Nat \ {0} /\ Len(runs'[t]) \in DOMAIN runs'[t]
    BY <2>2, ClaimTypes
  <2>4. WfOK(w, runs'[t], gates[t])
    <3>1. wf[t] \in Workflow
      BY WfOfTask DEF WfOK
    <3>2. wf[t].heard \subseteq DOMAIN gates[t]
      BY WfOfTask DEF WfOK
    <3>3. "top" \in Stages /\ 1 \in 1..MaxAttempts
      BY Names, Bounds
    <3>4. /\ w.stage = "top" /\ w.run = Len(runs'[t]) /\ w.heard = wf[t].heard
      BY <3>1 DEF Workflow
    <3>5. w \in Workflow
      BY <2>3, <3>1, <3>3 DEF Workflow
    <3> HIDE DEF w
    <3> QED BY <2>3, <3>2, <3>4, <3>5 DEF WfOK, None
  <2>5. PICK st \in ActiveState \cup Terminal : state' = [state EXCEPT ![t] = st]
    BY <2>2, ClaimTypes
  <2>6. runs' = [runs EXCEPT ![t] = runs'[t]] /\ runs'[t] \in Seq(RunStatus)
    BY <2>2, ClaimTypes
  <2> HIDE DEF w
  <2> QED BY <1>0, <2>1, <2>4, <2>5, <2>6, WfOfTask, Focus
<1>2. CASE Queue(t)
  <2> DEFINE w == [wf[t] EXCEPT !.stage = "refused", !.attempt = 1]
             st == IF state[t] = "paused" THEN state[t] ELSE "queued"
  <2>1. wf' = [wf EXCEPT ![t] = w] /\ state' = [state EXCEPT ![t] = st]
        /\ runs' = [runs EXCEPT ![t] = runs[t]]
    BY <1>2 DEF Queue, TypeOK
  <2>2. w \in Workflow
    BY WfOfTask, Names, Bounds DEF WfOK, Workflow
  <2>3. WfOK(w, runs[t], gates[t])
    BY <2>2, WfOfTask DEF WfOK, Stepping, Workflow
  <2>4. st \in ActiveState \cup Terminal
    BY DEF ActiveState
  <2> HIDE DEF w, st
  <2> QED BY <1>0, <2>1, <2>3, <2>4, WfOfTask, Focus
<1>3. CASE LoseAdmission(t)
  <2> DEFINE w == IF wf[t].attempt = MaxAttempts
                    THEN [wf[t] EXCEPT !.stage = "finalize", !.outcome = "failed"]
                    ELSE [wf[t] EXCEPT !.attempt = @ + 1]
  <2>1. wf' = [wf EXCEPT ![t] = w]
    BY <1>3 DEF LoseAdmission, End, TypeOK
  <2>2. At(t, "admit")
    BY <1>3 DEF LoseAdmission, ClaimSlot
  <2>3. ASSUME NEW rs, DOMAIN runs[t] \subseteq DOMAIN rs
        PROVE  WfOK(w, rs, gates[t])
    BY <2>2, <2>3, RetryOK
  <2> HIDE DEF w
  <2>4. CASE UNCHANGED <<state, runs>>
    <3>1. state' = [state EXCEPT ![t] = state[t]] /\ runs' = [runs EXCEPT ![t] = runs[t]]
      BY <2>4 DEF TypeOK
    <3> QED BY <1>0, <2>1, <2>3, <3>1, WfOfTask, Focus
  <2>5. CASE ClaimSlot(t)
    <3>1. PICK st \in ActiveState \cup Terminal : state' = [state EXCEPT ![t] = st]
      BY <2>5, ClaimTypes
    <3>2. runs' = [runs EXCEPT ![t] = runs'[t]] /\ runs'[t] \in Seq(RunStatus)
          /\ DOMAIN runs[t] \subseteq DOMAIN runs'[t]
      BY <2>5, ClaimTypes
    <3> QED BY <1>0, <2>1, <2>3, <3>1, <3>2, WfOfTask, Focus
  <2> QED BY <1>3, <2>4, <2>5 DEF LoseAdmission
<1>4. CASE DenyAdmission(t)
  <2> DEFINE w == [wf[t] EXCEPT !.stage = "finalize", !.outcome = "failed"]
  <2>1. wf' = [wf EXCEPT ![t] = w] /\ wf[t].stage = "admit"
    BY <1>4 DEF DenyAdmission, At, End, TypeOK
  <2>2. w \in Workflow
    BY WfOfTask, Names DEF WfOK, Workflow
  <2>3. WfOK(w, runs[t], gates[t])
    BY <2>1, <2>2, WfOfTask DEF WfOK, Stepping, Workflow
  <2>4. state' = [state EXCEPT ![t] = state[t]] /\ runs' = [runs EXCEPT ![t] = runs[t]]
    BY <1>4 DEF DenyAdmission, TypeOK
  <2> HIDE DEF w
  <2> QED BY <1>0, <2>1, <2>3, <2>4, WfOfTask, Focus
<1> QED BY <1>1, <1>2, <1>3, <1>4

\* A pause is marked or not, and then the execution stands still or goes on
\* (_mark_paused).
LEMMA PauseTypes ==
  ASSUME TypeOK, NEW t \in Tasks, Park(t) \/ Unpark(t)
  PROVE  TypeOK'
<1>1. \E st \in ActiveState \cup Terminal : state' = [state EXCEPT ![t] = st]
  <2>1. ASSUME NEW from, NEW to \in ActiveState, MarkPaused(t, from, to)
        PROVE  \E st \in ActiveState \cup Terminal : state' = [state EXCEPT ![t] = st]
    BY <2>1 DEF MarkPaused, TypeOK
  <2> QED BY <2>1 DEF Park, Unpark, ActiveState
<1>2. PICK stage \in {"paused", "top"} : Goto(t, stage)
  BY DEF Park, Unpark
<1> DEFINE w == [wf[t] EXCEPT !.stage = stage]
<1>3. wf[t].stage \in Stepping
  BY DEF Park, Unpark, At, Stepping
<1>4. w \in Workflow
  BY WfOfTask, Names DEF WfOK, Workflow
<1>5. WfOK(w, runs[t], gates[t])
  BY <1>3, <1>4, WfOfTask DEF WfOK, Workflow
<1>6. wf' = [wf EXCEPT ![t] = w]
  BY <1>2 DEF Goto, TypeOK
<1>7. stop' \in [Tasks -> Stamps] /\ runs' = [runs EXCEPT ![t] = runs[t]]
      /\ gates' = [gates EXCEPT ![t] = gates[t]]
  BY DEF Park, Unpark, TypeOK
<1> HIDE DEF w
<1> QED BY <1>1, <1>5, <1>6, <1>7, WfOfTask, Focus

\* Writing over the status of the current run keeps the type of its row.
LEMMA RunTypes ==
  ASSUME TypeOK, NEW t \in Tasks, wf[t].run # None, NEW s \in RunStatus,
         runs' = [runs EXCEPT ![t][wf[t].run] = s]
  PROVE  /\ runs' = [runs EXCEPT ![t] = runs'[t]]
         /\ runs'[t] = [runs[t] EXCEPT ![wf[t].run] = s]
         /\ runs'[t] \in Seq(RunStatus)
         /\ DOMAIN runs'[t] = DOMAIN runs[t]
<1>1. runs'[t] = [runs[t] EXCEPT ![wf[t].run] = s] /\ runs' = [runs EXCEPT ![t] = runs'[t]]
  BY DEF TypeOK
<1>2. wf[t].run \in DOMAIN runs[t]
  BY WfOfTask DEF WfOK
<1> QED BY <1>1, <1>2, WfOfTask, Rewritten

\* A row that asks somebody is one more gate, and the run waits for it
\* (commit_agent_step_activity,
\* commit_review_projection_activity).
LEMMA AskTypes ==
  ASSUME TypeOK, NEW t \in Tasks, wf[t].run # None, NEW kind \in Kinds, Ask(t, kind)
  PROVE  /\ runs' = [runs EXCEPT ![t] = runs'[t]]
         /\ runs'[t] \in Seq(RunStatus) /\ DOMAIN runs'[t] = DOMAIN runs[t]
         /\ gates' = [gates EXCEPT ![t] = gates'[t]]
         /\ gates'[t] \in Seq(Gate) /\ DOMAIN gates[t] \subseteq DOMAIN gates'[t]
         /\ Len(gates'[t]) \in DOMAIN gates'[t] /\ Len(gates'[t]) \in Nat
<1> DEFINE g == NewGate(kind)
<1>1. Waiting[kind] \in RunStatus
  BY DEF RunStatus, ActiveRun, Waiting
<1>2. runs' = [runs EXCEPT ![t][wf[t].run] = Waiting[kind]]
  BY DEF Ask
<1>3. gates'[t] = Append(gates[t], g) /\ gates' = [gates EXCEPT ![t] = gates'[t]]
  BY DEF Ask, TypeOK
<1>4. g \in Gate
  BY DEF Gate, NewGate
<1> HIDE DEF g
<1>5. /\ Append(gates[t], g) \in Seq(Gate)
      /\ DOMAIN gates[t] \subseteq DOMAIN Append(gates[t], g)
      /\ Len(Append(gates[t], g)) \in DOMAIN Append(gates[t], g)
      /\ Len(Append(gates[t], g)) \in Nat
  BY <1>4, WfOfTask, Inserted
<1>6. /\ runs' = [runs EXCEPT ![t] = runs'[t]]
      /\ runs'[t] \in Seq(RunStatus) /\ DOMAIN runs'[t] = DOMAIN runs[t]
  BY <1>1, <1>2, RunTypes
<1> QED BY <1>3, <1>5, <1>6

\* A step, or an approved call, asks somebody.
LEMMA AskingTypes ==
  ASSUME TypeOK, NEW t \in Tasks, StepAsks(t) \/ StageApproval(t) \/ ParkAgain(t)
  PROVE  TypeOK'
<1>1. PICK kind \in Kinds : Ask(t, kind)
  BY DEF StepAsks, StageApproval, ParkAgain, Kinds
<1>2. wf[t].stage \in {"step", "resolve"} /\ wf[t].run # None
  BY WfOfTask DEF StepAsks, StageApproval, ParkAgain, At, WfOK, Stepping
<1>3. /\ state' = [state EXCEPT ![t] = state[t]] /\ stop' \in [Tasks -> Stamps]
  BY DEF StepAsks, StageApproval, ParkAgain, TypeOK
<1>4. \E w : WfOK(w, runs'[t], gates'[t]) /\ wf' = [wf EXCEPT ![t] = w]
  <2>1. CASE StepAsks(t)
    <3> DEFINE w == [wf[t] EXCEPT !.stage = "asked", !.steps = @ + 1, !.done = FALSE,
                                  !.gate = Len(gates'[t])]
    <3>1. wf[t].steps + 1 \in 0..MaxSteps
      BY <2>1, WfOfTask, Bounds DEF StepAsks, At, WfOK, Workflow
    <3>2. w \in Workflow
      BY <1>1, <1>2, <3>1, AskTypes, WfOfTask, Names, ZenonT(60) DEF WfOK, Workflow
    <3>3. WfOK(w, runs'[t], gates'[t])
      BY <1>1, <1>2, <3>2, AskTypes, WfOfTask DEF WfOK, Workflow, Stepping
    <3>4. wf' = [wf EXCEPT ![t] = w]
      BY <2>1 DEF StepAsks, TypeOK
    <3> QED BY <3>3, <3>4
  <2>2. CASE StageApproval(t)
    <3> DEFINE w == [wf[t] EXCEPT !.stage = "asked", !.gate = Len(gates'[t])]
    <3>1. w \in Workflow
      BY <1>1, <1>2, AskTypes, WfOfTask, Names, ZenonT(60) DEF WfOK, Workflow
    <3>2. WfOK(w, runs'[t], gates'[t])
      BY <1>1, <1>2, <3>1, AskTypes, WfOfTask DEF WfOK, Workflow, Stepping
    <3>3. wf' = [wf EXCEPT ![t] = w]
      BY <2>2 DEF StageApproval, TypeOK
    <3> QED BY <3>2, <3>3
  <2>3. CASE ParkAgain(t)
    <3> DEFINE w == [wf[t] EXCEPT !.stage = "top"]
    <3>1. w \in Workflow
      BY WfOfTask, Names DEF WfOK, Workflow
    <3>2. WfOK(w, runs'[t], gates'[t])
      BY <1>1, <1>2, <3>1, AskTypes, WfOfTask DEF WfOK, Workflow, Stepping
    <3>3. wf' = [wf EXCEPT ![t] = w]
      BY <2>3 DEF ParkAgain, Goto, TypeOK
    <3> QED BY <3>2, <3>3
  <2> QED BY <2>1, <2>2, <2>3
<1>5. PICK w : WfOK(w, runs'[t], gates'[t]) /\ wf' = [wf EXCEPT ![t] = w]
  BY <1>4
<1> QED BY <1>1, <1>2, <1>3, <1>5, AskTypes, WfOfTask, Focus

\* A step that fails for good may have closed the run row itself
\* (_run_step_loop).
LEMMA FailTypes ==
  ASSUME TypeOK, NEW t \in Tasks, StepFails(t)
  PROVE  TypeOK'
<1> DEFINE outcome == IF wf[t].cancelled THEN "cancelled" ELSE "failed"
           w == [wf[t] EXCEPT !.stage = "wrap", !.outcome = outcome]
<1>1. wf[t].stage \in {"step", "resolve"} /\ wf' = [wf EXCEPT ![t] = w]
  BY DEF StepFails, At, End, TypeOK
<1>2. outcome \in Terminal /\ outcome # "none"
  BY Names
<1> HIDE DEF outcome
<1>3. w \in Workflow
  BY <1>2, WfOfTask, Names DEF WfOK, Workflow
<1>4. ASSUME NEW rs, DOMAIN rs = DOMAIN runs[t]
      PROVE  WfOK(w, rs, gates[t])
  BY <1>1, <1>2, <1>3, <1>4, WfOfTask DEF WfOK, Workflow, Stepping
<1>5. \E rs \in Seq(RunStatus) :
        DOMAIN rs = DOMAIN runs[t] /\ runs' = [runs EXCEPT ![t] = rs]
  <2>1. CASE UNCHANGED runs
    BY <2>1, WfOfTask DEF TypeOK
  <2>2. CASE runs' = [runs EXCEPT ![t][wf[t].run] = "failed"]
    <3>1. wf[t].run # None /\ "failed" \in RunStatus
      BY <1>1, WfOfTask DEF WfOK, Stepping, RunStatus, Terminal
    <3> QED BY <2>2, <3>1, RunTypes
  <2> QED BY <2>1, <2>2 DEF StepFails
<1>6. /\ state' = [state EXCEPT ![t] = state[t]] /\ stop' \in [Tasks -> Stamps]
      /\ gates' = [gates EXCEPT ![t] = gates[t]]
  BY DEF StepFails, TypeOK
<1> HIDE DEF w
<1> QED BY <1>1, <1>4, <1>5, <1>6, WfOfTask, Focus

\* A wait that is over gives the run back to the agent (deliver_question_answer_activity,
\* commit_approval_projection_activity).
LEMMA ResolveTypes ==
  ASSUME TypeOK, NEW t \in Tasks, ResolveQuestion(t) \/ Settle(t)
  PROVE  TypeOK'
<1> DEFINE w == [wf[t] EXCEPT !.stage = "top"]
<1>1. wf[t].stage = "resolve" /\ wf' = [wf EXCEPT ![t] = w]
      /\ runs' = [runs EXCEPT ![t][wf[t].run] = "running"]
      /\ state' = [state EXCEPT ![t] = state[t]] /\ stop' \in [Tasks -> Stamps]
  BY DEF ResolveQuestion, Settle, At, Goto, TypeOK
<1>2. wf[t].run # None /\ wf[t].gate \in DOMAIN gates[t] /\ "running" \in RunStatus
  BY <1>1, WfOfTask DEF WfOK, Stepping, RunStatus, ActiveRun
<1>3. w \in Workflow
  BY WfOfTask, Names DEF WfOK, Workflow
<1>4. /\ gates' = [gates EXCEPT ![t] = gates'[t]]
      /\ gates'[t] \in Seq(Gate) /\ DOMAIN gates'[t] = DOMAIN gates[t]
  <2>1. CASE Settle(t)
    BY <2>1, WfOfTask DEF Settle, TypeOK
  <2>2. CASE ResolveQuestion(t)
    <3> DEFINE g == [gates[t][wf[t].gate] EXCEPT
                       !.status = IF @ = "pending" THEN "expired" ELSE @]
    <3>1. gates[t][wf[t].gate] \in Gate
      BY <1>2, WfOfTask, ElementOfSeq, LenProperties
    <3>2. g \in Gate
      BY <3>1 DEF Gate
    <3>3. gates'[t] = [gates[t] EXCEPT ![wf[t].gate] = g]
          /\ gates' = [gates EXCEPT ![t] = gates'[t]]
      BY <2>2 DEF ResolveQuestion, TypeOK
    <3> HIDE DEF g
    <3> QED BY <1>2, <3>2, <3>3, WfOfTask, Rewritten
  <2> QED BY <2>1, <2>2
<1>5. runs' = [runs EXCEPT ![t] = runs'[t]]
      /\ runs'[t] \in Seq(RunStatus) /\ DOMAIN runs'[t] = DOMAIN runs[t]
  BY <1>1, <1>2, RunTypes
<1>6. WfOK(w, runs'[t], gates'[t])
  BY <1>1, <1>3, <1>4, <1>5, WfOfTask DEF WfOK, Workflow, Stepping
<1> HIDE DEF w
<1> QED BY <1>1, <1>4, <1>5, <1>6, WfOfTask, Focus

\* An answer that is not delivered leaves the run as it is (_await_person_answer).
LEMMA LoseAnswerTypes ==
  ASSUME TypeOK, NEW t \in Tasks, LoseAnswer(t)
  PROVE  TypeOK'
<1> DEFINE w == [wf[t] EXCEPT !.stage = "top"]
           g == [gates[t][wf[t].gate] EXCEPT !.lost = TRUE]
           gs == [gates[t] EXCEPT ![wf[t].gate] = g]
<1>1. /\ wf[t].stage = "resolve" /\ wf' = [wf EXCEPT ![t] = w]
      /\ runs' = [runs EXCEPT ![t] = runs[t]]
      /\ state' = [state EXCEPT ![t] = state[t]] /\ stop' \in [Tasks -> Stamps]
      /\ gates' = [gates EXCEPT ![t] = gs]
  BY DEF LoseAnswer, At, Goto, TypeOK
<1>2. wf[t].run # None /\ wf[t].gate \in DOMAIN gates[t]
  BY <1>1, WfOfTask DEF WfOK, Stepping
<1>3. gates[t][wf[t].gate] \in Gate
  BY <1>2, WfOfTask, ElementOfSeq, LenProperties
<1>4. g \in Gate
  BY <1>3 DEF Gate
<1> HIDE DEF g
<1>5. gs \in Seq(Gate) /\ DOMAIN gs = DOMAIN gates[t]
  BY <1>2, <1>4, WfOfTask, Rewritten
<1>6. w \in Workflow
  BY WfOfTask, Names DEF WfOK, Workflow
<1> HIDE DEF gs
<1>7. WfOK(w, runs[t], gs)
  BY <1>1, <1>5, <1>6, WfOfTask DEF WfOK, Workflow, Stepping
<1> HIDE DEF w
<1> QED BY <1>1, <1>5, <1>7, WfOfTask, Focus

\* The terminal projection writes the outcome (finalize_run_projection_activity).
LEMMA FinalizeTypes ==
  ASSUME TypeOK, NEW t \in Tasks, Finalize(t)
  PROVE  TypeOK'
<1>1. wf[t].stage = "finalize" /\ wf[t].outcome \in Terminal
      /\ state' = [state EXCEPT ![t] = wf[t].outcome] /\ stop' \in [Tasks -> Stamps]
  BY WfOfTask DEF Finalize, At, WfOK, Workflow, TypeOK
<1>2. PICK stage \in {"closed", "kick"} : Goto(t, stage)
  BY DEF Finalize
<1> DEFINE w == [wf[t] EXCEPT !.stage = stage]
<1>3. wf' = [wf EXCEPT ![t] = w]
  BY <1>2 DEF Goto, TypeOK
<1>4. w \in Workflow
  BY WfOfTask, Names DEF WfOK, Workflow
<1>5. /\ runs' = [runs EXCEPT ![t] = runs'[t]]
      /\ runs'[t] \in Seq(RunStatus) /\ DOMAIN runs'[t] = DOMAIN runs[t]
  <2>1. CASE wf[t].run = None
    BY <2>1, WfOfTask DEF Finalize, TypeOK
  <2>2. CASE wf[t].run # None
    BY <1>1, <2>2, RunTypes DEF Finalize, RunStatus
  <2> QED BY <2>1, <2>2
<1>6. /\ gates' = [gates EXCEPT ![t] = gates'[t]]
      /\ gates'[t] \in Seq(Gate) /\ DOMAIN gates'[t] = DOMAIN gates[t]
  <2>1. CASE wf[t].run = None
    BY <2>1, WfOfTask DEF Finalize, TypeOK
  <2>2. CASE wf[t].run # None
    <3>1. gates'[t] = [g \in DOMAIN gates[t] |-> Withdraw(gates[t][g])]
          /\ gates' = [gates EXCEPT ![t] = gates'[t]]
      BY <2>2 DEF Finalize, TypeOK
    <3>2. ASSUME NEW g \in Gate PROVE Withdraw(g) \in Gate
      BY DEF Withdraw, Gate
    <3>3. Len(gates[t]) \in Nat /\ DOMAIN gates[t] = 1..Len(gates[t])
          /\ \A g \in 1..Len(gates[t]) : gates[t][g] \in Gate
      BY WfOfTask, ElementOfSeq, LenProperties
    <3>4. \A g \in 1..Len(gates[t]) : Withdraw(gates[t][g]) \in Gate
      BY <3>2, <3>3
    <3>5. gates'[t] \in Seq(Gate)
      BY <3>1, <3>3, <3>4, IsASeq
    <3> QED BY <3>1, <3>5
  <2> QED BY <2>1, <2>2
<1>7. WfOK(w, runs'[t], gates'[t])
  BY <1>4, <1>5, <1>6, WfOfTask DEF WfOK, Workflow, Stepping
<1> HIDE DEF w
<1> QED BY <1>1, <1>3, <1>5, <1>6, <1>7, WfOfTask, Focus

\* A kick sets a flag of other executions (_kick_queued).
LEMMA KickTypes ==
  ASSUME TypeOK, NEW t \in Tasks, Kick(t)
  PROVE  TypeOK'
<1>1. wf' \in [Tasks -> Workflow] /\ \A u \in Tasks : WfOK(wf'[u], runs[u], gates[u])
  <2>1. ASSUME NEW u \in Tasks
        PROVE  /\ [wf[u] EXCEPT !.stage = "closed"] \in Workflow
               /\ [wf[u] EXCEPT !.kick = TRUE] \in Workflow
               /\ wf[u] \in Workflow
    BY WfOfTask, Names DEF WfOK, Workflow
  <2>2. ASSUME NEW u \in Tasks
        PROVE  /\ WfOK([wf[u] EXCEPT !.stage = "closed"], runs[u], gates[u])
               /\ WfOK([wf[u] EXCEPT !.kick = TRUE], runs[u], gates[u])
               /\ WfOK(wf[u], runs[u], gates[u])
    BY <2>1, WfOfTask DEF WfOK, Workflow, Stepping
  <2>3. wf' = [wf EXCEPT ![t] = [wf[t] EXCEPT !.stage = "closed"]]
        \/ \E kicked : wf' = [u \in Tasks |->
             IF u = t THEN [wf[u] EXCEPT !.stage = "closed"]
             ELSE IF u \in kicked /\ wf[u].stage \notin Ended THEN [wf[u] EXCEPT !.kick = TRUE]
             ELSE wf[u]]
    BY DEF Kick, Goto, TypeOK
  <2>4. wf \in [Tasks -> Workflow]
    BY DEF TypeOK
  <2>5. \A u \in Tasks : wf'[u] \in {[wf[u] EXCEPT !.stage = "closed"],
                                     [wf[u] EXCEPT !.kick = TRUE], wf[u]}
    BY <2>3, <2>4
  <2>6. wf' = [u \in Tasks |-> wf'[u]]
    BY <2>3, <2>4
  <2> QED BY <2>1, <2>2, <2>5, <2>6
<1>2. UNCHANGED rowVars
  BY DEF Kick
<1> QED BY <1>1, <1>2 DEF TypeOK, WfOK, rowVars

\* What people ask of a task that the workflow has yet to hear of
\* (signal_task, change_queued).
LEMMA RequestTypes ==
  ASSUME TypeOK, NEW t \in Tasks, RequestStop(t) \/ WithdrawTurn(t)
  PROVE  TypeOK'
  BY DEF TypeOK, RequestStop, WithdrawTurn, Terminal, Stamps

\* A decision is written, and then signalled (decide,
\* signal_workflow).
LEMMA DecisionTypes ==
  ASSUME TypeOK, NEW t \in Tasks, Decide(t) \/ SignalDecision(t)
  PROVE  TypeOK'
<1>1. state' = [state EXCEPT ![t] = state[t]] /\ stop' \in [Tasks -> Stamps]
      /\ runs' = [runs EXCEPT ![t] = runs[t]]
  BY DEF Decide, SignalDecision, Tell, TypeOK
<1>2. PICK g \in DOMAIN gates[t] :
        \/ wf' = wf /\ \E verdict \in Decided : gates' = [gates EXCEPT ![t][g].status = verdict]
        \/ wf' = [wf EXCEPT ![t].heard = @ \cup {g}] /\ gates' = [gates EXCEPT ![t][g].told = TRUE]
  BY DEF Decide, SignalDecision, Tell
<1>3. gates[t][g] \in Gate /\ g \in Nat
  BY WfOfTask, ElementOfSeq, LenProperties
<1>4. \E x \in Gate : gates' = [gates EXCEPT ![t] = [gates[t] EXCEPT ![g] = x]]
  <2>1. ASSUME NEW verdict \in Decided PROVE [gates[t][g] EXCEPT !.status = verdict] \in Gate
    BY <1>3 DEF Gate
  <2>2. [gates[t][g] EXCEPT !.told = TRUE] \in Gate
    BY <1>3 DEF Gate
  <2>3. CASE \E verdict \in Decided : gates' = [gates EXCEPT ![t][g].status = verdict]
    BY <2>1, <2>3 DEF TypeOK
  <2>4. CASE gates' = [gates EXCEPT ![t][g].told = TRUE]
    BY <2>2, <2>4 DEF TypeOK
  <2> QED BY <1>2, <2>3, <2>4
<1>5. PICK x \in Gate : gates' = [gates EXCEPT ![t] = [gates[t] EXCEPT ![g] = x]]
  BY <1>4
<1> DEFINE gs == [gates[t] EXCEPT ![g] = x]
<1>6. gs \in Seq(Gate) /\ DOMAIN gs = DOMAIN gates[t]
  BY WfOfTask, Rewritten
<1> HIDE DEF gs
<1>7. \E w : WfOK(w, runs[t], gs) /\ wf' = [wf EXCEPT ![t] = w]
  <2>1. CASE wf' = wf
    BY <1>6, <2>1, WfOfTask DEF WfOK, TypeOK
  <2>2. CASE wf' = [wf EXCEPT ![t].heard = @ \cup {g}]
    <3> DEFINE w == [wf[t] EXCEPT !.heard = @ \cup {g}]
    <3>1. w \in Workflow
      BY <1>3, WfOfTask DEF WfOK, Workflow
    <3>2. WfOK(w, runs[t], gs)
      BY <1>6, <3>1, WfOfTask DEF WfOK, Workflow
    <3>3. wf' = [wf EXCEPT ![t] = w]
      BY <2>2 DEF TypeOK
    <3> QED BY <3>2, <3>3
  <2> QED BY <1>2, <2>1, <2>2
<1> QED BY <1>1, <1>5, <1>6, <1>7, WfOfTask, Focus DEF gs

-----------------------------------------------------------------------------

\* Every step keeps the types.
LEMMA NextTypes ==
  ASSUME TypeOK, [Next]_vars
  PROVE  TypeOK'
<1>1. CASE UNCHANGED vars
  BY <1>1 DEF TypeOK, vars, rowVars
<1>2. CASE Next
  <2>1. PICK t \in Tasks :
          Advance(t) \/ GiveUp(t) \/ LoseAdmission(t) \/ LoseAnswer(t) \/ LoseFinalize(t) \/ People(t)
    BY <1>2 DEF Next
  <2>2. CASE Advance(t)
    BY <2>2, AnswerTypes, StepTypes, WaitTypes, LeaveTypes, AdmissionTypes, PauseTypes,
       AskingTypes, FailTypes, ResolveTypes, FinalizeTypes, KickTypes DEF Advance
  <2>3. CASE GiveUp(t) \/ LoseAdmission(t) \/ LoseAnswer(t) \/ LoseFinalize(t)
    BY <2>3, WaitTypes, LeaveTypes, AdmissionTypes, LoseAnswerTypes
  <2>4. CASE People(t)
    BY <2>4, SignalTypes, RequestTypes, DecisionTypes DEF People
  <2> QED BY <2>1, <2>2, <2>3, <2>4
<1> QED BY <1>1, <1>2

\* A fresh execution has the types (AgentTaskWorkflow.__init__).
LEMMA InitTypes ==
  ASSUME Init
  PROVE  TypeOK
<1> DEFINE w == [stage |-> "admit", attempt |-> 1, run |-> None,
                 paused |-> FALSE, cancelled |-> FALSE, kick |-> FALSE,
                 turns |-> 0, heard |-> {}, gate |-> None,
                 steps |-> 0, done |-> FALSE, outcome |-> "none"]
<1>1. w \in Workflow
  BY Bounds, Names DEF Workflow, None
<1>2. <<>> \in Seq(RunStatus) /\ <<>> \in Seq(Gate)
  BY EmptySeq
<1>3. WfOK(w, <<>>, <<>>)
  BY <1>1 DEF WfOK, Stepping
<1>4. wf = [t \in Tasks |-> w]
  BY DEF Init
<1> HIDE DEF w
<1> QED BY <1>1, <1>2, <1>3, <1>4 DEF Init, TypeOK, WfOK, RunStatus, ActiveState, Stamps

\* AgentTaskWorkflow and the rows it shares keep their types: in particular the
\* loop never runs without a run row or past its steps, and every signal heard
\* and every wait is for a row that exists.
THEOREM TypeCorrect == Spec => []TypeOK
<1>1. Init => TypeOK
  BY InitTypes
<1>2. TypeOK /\ [Next]_vars => TypeOK'
  BY NextTypes
<1> QED BY <1>1, <1>2, PTL DEF Spec

-----------------------------------------------------------------------------
(* Slots: the counts, and the only step that adds to them.                 *)

\* In the loop, or where CleanUp may return to it.
InLoop(w) == w.stage \in Stepping \/ (w.stage = "wrap" /\ w.outcome = "completed")

\* There the run holds a slot already: a run that is taken up again, after a
\* wait or an instruction that came late, claims no second one.
LoopHasSlot == \A t \in Tasks : InLoop(wf[t]) => runs[t][wf[t].run] \in ActiveRun

SlotInv == TypeOK /\ LoopHasSlot /\ SlotsAreLimited /\ IsFiniteSet(ActiveRuns(Tasks))

-----------------------------------------------------------------------------
(* Counting.                                                               *)

\* The rows of a task that count.
ActiveOf(rs) == {i \in DOMAIN rs : rs[i] \in ActiveRun}

\* The active runs of a set of tasks, one by one.
LEMMA ActiveRunsAre ==
  ASSUME NEW T, NEW r
  PROVE  /\ r \in ActiveRuns(T) <=> \E t \in T : \E i \in ActiveOf(runs[t]) : r = <<t, i>>
         /\ r \in ActiveRuns(T)' <=> \E t \in T : \E i \in ActiveOf(runs'[t]) : r = <<t, i>>
  BY DEF ActiveRuns, ActiveOf

\* The runs of an agent are among those of the workspace, and can be counted.
LEMMA AgentRuns ==
  ASSUME IsFiniteSet(ActiveRuns(Tasks)), NEW a
  PROVE  /\ IsFiniteSet(ActiveRuns(OfAgent(a)))
         /\ Cardinality(ActiveRuns(OfAgent(a))) \in Nat
<1>1. ActiveRuns(OfAgent(a)) \subseteq ActiveRuns(Tasks)
  BY ActiveRunsAre DEF OfAgent
<1> QED BY <1>1, FS_Subset, FS_CardinalityType

\* Runs that are not claimed anew are no more than before.
LEMMA FewerRuns ==
  ASSUME NEW T, IsFiniteSet(ActiveRuns(T)),
         \A t \in T : ActiveOf(runs'[t]) \subseteq ActiveOf(runs[t])
  PROVE  /\ IsFiniteSet(ActiveRuns(T)')
         /\ Cardinality(ActiveRuns(T)') <= Cardinality(ActiveRuns(T))
<1>1. ActiveRuns(T)' \subseteq ActiveRuns(T)
  BY ActiveRunsAre
<1> QED BY <1>1, FS_Subset

\* A step that claims nothing keeps the limits.
LEMMA NothingClaimed ==
  ASSUME SlotInv, \A t \in Tasks : ActiveOf(runs'[t]) \subseteq ActiveOf(runs[t])
  PROVE  SlotsAreLimited' /\ IsFiniteSet(ActiveRuns(Tasks)')
<1>1. ASSUME NEW a \in Agents
      PROVE  Cardinality(ActiveRuns(OfAgent(a))') <= AgentLimit[a]
  <2>1. IsFiniteSet(ActiveRuns(OfAgent(a)))
    BY AgentRuns DEF SlotInv
  <2>2. \A t \in OfAgent(a) : ActiveOf(runs'[t]) \subseteq ActiveOf(runs[t])
    BY DEF OfAgent
  <2>3. /\ IsFiniteSet(ActiveRuns(OfAgent(a))')
        /\ Cardinality(ActiveRuns(OfAgent(a))') <= Cardinality(ActiveRuns(OfAgent(a)))
    BY <2>1, <2>2, FewerRuns
  <2>4. AgentLimit[a] \in Nat
    BY AgentTaskAssumption DEF AgentTaskAssumption
  <2> QED BY <2>1, <2>3, <2>4, FS_CardinalityType DEF SlotInv, SlotsAreLimited
<1>2. /\ IsFiniteSet(ActiveRuns(Tasks)')
      /\ Cardinality(ActiveRuns(Tasks)') <= Cardinality(ActiveRuns(Tasks))
  BY FewerRuns DEF SlotInv
<1>3. WorkspaceLimit \in Nat
  BY AgentTaskAssumption DEF AgentTaskAssumption
<1>4. Cardinality(ActiveRuns(Tasks)') <= WorkspaceLimit
  BY <1>2, <1>3, FS_CardinalityType DEF SlotInv, SlotsAreLimited
<1> QED BY <1>1, <1>2, <1>4 DEF SlotsAreLimited, OfAgent

\* One claim is one run more, where the task is counted at all.
LEMMA OneRunMore ==
  ASSUME TypeOK, NEW t \in Tasks, ClaimSlot(t), NEW T \in SUBSET Tasks,
         IsFiniteSet(ActiveRuns(T))
  PROVE  /\ IsFiniteSet(ActiveRuns(T)')
         /\ Cardinality(ActiveRuns(T)') <= Cardinality(ActiveRuns(T)) + 1
         /\ t \notin T => Cardinality(ActiveRuns(T)') <= Cardinality(ActiveRuns(T))
<1>1. \A u \in Tasks : u # t => runs'[u] = runs[u]
  BY ClaimTypes DEF TypeOK
<1>2. ActiveOf(runs'[t]) \subseteq ActiveOf(runs[t]) \cup {Len(runs'[t])}
  <2>1. runs[t] \in Seq(RunStatus) /\ runs'[t] = Append(runs[t], "running")
    BY WfOfTask, ClaimTypes
  <2>2. /\ DOMAIN runs[t] = 1..Len(runs[t])
        /\ DOMAIN runs'[t] = 1..(Len(runs[t]) + 1)
        /\ Len(runs'[t]) = Len(runs[t]) + 1 /\ Len(runs[t]) \in Nat
        /\ \A i \in 1..Len(runs[t]) : runs'[t][i] = runs[t][i]
    BY <2>1
  <2> QED BY <2>2 DEF ActiveOf
<1> DEFINE r == <<t, Len(runs'[t])>>
<1>3. ActiveRuns(T)' \subseteq ActiveRuns(T) \cup {r}
  BY <1>1, <1>2, ActiveRunsAre
<1>4. t \notin T => ActiveRuns(T)' \subseteq ActiveRuns(T)
  BY <1>1, ActiveRunsAre
<1> HIDE DEF r
<1>5. /\ IsFiniteSet(ActiveRuns(T) \cup {r})
      /\ Cardinality(ActiveRuns(T) \cup {r}) <= Cardinality(ActiveRuns(T)) + 1
  BY FS_AddElement, FS_CardinalityType
<1>6. /\ IsFiniteSet(ActiveRuns(T)')
      /\ Cardinality(ActiveRuns(T)') <= Cardinality(ActiveRuns(T) \cup {r})
  BY <1>3, <1>5, FS_Subset
<1>7. t \notin T => Cardinality(ActiveRuns(T)') <= Cardinality(ActiveRuns(T))
  BY <1>4, FS_Subset
<1> QED BY <1>5, <1>6, <1>7, FS_CardinalityType

\* A claim keeps the limits: the admission looked for room under the locks of
\* the agent and the workspace (resolve_snapshot_activity).
LEMMA OneClaimed ==
  ASSUME SlotInv, NEW t \in Tasks, ClaimSlot(t)
  PROVE  SlotsAreLimited' /\ IsFiniteSet(ActiveRuns(Tasks)')
<1>1. /\ ~(Cardinality(ActiveRuns(OfAgent(AgentOf[t]))) >= AgentLimit[AgentOf[t]])
      /\ ~(Cardinality(ActiveRuns(Tasks)) >= WorkspaceLimit)
  BY DEF ClaimSlot, Blocked
<1>2. WorkspaceLimit \in Nat /\ \A a \in Agents : AgentLimit[a] \in Nat
  BY AgentTaskAssumption DEF AgentTaskAssumption
<1>3. ASSUME NEW a \in Agents
      PROVE  Cardinality(ActiveRuns(OfAgent(a))') <= AgentLimit[a]
  <2>1. IsFiniteSet(ActiveRuns(OfAgent(a))) /\ OfAgent(a) \in SUBSET Tasks
        /\ Cardinality(ActiveRuns(OfAgent(a))) \in Nat
    BY AgentRuns DEF SlotInv, OfAgent
  <2>2. /\ IsFiniteSet(ActiveRuns(OfAgent(a))')
        /\ Cardinality(ActiveRuns(OfAgent(a))') <= Cardinality(ActiveRuns(OfAgent(a))) + 1
        /\ t \notin OfAgent(a) =>
             Cardinality(ActiveRuns(OfAgent(a))') <= Cardinality(ActiveRuns(OfAgent(a)))
    BY <2>1, OneRunMore DEF SlotInv
  <2>3. Cardinality(ActiveRuns(OfAgent(a))') \in Nat
    BY <2>2, FS_CardinalityType
  <2>4. CASE a = AgentOf[t]
    BY <1>1, <1>2, <2>1, <2>2, <2>3, <2>4
  <2>5. CASE a # AgentOf[t]
    <3>1. t \notin OfAgent(a)
      BY <2>5 DEF OfAgent
    <3> QED BY <1>2, <2>1, <2>2, <2>3, <3>1 DEF SlotInv, SlotsAreLimited
  <2> QED BY <2>4, <2>5
<1>4. /\ IsFiniteSet(ActiveRuns(Tasks)')
      /\ Cardinality(ActiveRuns(Tasks)') <= Cardinality(ActiveRuns(Tasks)) + 1
  BY OneRunMore DEF SlotInv
<1>5. Cardinality(ActiveRuns(Tasks)') <= WorkspaceLimit
  BY <1>1, <1>2, <1>4, FS_CardinalityType DEF SlotInv
<1> QED BY <1>3, <1>4, <1>5 DEF SlotsAreLimited, OfAgent

-----------------------------------------------------------------------------
(* Steps.                                                                  *)

\* What the other executions are to the slots stays as it is.
OthersStay(t) ==
  \A u \in Tasks \ {t} :
    /\ runs'[u] = runs[u]
    /\ wf'[u].stage = wf[u].stage /\ wf'[u].outcome = wf[u].outcome /\ wf'[u].run = wf[u].run

\* A step that claims nothing keeps the invariant, if the execution is still
\* outside the loop or its run still active.
LEMMA SlotKept ==
  ASSUME SlotInv, NEW t \in Tasks, TypeOK', OthersStay(t),
         ActiveOf(runs'[t]) \subseteq ActiveOf(runs[t]),
         InLoop(wf'[t]) => runs'[t][wf'[t].run] \in ActiveRun
  PROVE  SlotInv'
<1>1. \A u \in Tasks : ActiveOf(runs'[u]) \subseteq ActiveOf(runs[u])
  BY DEF OthersStay
<1>2. SlotsAreLimited' /\ IsFiniteSet(ActiveRuns(Tasks)')
  BY <1>1, NothingClaimed
<1>3. LoopHasSlot'
  BY DEF LoopHasSlot, SlotInv, OthersStay, InLoop
<1> QED BY <1>2, <1>3 DEF SlotInv, Tasks

\* Steps that leave the runs alone and do not enter the loop.
LEMMA MoveKeeps ==
  ASSUME SlotInv, NEW t \in Tasks, TypeOK', UNCHANGED runs,
         OthersStay(t), InLoop(wf'[t]) => InLoop(wf[t]) /\ wf'[t].run = wf[t].run
  PROVE  SlotInv'
  BY SlotKept DEF SlotInv, LoopHasSlot

\* Admission that turns the task away, or lets it wait (AgentTaskWorkflow.run).
LEMMA AdmissionKeeps ==
  ASSUME SlotInv, NEW t \in Tasks, TypeOK',
         Queued(t) \/ Queue(t) \/ DenyWithdrawn(t) \/ DenyAdmission(t) \/ Wake(t)
  PROVE  SlotInv'
<1>0. wf \in [Tasks -> Workflow] /\ wf[t] \in Workflow
  BY DEF SlotInv, TypeOK
<1>1. CASE Queued(t)
  BY <1>0, <1>1, MoveKeeps
  DEF Queued, OthersStay, InLoop, rowVars, Workflow, Stepping, At
<1>2. CASE Queue(t)
  BY <1>0, <1>2, MoveKeeps
  DEF Queue, OthersStay, InLoop, rowVars, Workflow, Stepping, At
<1>3. CASE DenyWithdrawn(t)
  BY <1>0, <1>3, MoveKeeps
  DEF DenyWithdrawn, OthersStay, InLoop, rowVars, Workflow, Stepping, At, End
<1>4. CASE DenyAdmission(t)
  BY <1>0, <1>4, MoveKeeps
  DEF DenyAdmission, OthersStay, InLoop, rowVars, Workflow, Stepping, At, End
<1>5. CASE Wake(t)
  BY <1>0, <1>5, MoveKeeps
  DEF Wake, OthersStay, InLoop, rowVars, Workflow, Stepping, At, Goto, End
<1> QED BY <1>1, <1>2, <1>3, <1>4, <1>5

\* The loop keeps the run it has (_run_step_loop).
LEMMA LoopKeeps ==
  ASSUME SlotInv, NEW t \in Tasks, TypeOK',
         BeginStep(t) \/ Park(t) \/ Unpark(t) \/ StepDone(t) \/ StepStopped(t) \/ StepCut(t)
  PROVE  SlotInv'
<1>0. wf \in [Tasks -> Workflow] /\ wf[t] \in Workflow
  BY DEF SlotInv, TypeOK
<1>1. CASE BeginStep(t)
  BY <1>0, <1>1, MoveKeeps
  DEF BeginStep, OthersStay, InLoop, rowVars, Workflow, Stepping, At
<1>2. CASE Park(t)
  BY <1>0, <1>2, MoveKeeps
  DEF Park, OthersStay, InLoop, rowVars, Workflow, Stepping, At, Goto
<1>3. CASE Unpark(t)
  BY <1>0, <1>3, MoveKeeps
  DEF Unpark, OthersStay, InLoop, rowVars, Workflow, Stepping, At, Goto
<1>4. CASE StepDone(t)
  <2>1. /\ wf[t].stage = "step"
        /\ \E done \in BOOLEAN :
             wf' = [wf EXCEPT ![t].stage = "top", ![t].steps = @ + 1, ![t].done = done]
    BY <1>4 DEF StepDone, At
  <2>2. \A u \in Tasks \ {t} : wf'[u] = wf[u]
    BY <1>0, <2>1
  <2>3. wf'[t].run = wf[t].run
    BY <1>0, <2>1 DEF Workflow
  <2> QED BY <1>4, <2>1, <2>2, <2>3, MoveKeeps DEF StepDone, OthersStay, InLoop, rowVars, Stepping
<1>5. CASE StepStopped(t)
  BY <1>0, <1>5, MoveKeeps
  DEF StepStopped, OthersStay, InLoop, rowVars, Workflow, Stepping, At
<1>6. CASE StepCut(t)
  BY <1>0, <1>6, MoveKeeps
  DEF StepCut, OthersStay, InLoop, rowVars, Workflow, Stepping, At, End
<1> QED BY <1>1, <1>2, <1>3, <1>4, <1>5, <1>6

\* So do the waits (_run_step_loop, _await_person_answer).
LEMMA WaitKeeps ==
  ASSUME SlotInv, NEW t \in Tasks, TypeOK',
         BeginWait(t) \/ Hear(t) \/ HearStop(t) \/ GiveUp(t) \/ LoseAnswer(t)
  PROVE  SlotInv'
<1>0. wf \in [Tasks -> Workflow] /\ wf[t] \in Workflow
  BY DEF SlotInv, TypeOK
<1>1. CASE BeginWait(t)
  BY <1>0, <1>1, MoveKeeps
  DEF BeginWait, OthersStay, InLoop, rowVars, Workflow, Stepping, At, Goto
<1>2. CASE Hear(t)
  BY <1>0, <1>2, MoveKeeps
  DEF Hear, OthersStay, InLoop, rowVars, Workflow, Stepping, At
<1>3. CASE HearStop(t)
  BY <1>0, <1>3, MoveKeeps
  DEF HearStop, OthersStay, InLoop, rowVars, Workflow, Stepping, At, End
<1>4. CASE GiveUp(t)
  BY <1>0, <1>4, MoveKeeps
  DEF GiveUp, OthersStay, InLoop, rowVars, Workflow, Stepping, At, Goto
<1>5. CASE LoseAnswer(t)
  BY <1>0, <1>5, MoveKeeps
  DEF LoseAnswer, OthersStay, InLoop, Workflow, Stepping, At, Goto
<1> QED BY <1>1, <1>2, <1>3, <1>4, <1>5

\* And the way out of the loop, which may lead back into it
\* (_cleanup_run_workspace).
LEMMA LeaveKeeps ==
  ASSUME SlotInv, NEW t \in Tasks, TypeOK',
         Leave(t) \/ CleanUp(t) \/ LoseFinalize(t) \/ Kick(t)
  PROVE  SlotInv'
<1>0. wf \in [Tasks -> Workflow] /\ wf[t] \in Workflow
  BY DEF SlotInv, TypeOK
<1>1. CASE Leave(t)
  BY <1>0, <1>1, MoveKeeps
  DEF Leave, OthersStay, InLoop, rowVars, Workflow, Stepping, At, End
<1>2. CASE CleanUp(t)
  BY <1>0, <1>2, MoveKeeps
  DEF CleanUp, OthersStay, InLoop, rowVars, Workflow, Stepping, At, Goto
<1>3. CASE LoseFinalize(t)
  BY <1>0, <1>3, MoveKeeps
  DEF LoseFinalize, OthersStay, InLoop, rowVars, Workflow, Stepping, At, Goto
<1>4. CASE Kick(t)
  BY <1>0, <1>4, MoveKeeps
  DEF Kick, OthersStay, InLoop, rowVars, Workflow, Stepping, At, Goto
<1> QED BY <1>1, <1>2, <1>3, <1>4

\* People change flags and gates, and no run (signal_task, change_queued,
\* decide).
LEMMA PeopleKeep ==
  ASSUME SlotInv, NEW t \in Tasks, TypeOK',
         Instruct(t) \/ PauseOrResume(t) \/ RequestStop(t) \/ SignalStop(t) \/ WithdrawTurn(t) \/ Decide(t) \/ SignalDecision(t)
  PROVE  SlotInv'
<1>0. wf \in [Tasks -> Workflow] /\ wf[t] \in Workflow
  BY DEF SlotInv, TypeOK
<1>1. CASE Instruct(t)
  BY <1>0, <1>1, MoveKeeps
  DEF Instruct, OthersStay, InLoop, rowVars, Workflow, Stepping, At
<1>2. CASE PauseOrResume(t)
  BY <1>0, <1>2, MoveKeeps
  DEF PauseOrResume, OthersStay, InLoop, rowVars, Workflow, Stepping, At
<1>3. CASE RequestStop(t)
  BY <1>0, <1>3, MoveKeeps
  DEF RequestStop, OthersStay, InLoop, rowVars, Workflow, Stepping, At
<1>4. CASE SignalStop(t)
  BY <1>0, <1>4, MoveKeeps
  DEF SignalStop, OthersStay, InLoop, rowVars, Workflow, Stepping, At
<1>5. CASE WithdrawTurn(t)
  BY <1>0, <1>5, MoveKeeps
  DEF WithdrawTurn, OthersStay, InLoop, rowVars, Workflow, Stepping, At
<1>6. CASE Decide(t)
  BY <1>0, <1>6, MoveKeeps
  DEF Decide, OthersStay, InLoop, rowVars, Workflow, Stepping, At
<1>7. CASE SignalDecision(t)
  BY <1>0, <1>7, MoveKeeps
  DEF SignalDecision, OthersStay, InLoop, rowVars, Workflow, Stepping, At, Tell
<1> QED BY <1>1, <1>2, <1>3, <1>4, <1>5, <1>6, <1>7

-----------------------------------------------------------------------------
\* Writing over the current run's status: it stays active, or the execution is
\* out of the loop.
LEMMA RunKeeps ==
  ASSUME SlotInv, NEW t \in Tasks, TypeOK', OthersStay(t), wf[t].run # None,
         NEW s \in RunStatus, runs' = [runs EXCEPT ![t][wf[t].run] = s],
         s \in ActiveRun => InLoop(wf[t]), InLoop(wf'[t]) => s \in ActiveRun,
         wf'[t].run = wf[t].run
  PROVE  SlotInv'
<1>1. /\ runs'[t] = [runs[t] EXCEPT ![wf[t].run] = s]
      /\ wf[t].run \in DOMAIN runs[t] /\ DOMAIN runs'[t] = DOMAIN runs[t]
  BY RunTypes, WfOfTask DEF SlotInv, WfOK
<1>2. runs'[t][wf[t].run] = s /\ \A i \in DOMAIN runs[t] : i # wf[t].run => runs'[t][i] = runs[t][i]
  BY <1>1
<1>3. s \in ActiveRun => runs[t][wf[t].run] \in ActiveRun
  BY DEF SlotInv, LoopHasSlot
<1>4. ActiveOf(runs'[t]) \subseteq ActiveOf(runs[t])
  BY <1>1, <1>2, <1>3 DEF ActiveOf
<1> QED BY <1>2, <1>4, SlotKept

\* A run that waits for people, or goes on after it did, keeps its slot
\* (commit_agent_step_activity, commit_review_projection_activity,
\* commit_approval_projection_activity, deliver_question_answer_activity).
LEMMA WaitingKeeps ==
  ASSUME SlotInv, NEW t \in Tasks, TypeOK',
         StepAsks(t) \/ StageApproval(t) \/ ParkAgain(t) \/ ResolveQuestion(t) \/ Settle(t)
  PROVE  SlotInv'
<1>1. wf \in [Tasks -> Workflow] /\ wf[t] \in Workflow
      /\ runs \in [Tasks -> Seq(RunStatus)]
  BY DEF SlotInv, TypeOK, RunStatus
<1>2. InLoop(wf[t])
  <2>1. At(t, "step") \/ At(t, "resolve")
    BY DEF StepAsks, StageApproval, ParkAgain, ResolveQuestion, Settle
  <2> QED BY <2>1 DEF At, InLoop, Stepping
<1>3. wf[t].run # None
  BY WfOfTask DEF StepAsks, StageApproval, ParkAgain, ResolveQuestion, Settle, At,
     SlotInv, WfOK, Stepping
<1>4. \E s \in ActiveRun : runs' = [runs EXCEPT ![t][wf[t].run] = s]
  BY DEF StepAsks, StageApproval, ParkAgain, ResolveQuestion, Settle, Ask, ActiveRun, Kinds
<1>5. OthersStay(t) /\ wf'[t].run = wf[t].run
  BY <1>1, <1>4 DEF StepAsks, StageApproval, ParkAgain, ResolveQuestion, Settle, Goto,
     OthersStay, Workflow
<1> QED BY <1>2, <1>3, <1>4, <1>5, RunKeeps DEF RunStatus

\* A run that fails or ends gives its slot back (finalize_run_projection_activity).
LEMMA EndKeeps ==
  ASSUME SlotInv, NEW t \in Tasks, TypeOK', StepFails(t) \/ Finalize(t)
  PROVE  SlotInv'
<1>1. wf \in [Tasks -> Workflow] /\ wf[t] \in Workflow
      /\ runs \in [Tasks -> Seq(RunStatus)]
  BY DEF SlotInv, TypeOK, RunStatus
<1>2. ~InLoop(wf'[t]) /\ wf'[t].run = wf[t].run
  BY <1>1 DEF StepFails, Finalize, Goto, End, InLoop, Workflow, Stepping
<1>3. \A u \in Tasks \ {t} : wf'[u] = wf[u]
  BY <1>1 DEF StepFails, Finalize, Goto, End
<1>4. CASE UNCHANGED runs
  BY <1>2, <1>3, <1>4, MoveKeeps DEF OthersStay
<1>5. CASE wf[t].run # None /\ \E s \in Terminal : runs' = [runs EXCEPT ![t][wf[t].run] = s]
  <2>1. PICK s \in Terminal : runs' = [runs EXCEPT ![t][wf[t].run] = s]
    BY <1>5
  <2>2. s \in RunStatus /\ s \notin ActiveRun
    BY DEF RunStatus, Terminal, ActiveRun, Kinds, Waiting
  <2>3. OthersStay(t)
    BY <1>1, <1>3, <2>1 DEF OthersStay
  <2> QED BY <1>2, <1>5, <2>1, <2>2, <2>3, RunKeeps
<1>6. CASE StepFails(t)
  <2>1. wf[t].run # None /\ "failed" \in Terminal
    BY <1>6, WfOfTask, Names DEF StepFails, At, SlotInv, WfOK, Stepping
  <2> QED BY <1>4, <1>5, <1>6, <2>1 DEF StepFails
<1>7. CASE Finalize(t)
  <2>1. wf[t].outcome \in Terminal
    BY <1>7, WfOfTask DEF Finalize, At, SlotInv, WfOK, Workflow
  <2> QED BY <1>4, <1>5, <1>7, <2>1 DEF Finalize
<1> QED BY <1>6, <1>7

\* An admission claims one slot, whether or not its answer arrives.
LEMMA ClaimKeeps ==
  ASSUME SlotInv, NEW t \in Tasks, TypeOK', Admit(t) \/ LoseAdmission(t)
  PROVE  SlotInv'
<1>1. wf \in [Tasks -> Workflow] /\ wf[t] \in Workflow
      /\ runs \in [Tasks -> Seq(RunStatus)]
  BY DEF SlotInv, TypeOK, RunStatus
<1>2. \A u \in Tasks \ {t} : wf'[u] = wf[u]
  BY <1>1 DEF Admit, LoseAdmission, End
<1>3. ASSUME LoseAdmission(t) PROVE ~InLoop(wf'[t])
  <2>1. wf[t].stage = "admit"
    BY <1>3 DEF LoseAdmission, ClaimSlot, At
  <2>2. \/ wf' = [wf EXCEPT ![t].stage = "finalize", ![t].outcome = "failed"]
        \/ wf' = [wf EXCEPT ![t].attempt = @ + 1]
    BY <1>3 DEF LoseAdmission, End
  <2>3. wf'[t].stage \in {"admit", "finalize"}
    BY <1>1, <2>1, <2>2 DEF Workflow
  <2> QED BY <2>3 DEF InLoop, Stepping
<1>4. CASE ClaimSlot(t)
  <2>1. SlotsAreLimited' /\ IsFiniteSet(ActiveRuns(Tasks)')
    BY <1>4, OneClaimed
  <2>2. \A u \in Tasks \ {t} : runs'[u] = runs[u]
    BY <1>1, <1>4 DEF ClaimSlot
  <2>3. InLoop(wf'[t]) => runs'[t][wf'[t].run] \in ActiveRun
    <3>1. CASE Admit(t)
      <4>1. wf'[t].run = Len(runs'[t])
        BY <1>1, <3>1 DEF Admit, Workflow
      <4>2. "running" \in RunStatus /\ runs'[t] = Append(runs[t], "running")
        BY <1>4, ClaimTypes DEF SlotInv, RunStatus, ActiveRun
      <4>3. runs'[t][Len(runs'[t])] = "running"
        BY <1>1, <4>2, Inserted
      <4> QED BY <4>1, <4>3 DEF ActiveRun
    <3> QED BY <1>3, <3>1
  <2>4. LoopHasSlot'
    BY <1>2, <2>2, <2>3 DEF SlotInv, LoopHasSlot
  <2> QED BY <2>1, <2>4 DEF SlotInv, Tasks
<1>5. CASE LoseAdmission(t) /\ UNCHANGED runs
  BY <1>2, <1>3, <1>5, MoveKeeps DEF OthersStay
<1> QED BY <1>4, <1>5 DEF Admit, LoseAdmission

-----------------------------------------------------------------------------
\* Every step keeps the limits.
LEMMA NextKeeps ==
  ASSUME SlotInv, [Next]_vars
  PROVE  SlotInv'
<1>1. TypeOK'
  BY NextTypes DEF SlotInv
<1>2. CASE UNCHANGED vars
  <2>1. \A u \in Tasks : ActiveOf(runs'[u]) \subseteq ActiveOf(runs[u])
    BY <1>2 DEF vars, rowVars
  <2>2. SlotsAreLimited' /\ IsFiniteSet(ActiveRuns(Tasks)')
    BY <2>1, NothingClaimed
  <2>3. LoopHasSlot'
    BY <1>2 DEF SlotInv, LoopHasSlot, vars, rowVars
  <2> QED BY <1>1, <2>2, <2>3 DEF SlotInv, Tasks
<1>3. CASE Next
  <2>1. PICK t \in Tasks :
          Advance(t) \/ GiveUp(t) \/ LoseAdmission(t) \/ LoseAnswer(t) \/ LoseFinalize(t) \/ People(t)
    BY <1>3 DEF Next
  <2>2. CASE Advance(t)
    BY <1>1, <2>2, AdmissionKeeps, LoopKeeps, WaitKeeps, LeaveKeeps, WaitingKeeps,
       EndKeeps, ClaimKeeps DEF Advance
  <2>3. CASE GiveUp(t) \/ LoseAdmission(t) \/ LoseAnswer(t) \/ LoseFinalize(t)
    BY <1>1, <2>3, WaitKeeps, LeaveKeeps, ClaimKeeps
  <2>4. CASE People(t)
    BY <1>1, <2>4, PeopleKeep DEF People
  <2> QED BY <2>1, <2>2, <2>3, <2>4
<1> QED BY <1>2, <1>3

\* In the beginning nobody has a slot.
LEMMA InitKeeps ==
  ASSUME Init
  PROVE  SlotInv
<1>1. TypeOK
  BY InitTypes
<1>2. LoopHasSlot
  BY DEF Init, LoopHasSlot, InLoop, Stepping
<1>3. ASSUME NEW T \in SUBSET Tasks PROVE ActiveRuns(T) = {}
  BY ActiveRunsAre DEF Init, ActiveOf
<1>4. ActiveRuns(Tasks) = {} /\ \A a \in Agents : ActiveRuns(OfAgent(a)) = {}
  BY <1>3 DEF OfAgent
<1>5. WorkspaceLimit \in Nat /\ \A a \in Agents : AgentLimit[a] \in Nat
  BY AgentTaskAssumption DEF AgentTaskAssumption
<1> QED BY <1>1, <1>2, <1>4, <1>5, FS_EmptySet DEF SlotInv, SlotsAreLimited

\* Admission control holds for every number of tasks, agents and slots: however
\* many tasks ask at once, in whatever order the others wait, come back from a
\* wait, fail or end, and whichever attempts are lost, no agent and no workspace
\* has more active runs than slots (resolve_snapshot_activity).
THEOREM SlotsHold == Spec => []SlotsAreLimited
<1>1. Init => SlotInv
  BY InitKeeps
<1>2. SlotInv /\ [Next]_vars => SlotInv'
  BY NextKeeps
<1>3. SlotInv => SlotsAreLimited
  BY DEF SlotInv
<1> QED BY <1>1, <1>2, <1>3, PTL DEF Spec

-----------------------------------------------------------------------------
(* Turns: what is over stays over, and a run begins only after it.         *)

\* A task completes or fails where its workflow has finalized it; one that was
\* withdrawn is cancelled wherever its workflow is.
FinishedIsFinal == \A t \in Tasks : state[t] \in {"completed", "failed"} => wf[t].stage \in {"kick", "closed"}

TurnInv == TypeOK /\ FinishedIsFinal /\ TurnsInOrder

\* A step that writes to a task: no row but its own, and a terminal state only
\* over by another one.
TaskStep(t) ==
  /\ \A u \in Tasks \ {t} : state'[u] = state[u] /\ runs'[u] = runs[u]
  /\ \A u \in Tasks \ {t} : wf'[u].stage = wf[u].stage
  /\ state[t] \in Terminal => state'[t] \in Terminal
  /\ state'[t] \in {"completed", "failed"} => wf'[t].stage \in {"kick", "closed"}

\* Such a step keeps the order, if it adds no first run or adds it in order.
LEMMA TurnKept ==
  ASSUME TurnInv, NEW t \in Tasks, TypeOK', TaskStep(t),
         runs'[t] # <<>> => runs[t] # <<>> \/ ~Blocked(t)
  PROVE  TurnInv'
<1>1. FinishedIsFinal'
  BY DEF TurnInv, FinishedIsFinal, TaskStep
<1>2. \A u \in Tasks : state[u] \in Terminal => state'[u] \in Terminal
  BY DEF TaskStep
<1>3. ASSUME NEW u \in Tasks, After[u] # None, runs'[u] # <<>> PROVE state'[After[u]] \in Terminal
  <2>1. After[u] \in Tasks
    BY <1>3, AgentTaskAssumption DEF AgentTaskAssumption
  <2>2. CASE runs[u] # <<>>
    BY <1>2, <1>3, <2>1, <2>2 DEF TurnInv, TurnsInOrder
  <2>3. CASE runs[u] = <<>>
    <3>1. u = t /\ ~Blocked(t)
      BY <1>3, <2>3 DEF TaskStep
    <3>2. state[After[t]] \notin ActiveState
      BY <1>3, <3>1 DEF Blocked
    <3>3. state[After[t]] \in Terminal
      BY <2>1, <3>1, <3>2 DEF TurnInv, TypeOK
    <3> QED BY <1>2, <2>1, <3>1, <3>3
  <2> QED BY <2>2, <2>3
<1>4. TurnsInOrder'
  BY <1>3 DEF TurnsInOrder
<1> QED BY <1>1, <1>4 DEF TurnInv, Tasks

\* Steps of an execution that leave the state and the runs of its task alone
\* keep the order (AgentTaskWorkflow.run between two projections).
LEMMA MovesInOrder ==
  ASSUME TurnInv, NEW t \in Tasks, TypeOK', UNCHANGED <<state, runs>>,
         \A u \in Tasks : wf[u].stage \in {"kick", "closed"} => wf'[u].stage \in {"kick", "closed"}
  PROVE  TurnInv'
  BY DEF TurnInv, FinishedIsFinal, TurnsInOrder, Tasks

\* One execution moves on from where it was not finalized.
LEMMA OneMovesInOrder ==
  ASSUME TurnInv, NEW t \in Tasks, TypeOK', UNCHANGED <<state, runs>>,
         \A u \in Tasks \ {t} : wf'[u] = wf[u],
         wf[t].stage \notin {"kick", "closed"} \/ wf'[t].stage = wf[t].stage
  PROVE  TurnInv'
  BY MovesInOrder

\* Admission writes the state of a task that is not over, and gives it its first
\* run when the earlier turn is (resolve_snapshot_activity).
LEMMA AdmissionInOrder ==
  ASSUME TurnInv, NEW t \in Tasks, TypeOK', Admit(t) \/ Queue(t) \/ LoseAdmission(t)
  PROVE  TurnInv'
<1>0. wf \in [Tasks -> Workflow] /\ state \in [Tasks -> ActiveState \cup Terminal]
      /\ runs \in [Tasks -> Seq(RunStatus)]
  BY DEF TurnInv, TypeOK, RunStatus
<1>1. At(t, "admit") /\ \A u \in Tasks \ {t} : wf'[u] = wf[u]
  BY <1>0 DEF Admit, Queue, LoseAdmission, ClaimSlot, End
<1>2. CASE UNCHANGED <<state, runs>>
  BY <1>1, <1>2, OneMovesInOrder DEF At
<1>3. CASE /\ ~Withdrawn(t) /\ (runs' = runs \/ ~Blocked(t))
           /\ \A u \in Tasks \ {t} : state'[u] = state[u] /\ runs'[u] = runs[u]
           /\ state'[t] \in {"paused", "running", "queued"}
  <2>1. state[t] \notin Terminal
    BY <1>1, <1>3 DEF TurnInv, FinishedIsFinal, At, Withdrawn, Terminal
  <2>2. TaskStep(t)
    BY <1>1, <1>3, <2>1 DEF TaskStep
  <2> QED BY <1>3, <2>2, TurnKept
<1>4. CASE ClaimSlot(t)
  <2>1. /\ ~Withdrawn(t) /\ ~Blocked(t)
        /\ \A u \in Tasks \ {t} : state'[u] = state[u] /\ runs'[u] = runs[u]
        /\ state'[t] \in {"paused", "running"}
    BY <1>0, <1>4 DEF ClaimSlot
  <2> QED BY <1>3, <2>1
<1>5. CASE Queue(t)
  <2>1. /\ ~Withdrawn(t) /\ runs' = runs
        /\ \A u \in Tasks \ {t} : state'[u] = state[u]
        /\ state'[t] \in {"paused", "queued"}
    BY <1>0, <1>5 DEF Queue
  <2> QED BY <1>3, <2>1
<1> QED BY <1>2, <1>4, <1>5 DEF Admit, LoseAdmission

\* A pause moves a task between active states only (mark_task_paused_activity).
LEMMA PauseInOrder ==
  ASSUME TurnInv, NEW t \in Tasks, TypeOK', Park(t) \/ Unpark(t)
  PROVE  TurnInv'
<1>0. wf \in [Tasks -> Workflow] /\ state \in [Tasks -> ActiveState \cup Terminal]
  BY DEF TurnInv, TypeOK
<1>1. \A u \in Tasks \ {t} : wf'[u] = wf[u] /\ state'[u] = state[u]
  BY <1>0 DEF Park, Unpark, Goto, MarkPaused
<1>2. state'[t] = state[t] \/ (state[t] \notin Terminal /\ state'[t] \in {"paused", "running"})
  BY <1>0 DEF Park, Unpark, MarkPaused, Terminal
<1>3. wf[t].stage \notin {"kick", "closed"} /\ UNCHANGED runs
  BY DEF Park, Unpark, At
<1>4. state[t] \notin {"completed", "failed"}
  BY <1>3 DEF TurnInv, FinishedIsFinal
<1>5. TaskStep(t)
  BY <1>1, <1>2, <1>3, <1>4 DEF TaskStep
<1> QED BY <1>3, <1>5, TurnKept

\* A step that writes to the run of an execution finds one there.
LEMMA RunsInOrder ==
  ASSUME TurnInv, NEW t \in Tasks, TypeOK',
         StepAsks(t) \/ StageApproval(t) \/ ParkAgain(t) \/ ResolveQuestion(t) \/ Settle(t) \/ StepFails(t)
  PROVE  TurnInv'
<1>0. /\ wf \in [Tasks -> Workflow] /\ state \in [Tasks -> ActiveState \cup Terminal]
      /\ runs \in [Tasks -> Seq(RunStatus)]
  BY DEF TurnInv, TypeOK, RunStatus
<1>1. wf[t].stage \in {"step", "resolve"} /\ UNCHANGED state
  BY DEF StepAsks, StageApproval, ParkAgain, ResolveQuestion, Settle, StepFails, At
<1>2. \A u \in Tasks \ {t} : wf'[u] = wf[u] /\ runs'[u] = runs[u]
  BY <1>0 DEF StepAsks, StageApproval, ParkAgain, ResolveQuestion, Settle, StepFails, Ask, Goto, End
<1>3. runs[t] # <<>>
  <2>1. wf[t].run # None /\ wf[t].run \in DOMAIN runs[t] \cup {None}
    BY <1>1, WfOfTask DEF TurnInv, WfOK, Stepping
  <2> QED BY <2>1
<1>4. state[t] \notin {"completed", "failed"}
  BY <1>1 DEF TurnInv, FinishedIsFinal
<1>5. TaskStep(t)
  BY <1>1, <1>2, <1>4 DEF TaskStep
<1> QED BY <1>3, <1>5, TurnKept

\* The terminal projection writes a terminal state (finalize_run_projection_activity).
LEMMA FinalizeInOrder ==
  ASSUME TurnInv, NEW t \in Tasks, TypeOK', Finalize(t)
  PROVE  TurnInv'
<1>0. /\ wf \in [Tasks -> Workflow] /\ state \in [Tasks -> ActiveState \cup Terminal]
      /\ runs \in [Tasks -> Seq(RunStatus)]
  BY DEF TurnInv, TypeOK, RunStatus
<1>1. wf[t].outcome \in Terminal
  BY WfOfTask DEF TurnInv, Finalize, At, WfOK, Workflow
<1>2. /\ \A u \in Tasks \ {t} : wf'[u] = wf[u] /\ runs'[u] = runs[u] /\ state'[u] = state[u]
      /\ wf'[t].stage \in {"kick", "closed"} /\ state'[t] = wf[t].outcome
  BY <1>0 DEF Finalize, Goto, Workflow
<1>3. TaskStep(t)
  BY <1>1, <1>2 DEF TaskStep
<1>4. runs'[t] # <<>> => runs[t] # <<>>
  <2>1. CASE wf[t].run = None
    BY <2>1 DEF Finalize
  <2>2. CASE wf[t].run # None
    BY <2>2, WfOfTask DEF TurnInv, WfOK
  <2> QED BY <2>1, <2>2
<1> QED BY <1>3, <1>4, TurnKept

\* A queued task is withdrawn before it has a run (change_queued).
LEMMA WithdrawalInOrder ==
  ASSUME TurnInv, NEW t \in Tasks, TypeOK', WithdrawTurn(t)
  PROVE  TurnInv'
<1>0. state \in [Tasks -> ActiveState \cup Terminal]
  BY DEF TurnInv, TypeOK
<1>1. /\ \A u \in Tasks \ {t} : state'[u] = state[u]
      /\ state'[t] = "cancelled" /\ UNCHANGED <<runs, wf>>
  BY <1>0 DEF WithdrawTurn
<1>2. TaskStep(t)
  BY <1>1 DEF TaskStep, Terminal
<1> QED BY <1>1, <1>2, TurnKept

\* What else an execution does moves it on, with no word to the rows that matter
\* here, before it was finalized.
LEMMA ProgressInOrder ==
  ASSUME TurnInv, NEW t \in Tasks, TypeOK',
         \/ Queued(t) \/ DenyWithdrawn(t) \/ DenyAdmission(t) \/ Wake(t)
         \/ BeginStep(t) \/ StepDone(t) \/ StepStopped(t) \/ StepCut(t)
         \/ BeginWait(t) \/ Hear(t) \/ HearStop(t) \/ GiveUp(t) \/ LoseAnswer(t)
         \/ Leave(t) \/ CleanUp(t) \/ LoseFinalize(t)
  PROVE  TurnInv'
<1>0. wf \in [Tasks -> Workflow]
  BY DEF TurnInv, TypeOK
<1>1. wf[t].stage \notin {"kick", "closed"} /\ UNCHANGED <<state, runs>>
  BY DEF Queued, DenyWithdrawn, DenyAdmission, Wake, BeginStep, StepDone, StepStopped, StepCut,
         BeginWait, Hear, HearStop, GiveUp, LoseAnswer, Leave, CleanUp, LoseFinalize, At, rowVars
<1>2. \A u \in Tasks \ {t} : wf'[u] = wf[u]
  BY <1>0 DEF Queued, DenyWithdrawn, DenyAdmission, Wake, BeginStep, StepDone, StepStopped, StepCut,
         BeginWait, Hear, HearStop, GiveUp, LoseAnswer, Leave, CleanUp, LoseFinalize, Goto, End
<1> QED BY <1>1, <1>2, OneMovesInOrder

\* A kick, and what people signal, sets flags and decides gates.
LEMMA SignalsInOrder ==
  ASSUME TurnInv, NEW t \in Tasks, TypeOK',
         \/ Kick(t) \/ Instruct(t) \/ PauseOrResume(t) \/ RequestStop(t) \/ SignalStop(t)
         \/ Decide(t) \/ SignalDecision(t)
  PROVE  TurnInv'
<1>0. wf \in [Tasks -> Workflow]
  BY DEF TurnInv, TypeOK
<1>1. UNCHANGED <<state, runs>>
  BY DEF Kick, Instruct, PauseOrResume, RequestStop, SignalStop, Decide, SignalDecision, Tell, rowVars
<1>2. \A u \in Tasks : wf[u].stage \in {"kick", "closed"} => wf'[u].stage \in {"kick", "closed"}
  <2>1. CASE Kick(t)
    BY <1>0, <2>1 DEF Kick, Goto, Workflow
  <2>2. CASE Instruct(t)
    BY <1>0, <2>2 DEF Instruct, Workflow
  <2>3. CASE PauseOrResume(t)
    BY <1>0, <2>3 DEF PauseOrResume, Workflow
  <2>4. CASE SignalStop(t)
    BY <1>0, <2>4 DEF SignalStop, Workflow
  <2>5. CASE SignalDecision(t)
    BY <1>0, <2>5 DEF SignalDecision, Tell, Workflow
  <2> QED BY <2>1, <2>2, <2>3, <2>4, <2>5 DEF RequestStop, Decide
<1> QED BY <1>1, <1>2, MovesInOrder

\* Every step keeps the order.
LEMMA NextInOrder ==
  ASSUME TurnInv, [Next]_vars
  PROVE  TurnInv'
<1>1. TypeOK'
  BY NextTypes DEF TurnInv
<1>2. CASE UNCHANGED vars
  BY <1>1, <1>2 DEF TurnInv, FinishedIsFinal, TurnsInOrder, vars, rowVars
<1>3. CASE Next
  <2>1. PICK t \in Tasks :
          Advance(t) \/ GiveUp(t) \/ LoseAdmission(t) \/ LoseAnswer(t) \/ LoseFinalize(t) \/ People(t)
    BY <1>3 DEF Next
  <2>2. CASE Advance(t)
    BY <1>1, <2>2, AdmissionInOrder, PauseInOrder, RunsInOrder, FinalizeInOrder, ProgressInOrder,
       SignalsInOrder DEF Advance
  <2>3. CASE GiveUp(t) \/ LoseAdmission(t) \/ LoseAnswer(t) \/ LoseFinalize(t)
    BY <1>1, <2>3, ProgressInOrder, AdmissionInOrder
  <2>4. CASE People(t)
    BY <1>1, <2>4, SignalsInOrder, WithdrawalInOrder DEF People
  <2> QED BY <2>1, <2>2, <2>3, <2>4
<1> QED BY <1>2, <1>3

\* The turns of a conversation run in order, whatever order the slots become
\* free in, whoever is paused, withdrawn or stopped in between, and whichever
\* admissions are lost: an earlier turn is over before the next one has a run.
THEOREM TurnsKeepOrder == Spec => []TurnsInOrder
<1>1. Init => TurnInv
  BY InitTypes DEF Init, TurnInv, FinishedIsFinal, TurnsInOrder
<1>2. TurnInv /\ [Next]_vars => TurnInv'
  BY NextInOrder
<1>3. TurnInv => TurnsInOrder
  BY DEF TurnInv
<1> QED BY <1>1, <1>2, <1>3, PTL DEF Spec

-----------------------------------------------------------------------------
(* Calls: an open gate of the loop is the one it waits at.                 *)

\* An approval or a question that nobody has decided, and of which nothing is lost.
Open(g) == g.kind \in {"approval", "question"} /\ g.status = "pending" /\ ~g.lost

\* On the way into the loop, or in it.
Engaged(w) == w.stage \in Admitting \/ InLoop(w)

\* At the gate that a step left behind.
Held(w) == w.stage \in {"asked", "await", "resolve"}

GateAwaited(w, gs) ==
  Engaged(w) => \A g \in DOMAIN gs : Open(gs[g]) => Held(w) /\ w.gate = g
OpenAreAwaited == \A t \in Tasks : GateAwaited(wf[t], gates[t])

CallInv == TypeOK /\ OpenAreAwaited

\* What the other tasks wait at stays as it is.
OthersAwait(t) ==
  \A u \in Tasks \ {t} :
    /\ gates'[u] = gates[u]
    /\ wf'[u].stage = wf[u].stage /\ wf'[u].outcome = wf[u].outcome /\ wf'[u].gate = wf[u].gate

\* One task at a time.
LEMMA CallKept ==
  ASSUME CallInv, NEW t \in Tasks, TypeOK', OthersAwait(t), GateAwaited(wf'[t], gates'[t])
  PROVE  CallInv'
<1>1. ASSUME NEW u \in Tasks \ {t} PROVE GateAwaited(wf'[u], gates'[u])
  BY DEF CallInv, OpenAreAwaited, OthersAwait, GateAwaited, Engaged, InLoop, Held
<1> QED BY <1>1 DEF CallInv, OpenAreAwaited, Tasks

\* An execution that is not held has no open gate, and may go where it likes;
\* one that is held keeps its gate, or leaves the loop for good.
LEMMA WalkKept ==
  ASSUME CallInv, NEW t \in Tasks, TypeOK', UNCHANGED gates,
         \A u \in Tasks \ {t} : wf'[u] = wf[u],
         Engaged(wf'[t]) => Engaged(wf[t]),
         Engaged(wf'[t]) /\ Held(wf[t]) => Held(wf'[t]) /\ wf'[t].gate = wf[t].gate
  PROVE  CallInv'
<1>1. OthersAwait(t)
  BY DEF OthersAwait
<1>2. GateAwaited(wf'[t], gates'[t])
  BY DEF CallInv, OpenAreAwaited, GateAwaited
<1> QED BY <1>1, <1>2, CallKept

\* Where an execution is not held, none of its gates is open.
LEMMA WalkingKept ==
  ASSUME CallInv, NEW t \in Tasks, TypeOK',
         \/ Admit(t) \/ LoseAdmission(t) \/ Queued(t) \/ Queue(t) \/ DenyWithdrawn(t) \/ DenyAdmission(t)
         \/ Wake(t) \/ BeginStep(t) \/ Park(t) \/ Unpark(t) \/ StepDone(t) \/ StepStopped(t) \/ StepCut(t)
         \/ Leave(t) \/ CleanUp(t) \/ LoseFinalize(t)
  PROVE  CallInv'
<1>0. wf \in [Tasks -> Workflow] /\ wf[t] \in Workflow
  BY DEF CallInv, TypeOK
<1>1. UNCHANGED gates /\ ~Held(wf[t]) /\ \A u \in Tasks \ {t} : wf'[u] = wf[u]
  <2>1. UNCHANGED gates
    BY DEF Admit, LoseAdmission, Queued, Queue, DenyWithdrawn, DenyAdmission, Wake, BeginStep, Park, Unpark,
           StepDone, StepStopped, StepCut, Leave, CleanUp, LoseFinalize, rowVars
  <2>2. ~Held(wf[t])
    BY DEF Admit, LoseAdmission, ClaimSlot, Queued, Queue, DenyWithdrawn, DenyAdmission, Wake, BeginStep,
           Park, Unpark, StepDone, StepStopped, StepCut, Leave, CleanUp, LoseFinalize, At, Held
  <2>3. \A u \in Tasks \ {t} : wf'[u] = wf[u]
    BY <1>0 DEF Admit, LoseAdmission, Queued, Queue, DenyWithdrawn, DenyAdmission, Wake, BeginStep, Park,
           Unpark, StepDone, StepStopped, StepCut, Leave, CleanUp, LoseFinalize, Goto, End
  <2> QED BY <2>1, <2>2, <2>3
<1>2. Engaged(wf'[t]) => Engaged(wf[t])
  <2>1. ~Engaged(wf[t]) => wf[t].stage \in Closing
    BY <1>0, <1>1 DEF Engaged, InLoop, Workflow, Stages, Ended, Queued, Queue, DenyWithdrawn, DenyAdmission,
           Admit, LoseAdmission, ClaimSlot, Wake, BeginStep, Park, Unpark, StepDone, StepStopped, StepCut,
           Leave, CleanUp, LoseFinalize, At
  <2>2. CASE CleanUp(t)
    BY <1>0, <2>2 DEF CleanUp, Engaged, InLoop, At, Goto, Admitting, Stepping, Workflow
  <2>3. CASE LoseFinalize(t)
    BY <1>0, <2>3 DEF LoseFinalize, Engaged, InLoop, Goto, Admitting, Stepping, Workflow
  <2>4. CASE ~CleanUp(t) /\ ~LoseFinalize(t)
    BY <2>1, <2>4 DEF Admit, LoseAdmission, ClaimSlot, Queued, Queue, DenyWithdrawn, DenyAdmission, Wake,
           BeginStep, Park, Unpark, StepDone, StepStopped, StepCut, Leave, At, Closing
  <2> QED BY <2>2, <2>3, <2>4
<1> QED BY <1>1, <1>2, WalkKept

\* A held execution keeps its gate while it waits, or gives up for good.
LEMMA HeldKept ==
  ASSUME CallInv, NEW t \in Tasks, TypeOK',
         BeginWait(t) \/ Hear(t) \/ HearStop(t) \/ GiveUp(t) \/ StepFails(t)
  PROVE  CallInv'
<1>0. wf \in [Tasks -> Workflow] /\ wf[t] \in Workflow
  BY DEF CallInv, TypeOK
<1>1. UNCHANGED gates /\ Engaged(wf[t]) /\ \A u \in Tasks \ {t} : wf'[u] = wf[u]
  BY <1>0 DEF BeginWait, Hear, HearStop, GiveUp, StepFails, Goto, End, rowVars, Engaged, InLoop, At, Stepping
<1>2. Engaged(wf'[t]) => Held(wf'[t]) /\ wf'[t].gate = wf[t].gate
  <2>1. CASE BeginWait(t) \/ Hear(t) \/ GiveUp(t)
    BY <1>0, <2>1 DEF BeginWait, Hear, GiveUp, Goto, Held, Workflow
  <2>2. CASE HearStop(t) \/ StepFails(t)
    BY <1>0, <2>2 DEF HearStop, StepFails, End, Engaged, InLoop, Admitting, Stepping, Workflow
  <2> QED BY <2>1, <2>2
<1> QED BY <1>1, <1>2, WalkKept

\* Flags and signals touch no gate and no stage.
LEMMA FlagsKept ==
  ASSUME CallInv, NEW t \in Tasks, TypeOK',
         Kick(t) \/ Instruct(t) \/ PauseOrResume(t) \/ RequestStop(t) \/ SignalStop(t) \/ WithdrawTurn(t)
  PROVE  CallInv'
<1>0. wf \in [Tasks -> Workflow] /\ wf[t] \in Workflow
  BY DEF CallInv, TypeOK
<1>1. UNCHANGED gates
  BY DEF Kick, Instruct, PauseOrResume, RequestStop, SignalStop, WithdrawTurn, rowVars
<1>2. CASE Kick(t)
  <2>1. \A u \in Tasks \ {t} : wf'[u].stage = wf[u].stage /\ wf'[u].outcome = wf[u].outcome
                                /\ wf'[u].gate = wf[u].gate
    BY <1>0, <1>2 DEF Kick, Goto, Workflow
  <2>2. wf'[t].stage = "closed"
    BY <1>0, <1>2 DEF Kick, Goto, Workflow
  <2>3. OthersAwait(t)
    BY <1>1, <2>1 DEF OthersAwait
  <2>4. GateAwaited(wf'[t], gates'[t])
    BY <2>2 DEF GateAwaited, Engaged, InLoop, Admitting, Stepping
  <2> QED BY <2>3, <2>4, CallKept
<1>3. CASE ~Kick(t)
  <2>1. \A u \in Tasks : wf'[u].stage = wf[u].stage /\ wf'[u].outcome = wf[u].outcome
                          /\ wf'[u].gate = wf[u].gate
    <3>1. CASE Instruct(t)
      BY <1>0, <3>1 DEF Instruct, Workflow
    <3>2. CASE PauseOrResume(t)
      BY <1>0, <3>2 DEF PauseOrResume, Workflow
    <3>3. CASE SignalStop(t)
      BY <1>0, <3>3 DEF SignalStop, Workflow
    <3> QED BY <1>3, <3>1, <3>2, <3>3 DEF RequestStop, WithdrawTurn
  <2>2. OthersAwait(t)
    BY <1>1, <2>1 DEF OthersAwait
  <2>3. GateAwaited(wf'[t], gates'[t])
    BY <1>1, <2>1 DEF CallInv, OpenAreAwaited, GateAwaited, Engaged, InLoop, Held
  <2> QED BY <2>2, <2>3, CallKept
<1> QED BY <1>2, <1>3

\* Where one gate of a task is written over, the others stay.
LEMMA OneGateWritten ==
  ASSUME TypeOK, NEW t \in Tasks, NEW g \in DOMAIN gates[t],
         (\E s \in {"cancelled", "expired"} \cup Decided : gates' = [gates EXCEPT ![t][g].status = s])
         \/ gates' = [gates EXCEPT ![t][g].told = TRUE]
  PROVE  /\ \A u \in Tasks \ {t} : gates'[u] = gates[u]
         /\ DOMAIN gates'[t] = DOMAIN gates[t]
         /\ \A h \in DOMAIN gates[t] : Open(gates'[t][h]) => Open(gates[t][h])
         /\ gates' # [gates EXCEPT ![t][g].told = TRUE] => ~Open(gates'[t][g])
<1>1. gates \in [Tasks -> Seq(Gate)] /\ gates[t] \in Seq(Gate) /\ gates[t][g] \in Gate
  BY WfOfTask, ElementOfSeq, LenProperties DEF TypeOK
<1>2. ASSUME NEW s \in {"cancelled", "expired"} \cup Decided, gates' = [gates EXCEPT ![t][g].status = s]
      PROVE  /\ gates' = [gates EXCEPT ![t] = [gates[t] EXCEPT ![g] = [gates[t][g] EXCEPT !.status = s]]]
             /\ ~Open([gates[t][g] EXCEPT !.status = s])
  <2>1. gates' = [gates EXCEPT ![t] = [gates[t] EXCEPT ![g] = [gates[t][g] EXCEPT !.status = s]]]
    BY <1>2
  <2>2. [gates[t][g] EXCEPT !.status = s].status = s
    BY <1>1 DEF Gate
  <2> QED BY <2>1, <2>2 DEF Open, Decided
<1>3. ASSUME gates' = [gates EXCEPT ![t][g].told = TRUE]
      PROVE  /\ gates' = [gates EXCEPT ![t] = [gates[t] EXCEPT ![g] = [gates[t][g] EXCEPT !.told = TRUE]]]
             /\ Open([gates[t][g] EXCEPT !.told = TRUE]) => Open(gates[t][g])
  <2>1. gates' = [gates EXCEPT ![t] = [gates[t] EXCEPT ![g] = [gates[t][g] EXCEPT !.told = TRUE]]]
    BY <1>3
  <2>2. /\ [gates[t][g] EXCEPT !.told = TRUE].status = gates[t][g].status
        /\ [gates[t][g] EXCEPT !.told = TRUE].kind = gates[t][g].kind
        /\ [gates[t][g] EXCEPT !.told = TRUE].lost = gates[t][g].lost
    BY <1>1 DEF Gate
  <2> QED BY <2>1, <2>2 DEF Open
<1>4. \E x : /\ gates' = [gates EXCEPT ![t] = [gates[t] EXCEPT ![g] = x]]
             /\ Open(x) => Open(gates[t][g])
             /\ gates' # [gates EXCEPT ![t][g].told = TRUE] => ~Open(x)
  BY <1>2, <1>3
<1>5. PICK x : /\ gates' = [gates EXCEPT ![t] = [gates[t] EXCEPT ![g] = x]]
               /\ Open(x) => Open(gates[t][g])
               /\ gates' # [gates EXCEPT ![t][g].told = TRUE] => ~Open(x)
  BY <1>4
<1>6. gates'[t] = [gates[t] EXCEPT ![g] = x] /\ \A u \in Tasks \ {t} : gates'[u] = gates[u]
  BY <1>1, <1>5
<1>7. /\ DOMAIN gates'[t] = DOMAIN gates[t] /\ gates'[t][g] = x
      /\ \A h \in DOMAIN gates[t] \ {g} : gates'[t][h] = gates[t][h]
  BY <1>1, <1>6
<1> QED BY <1>5, <1>6, <1>7

\* A decision closes a gate, and its signal opens none (decide_approval,
\* decide_review, answer_question).
LEMMA DecisionsKept ==
  ASSUME CallInv, NEW t \in Tasks, TypeOK', Decide(t) \/ SignalDecision(t)
  PROVE  CallInv'
<1>0. TypeOK /\ wf \in [Tasks -> Workflow]
  BY DEF CallInv, TypeOK
<1>1. PICK g \in DOMAIN gates[t] :
        (\E s \in {"cancelled", "expired"} \cup Decided : gates' = [gates EXCEPT ![t][g].status = s])
        \/ gates' = [gates EXCEPT ![t][g].told = TRUE]
  BY DEF Decide, SignalDecision, Tell
<1>2. /\ \A u \in Tasks \ {t} : gates'[u] = gates[u]
      /\ DOMAIN gates'[t] = DOMAIN gates[t]
      /\ \A h \in DOMAIN gates[t] : Open(gates'[t][h]) => Open(gates[t][h])
  BY <1>0, <1>1, OneGateWritten
<1>3. \A u \in Tasks : wf'[u].stage = wf[u].stage /\ wf'[u].outcome = wf[u].outcome
                        /\ wf'[u].gate = wf[u].gate
  <2>1. CASE Decide(t)
    BY <2>1 DEF Decide
  <2>2. CASE SignalDecision(t)
    BY <1>0, <2>2 DEF SignalDecision, Tell, Workflow
  <2> QED BY <2>1, <2>2
<1>4. OthersAwait(t)
  BY <1>2, <1>3 DEF OthersAwait
<1>5. GateAwaited(wf'[t], gates'[t])
  BY <1>2, <1>3 DEF CallInv, OpenAreAwaited, GateAwaited, Engaged, InLoop, Held
<1> QED BY <1>4, <1>5, CallKept

\* An answer that is lost takes its gate off the list (_await_person_answer).
LEMMA LostKept ==
  ASSUME CallInv, NEW t \in Tasks, TypeOK', LoseAnswer(t)
  PROVE  CallInv'
<1>0. /\ TypeOK /\ wf \in [Tasks -> Workflow] /\ wf[t] \in Workflow
      /\ gates \in [Tasks -> Seq(Gate)] /\ At(t, "resolve")
  BY DEF CallInv, TypeOK, LoseAnswer
<1>1. \A u \in Tasks \ {t} : wf'[u] = wf[u]
  BY <1>0 DEF LoseAnswer, Goto
<1>2. \A g \in DOMAIN gates[t] : Open(gates[t][g]) => g = wf[t].gate
  BY <1>0 DEF CallInv, OpenAreAwaited, GateAwaited, Engaged, InLoop, At, Stepping
<1>3. wf[t].gate \in DOMAIN gates[t]
  BY <1>0, WfOfTask DEF WfOK, At
<1> DEFINE x == [gates[t][wf[t].gate] EXCEPT !.lost = TRUE]
<1>4. gates[t][wf[t].gate] \in Gate
  BY <1>0, <1>3, WfOfTask, ElementOfSeq, LenProperties
<1>5. ~Open(x)
  BY <1>4 DEF Open, Gate
<1>6. gates' = [gates EXCEPT ![t] = [gates[t] EXCEPT ![wf[t].gate] = x]]
  BY DEF LoseAnswer
<1> HIDE DEF x
<1>7. /\ \A u \in Tasks \ {t} : gates'[u] = gates[u]
      /\ DOMAIN gates'[t] = DOMAIN gates[t]
      /\ gates'[t][wf[t].gate] = x
      /\ \A g \in DOMAIN gates[t] \ {wf[t].gate} : gates'[t][g] = gates[t][g]
  BY <1>0, <1>3, <1>6
<1>8. OthersAwait(t)
  BY <1>1, <1>7 DEF OthersAwait
<1>9. GateAwaited(wf'[t], gates'[t])
  BY <1>2, <1>5, <1>7 DEF GateAwaited
<1> QED BY <1>8, <1>9, CallKept

\* An answer, or a decided call, sets the loop going again: its gate is closed.
LEMMA ResolvedKept ==
  ASSUME CallInv, NEW t \in Tasks, TypeOK', ResolveQuestion(t) \/ Settle(t)
  PROVE  CallInv'
<1>0. /\ TypeOK /\ wf \in [Tasks -> Workflow] /\ wf[t] \in Workflow
      /\ gates \in [Tasks -> Seq(Gate)] /\ At(t, "resolve")
  BY DEF CallInv, TypeOK, ResolveQuestion, Settle
<1>1. /\ \A u \in Tasks \ {t} : wf'[u] = wf[u]
      /\ wf'[t].stage = "top"
  BY <1>0 DEF ResolveQuestion, Settle, Goto, Workflow
<1>2. \A g \in DOMAIN gates[t] : Open(gates[t][g]) => g = wf[t].gate
  BY <1>0 DEF CallInv, OpenAreAwaited, GateAwaited, Engaged, InLoop, At, Stepping
<1>3. wf[t].gate \in DOMAIN gates[t]
  BY <1>0, WfOfTask DEF WfOK, At
<1>4. /\ \A u \in Tasks \ {t} : gates'[u] = gates[u]
      /\ DOMAIN gates'[t] = DOMAIN gates[t]
      /\ \A g \in DOMAIN gates[t] : ~Open(gates'[t][g])
  <2>1. CASE Settle(t)
    BY <1>2, <2>1 DEF Settle, Awaited, Open, Decided
  <2>2. CASE ResolveQuestion(t)
    <3> DEFINE s == IF gates[t][wf[t].gate].status = "pending" THEN "expired" ELSE gates[t][wf[t].gate].status
    <3>1. gates' = [gates EXCEPT ![t][wf[t].gate].status = s]
      BY <2>2, Zenon DEF ResolveQuestion
    <3>2. gates[t][wf[t].gate] \in Gate
      BY <1>0, <1>3, WfOfTask, ElementOfSeq, LenProperties
    <3>3. s \in {"cancelled", "expired"} \cup Decided
      BY <3>2 DEF Gate
    <3> HIDE DEF s
    <3>4. /\ \A u \in Tasks \ {t} : gates'[u] = gates[u]
          /\ DOMAIN gates'[t] = DOMAIN gates[t]
          /\ \A h \in DOMAIN gates[t] : Open(gates'[t][h]) => Open(gates[t][h])
      BY <1>0, <1>3, <3>1, <3>3, OneGateWritten
    <3>5. gates'[t][wf[t].gate].status = s
      BY <1>0, <1>3, <3>1, <3>2 DEF Gate
    <3>6. ~Open(gates'[t][wf[t].gate])
      BY <3>3, <3>5 DEF Open, Decided
    <3> QED BY <1>2, <3>4, <3>6
  <2> QED BY <2>1, <2>2
<1>5. OthersAwait(t)
  BY <1>1, <1>4 DEF OthersAwait
<1>6. GateAwaited(wf'[t], gates'[t])
  BY <1>4 DEF GateAwaited
<1> QED BY <1>5, <1>6, CallKept

\* What a step asks for is what the execution is held at; a second review is
\* no approval (commit_review_projection_activity).
LEMMA AskedKept ==
  ASSUME CallInv, NEW t \in Tasks, TypeOK', StepAsks(t) \/ StageApproval(t) \/ ParkAgain(t)
  PROVE  CallInv'
<1>0. /\ TypeOK /\ wf \in [Tasks -> Workflow] /\ wf[t] \in Workflow
      /\ gates \in [Tasks -> Seq(Gate)]
  BY DEF CallInv, TypeOK
<1>1. \A g \in DOMAIN gates[t] : ~Open(gates[t][g])
  <2>1. At(t, "step") \/ (At(t, "resolve") /\ ReviewApproved(t))
    BY DEF StepAsks, StageApproval, ParkAgain
  <2> QED BY <1>0, <2>1 DEF CallInv, OpenAreAwaited, GateAwaited, Engaged, InLoop, At, Stepping, Held,
             ReviewApproved, Awaited, Open
<1>2. PICK kind \in Kinds : /\ Ask(t, kind)
                            /\ ParkAgain(t) => kind = "review"
  BY DEF StepAsks, StageApproval, ParkAgain, Kinds
<1> DEFINE x == NewGate(kind)
<1>3. gates'[t] = Append(gates[t], x) /\ \A u \in Tasks \ {t} : gates'[u] = gates[u]
  BY <1>0, <1>2 DEF Ask
<1>4. x \in Gate /\ x.kind = kind
  BY DEF Gate, NewGate
<1> HIDE DEF x
<1>5. /\ DOMAIN gates'[t] = DOMAIN gates[t] \cup {Len(gates'[t])}
      /\ gates'[t][Len(gates'[t])] = x
      /\ \A g \in DOMAIN gates[t] : gates'[t][g] = gates[t][g]
  <2>1. gates[t] \in Seq(Gate)
    BY <1>0
  <2>2. /\ DOMAIN gates'[t] = 1..(Len(gates[t]) + 1) /\ DOMAIN gates[t] = 1..Len(gates[t])
        /\ Len(gates'[t]) = Len(gates[t]) + 1 /\ Len(gates[t]) \in Nat
    BY <1>3, <1>4, <2>1
  <2> QED BY <1>3, <1>4, <2>1, <2>2, Inserted
<1>6. \A g \in DOMAIN gates'[t] : Open(gates'[t][g]) => g = Len(gates'[t]) /\ kind # "review"
  BY <1>1, <1>4, <1>5 DEF Open
<1>7. \A u \in Tasks \ {t} : wf'[u] = wf[u]
  BY <1>0 DEF StepAsks, StageApproval, ParkAgain, Goto
<1>8. ParkAgain(t) \/ (Held(wf'[t]) /\ wf'[t].gate = Len(gates'[t]))
  <2>1. CASE StepAsks(t)
    <3>1. wf' = [wf EXCEPT ![t].stage = "asked", ![t].steps = @ + 1, ![t].done = FALSE,
                           ![t].gate = Len(gates'[t])]
      BY <2>1 DEF StepAsks
    <3> QED BY <1>0, <3>1 DEF Held, Workflow
  <2>2. CASE StageApproval(t)
    <3>1. wf' = [wf EXCEPT ![t].stage = "asked", ![t].gate = Len(gates'[t])]
      BY <2>2 DEF StageApproval
    <3> QED BY <1>0, <3>1 DEF Held, Workflow
  <2> QED BY <2>1, <2>2
<1>9. OthersAwait(t)
  BY <1>3, <1>7 DEF OthersAwait
<1>10. GateAwaited(wf'[t], gates'[t])
  BY <1>2, <1>6, <1>8 DEF GateAwaited
<1> QED BY <1>9, <1>10, CallKept

\* The end of an execution leaves the loop (finalize_run_projection_activity).
LEMMA FinalizedKept ==
  ASSUME CallInv, NEW t \in Tasks, TypeOK', Finalize(t)
  PROVE  CallInv'
<1>0. wf \in [Tasks -> Workflow] /\ gates \in [Tasks -> Seq(Gate)]
  BY DEF CallInv, TypeOK
<1>1. \A u \in Tasks \ {t} : wf'[u] = wf[u]
  BY <1>0 DEF Finalize, Goto
<1>2. \A u \in Tasks \ {t} : gates'[u] = gates[u]
  BY <1>0 DEF Finalize
<1>3. wf'[t].stage \in {"closed", "kick"}
  BY <1>0 DEF Finalize, Goto, Workflow
<1>4. OthersAwait(t)
  BY <1>1, <1>2 DEF OthersAwait
<1>5. GateAwaited(wf'[t], gates'[t])
  BY <1>3 DEF GateAwaited, Engaged, InLoop, Admitting, Stepping
<1> QED BY <1>4, <1>5, CallKept

\* Every step keeps an open gate where it is awaited.
LEMMA NextAwaits ==
  ASSUME CallInv, [Next]_vars
  PROVE  CallInv'
<1>1. TypeOK'
  BY NextTypes DEF CallInv
<1>2. CASE UNCHANGED vars
  BY <1>1, <1>2 DEF CallInv, OpenAreAwaited, GateAwaited, Engaged, InLoop, Held, vars, rowVars
<1>3. CASE Next
  <2>1. PICK t \in Tasks :
          Advance(t) \/ GiveUp(t) \/ LoseAdmission(t) \/ LoseAnswer(t) \/ LoseFinalize(t) \/ People(t)
    BY <1>3 DEF Next
  <2>2. CASE Advance(t)
    BY <1>1, <2>2, WalkingKept, HeldKept, FlagsKept, ResolvedKept, AskedKept, FinalizedKept DEF Advance
  <2>3. CASE GiveUp(t) \/ LoseAdmission(t) \/ LoseAnswer(t) \/ LoseFinalize(t)
    BY <1>1, <2>3, WalkingKept, HeldKept, LostKept
  <2>4. CASE People(t)
    BY <1>1, <2>4, FlagsKept, DecisionsKept DEF People
  <2> QED BY <2>1, <2>2, <2>3, <2>4
<1> QED BY <1>2, <1>3

\* The loop waits for what it asked: no step begins past an approval or a
\* question that is open, although signals, answers, other reviews and stops
\* come between the step that asked and its wait; only an answer whose delivery
\* failed for good leaves its question behind (_run_step_loop,
\* _await_person_answer).
THEOREM CallsAwaited == Spec => CallsAreAwaited
<1>1. Init => CallInv
  BY InitTypes DEF Init, CallInv, OpenAreAwaited, GateAwaited
<1>2. CallInv /\ [Next]_vars => CallInv'
  BY NextAwaits
<1>3. CallInv =>
        [\A t \in Tasks : At(t, "top") /\ wf'[t].stage = "step" =>
           \A g \in DOMAIN gates[t] :
             gates[t][g].kind \in {"approval", "question"} /\ ~gates[t][g].lost
               => gates[t][g].status # "pending"]_vars
  BY DEF CallInv, OpenAreAwaited, GateAwaited, Open, Engaged, InLoop, Held, At, Stepping
<1> QED BY <1>1, <1>2, <1>3, PTL DEF Spec, CallsAreAwaited

-----------------------------------------------------------------------------
(* The refinement of RunSlots: what a step is to the slots of its task.    *)

\* The run that an execution knows is the newest row of its task; before it
\* knows one, every row that a lost attempt left still counts.
NewestKnown ==
  \A t \in Tasks :
    /\ wf[t].run # None => wf[t].run = Len(runs[t])
    /\ wf[t].stage \in Admitting => wf[t].run = None /\ ActiveOf(runs[t]) = DOMAIN runs[t]

HeldInv == SlotInv /\ TurnInv /\ NewestKnown

\* A step concerns the slots of one task.
OthersRest(t) ==
  \A u \in Tasks \ {t} :
    /\ runs'[u] = runs[u] /\ state'[u] = state[u]
    /\ wf'[u].run = wf[u].run /\ wf'[u].stage = wf[u].stage

\* It adds no row, and does not go back to the admission.
Stays(t) ==
  /\ OthersRest(t)
  /\ wf'[t].run = wf[t].run
  /\ wf'[t].stage \in Admitting => wf[t].stage \in Admitting
  /\ DOMAIN runs'[t] = DOMAIN runs[t]

SlotStays(t) == ActiveOf(runs'[t]) = ActiveOf(runs[t])
SlotLaidDown(t) ==
  /\ wf[t].run # None /\ wf'[t].stage \notin Admitting
  /\ ActiveOf(runs'[t]) = ActiveOf(runs[t]) \ {wf[t].run}

\* The kinds of steps.
Rests(t)  == Stays(t) /\ SlotStays(t) /\ (state'[t] \in Terminal <=> state[t] \in Terminal)
Lays(t)   == Stays(t) /\ SlotLaidDown(t) /\ (state'[t] \in Terminal <=> state[t] \in Terminal)
Ends(t)   == Stays(t) /\ (SlotStays(t) \/ SlotLaidDown(t)) /\ state'[t] \in Terminal
Claims(t) ==
  /\ OthersRest(t)
  /\ ClaimSlot(t)
  /\ \/ wf'[t].run = None
     \/ wf'[t].run = Len(runs'[t]) /\ wf'[t].stage \notin Admitting

\* Steps that write to no row.
LEMMA MovesRest ==
  ASSUME HeldInv, NEW t \in Tasks,
         \/ Queued(t) \/ DenyWithdrawn(t) \/ DenyAdmission(t) \/ Wake(t)
         \/ BeginStep(t) \/ StepDone(t) \/ StepStopped(t) \/ StepCut(t)
         \/ BeginWait(t) \/ Hear(t) \/ HearStop(t) \/ GiveUp(t) \/ LoseAnswer(t)
         \/ Leave(t) \/ CleanUp(t) \/ LoseFinalize(t) \/ Kick(t)
         \/ Instruct(t) \/ PauseOrResume(t) \/ SignalStop(t)
  PROVE  Rests(t)
<1>0. wf \in [Tasks -> Workflow] /\ wf[t] \in Workflow
  BY DEF HeldInv, SlotInv, TypeOK
<1>1. UNCHANGED <<state, runs>>
  BY DEF Queued, DenyWithdrawn, DenyAdmission, Wake, BeginStep, StepDone, StepStopped, StepCut,
         BeginWait, Hear, HearStop, GiveUp, LoseAnswer, Leave, CleanUp, LoseFinalize, Kick, Instruct,
         PauseOrResume, SignalStop, rowVars
<1>2. \A u \in Tasks \ {t} : wf'[u].run = wf[u].run /\ wf'[u].stage = wf[u].stage
  <2>1. CASE Kick(t)
    BY <1>0, <2>1 DEF Kick, Goto, Workflow
  <2>2. CASE ~Kick(t)
    <3>1. \A u \in Tasks \ {t} : wf'[u] = wf[u]
      BY <1>0, <2>2 DEF Queued, DenyWithdrawn, DenyAdmission, Wake, BeginStep, StepDone,
         StepStopped, StepCut, BeginWait, Hear, HearStop, GiveUp, LoseAnswer, Leave, CleanUp, LoseFinalize,
         Instruct, PauseOrResume, SignalStop, Goto, End
    <3> QED BY <3>1
  <2> QED BY <2>1, <2>2
<1>3. wf'[t].run = wf[t].run /\ (wf'[t].stage \in Admitting => wf[t].stage \in Admitting)
  <2>1. CASE Queued(t) \/ DenyWithdrawn(t) \/ DenyAdmission(t) \/ Wake(t)
    BY <1>0, <2>1 DEF Queued, DenyWithdrawn, DenyAdmission, Wake, Goto, End, At, Workflow, Admitting
  <2>2. CASE BeginStep(t) \/ StepStopped(t) \/ StepCut(t)
    BY <1>0, <2>2 DEF BeginStep, StepStopped, StepCut, End, Workflow, Admitting
  <2>3. CASE StepDone(t)
    <3>1. PICK done \in BOOLEAN :
            wf' = [wf EXCEPT ![t].stage = "top", ![t].steps = @ + 1, ![t].done = done]
      BY <2>3 DEF StepDone
    <3> QED BY <1>0, <3>1 DEF Workflow, Admitting
  <2>4. CASE BeginWait(t) \/ Hear(t) \/ HearStop(t) \/ GiveUp(t) \/ LoseAnswer(t)
    BY <1>0, <2>4 DEF BeginWait, Hear, HearStop, GiveUp, LoseAnswer, Goto, End, Workflow, Admitting
  <2>5. CASE Leave(t) \/ CleanUp(t) \/ LoseFinalize(t) \/ Kick(t)
    BY <1>0, <2>5 DEF Leave, CleanUp, LoseFinalize, Kick, Goto, End, Workflow, Admitting
  <2>6. CASE Instruct(t) \/ PauseOrResume(t) \/ SignalStop(t)
    BY <1>0, <2>6 DEF Instruct, PauseOrResume, SignalStop, Workflow
  <2> QED BY <2>1, <2>2, <2>3, <2>4, <2>5, <2>6
<1> QED BY <1>1, <1>2, <1>3 DEF Rests, Stays, OthersRest, SlotStays

\* Steps that write to rows, but to none of a run: the answer of the queue, a
\* pause, and what people decide.
LEMMA NotesRest ==
  ASSUME HeldInv, NEW t \in Tasks,
         Queue(t) \/ Park(t) \/ Unpark(t) \/ RequestStop(t) \/ Decide(t) \/ SignalDecision(t)
  PROVE  Rests(t)
<1>0. /\ wf \in [Tasks -> Workflow] /\ wf[t] \in Workflow
      /\ state \in [Tasks -> ActiveState \cup Terminal]
  BY DEF HeldInv, SlotInv, TypeOK
<1>1. UNCHANGED runs
  BY DEF Queue, Park, Unpark, RequestStop, Decide, SignalDecision, Tell
<1>2. \A u \in Tasks \ {t} : wf'[u] = wf[u] /\ state'[u] = state[u]
  BY <1>0 DEF Queue, Park, Unpark, MarkPaused, RequestStop, Decide, SignalDecision, Tell, Goto
<1>3. wf'[t].run = wf[t].run /\ (wf'[t].stage \in Admitting => wf[t].stage \in Admitting)
  <2>1. CASE Queue(t) \/ Park(t) \/ Unpark(t)
    BY <1>0, <2>1 DEF Queue, Park, Unpark, Goto, At, Workflow, Admitting
  <2>2. CASE RequestStop(t) \/ Decide(t) \/ SignalDecision(t)
    BY <1>0, <2>2 DEF RequestStop, Decide, SignalDecision, Tell, Workflow
  <2> QED BY <2>1, <2>2
<1>4. state'[t] \in Terminal <=> state[t] \in Terminal
  <2>1. CASE Queue(t)
    <3>1. state[t] \notin Terminal
      BY <2>1 DEF Queue, At, Withdrawn, Terminal, HeldInv, TurnInv, FinishedIsFinal
    <3> QED BY <1>0, <2>1, <3>1 DEF Queue, Terminal
  <2>2. CASE Park(t) \/ Unpark(t)
    BY <1>0, <2>2 DEF Park, Unpark, MarkPaused, Terminal
  <2>3. CASE RequestStop(t) \/ Decide(t) \/ SignalDecision(t)
    BY <2>3 DEF RequestStop, Decide, SignalDecision, Tell
  <2> QED BY <2>1, <2>2, <2>3
<1> QED BY <1>1, <1>2, <1>3, <1>4 DEF Rests, Stays, OthersRest, SlotStays

\* Writing over the status of the current run, which holds a slot in the loop.
LEMMA RowWritten ==
  ASSUME HeldInv, NEW t \in Tasks, wf[t].run # None, NEW s \in RunStatus,
         runs' = [runs EXCEPT ![t][wf[t].run] = s]
  PROVE  /\ \A u \in Tasks \ {t} : runs'[u] = runs[u]
         /\ DOMAIN runs'[t] = DOMAIN runs[t]
         /\ s \in ActiveRun /\ InLoop(wf[t]) => ActiveOf(runs'[t]) = ActiveOf(runs[t])
         /\ s \notin ActiveRun => ActiveOf(runs'[t]) = ActiveOf(runs[t]) \ {wf[t].run}
<1>1. /\ runs'[t] = [runs[t] EXCEPT ![wf[t].run] = s]
      /\ wf[t].run \in DOMAIN runs[t] /\ DOMAIN runs'[t] = DOMAIN runs[t]
  BY RunTypes, WfOfTask DEF HeldInv, SlotInv, WfOK
<1>2. runs'[t][wf[t].run] = s /\ \A i \in DOMAIN runs[t] : i # wf[t].run => runs'[t][i] = runs[t][i]
  BY <1>1
<1>3. InLoop(wf[t]) => runs[t][wf[t].run] \in ActiveRun
  BY DEF HeldInv, SlotInv, LoopHasSlot
<1>4. \A u \in Tasks \ {t} : runs'[u] = runs[u]
  BY DEF HeldInv, SlotInv, TypeOK
<1> QED BY <1>1, <1>2, <1>3, <1>4 DEF ActiveOf

\* A run that waits for people, or goes on after it did, holds on to its slot
\* (commit_agent_step_activity, commit_review_projection_activity,
\* deliver_question_answer_activity).
LEMMA WaitingRests ==
  ASSUME HeldInv, NEW t \in Tasks,
         StepAsks(t) \/ StageApproval(t) \/ ParkAgain(t) \/ ResolveQuestion(t) \/ Settle(t)
  PROVE  Rests(t)
<1>0. wf \in [Tasks -> Workflow] /\ wf[t] \in Workflow
  BY DEF HeldInv, SlotInv, TypeOK
<1>1. At(t, "step") \/ At(t, "resolve")
  BY DEF StepAsks, StageApproval, ParkAgain, ResolveQuestion, Settle
<1>2. InLoop(wf[t]) /\ wf[t].stage \notin Admitting
  BY <1>1 DEF At, InLoop, Stepping, Admitting
<1>3. wf[t].run # None
  BY <1>1, WfOfTask DEF At, HeldInv, SlotInv, WfOK, Stepping
<1>4. PICK s \in ActiveRun : runs' = [runs EXCEPT ![t][wf[t].run] = s]
  BY DEF StepAsks, StageApproval, ParkAgain, ResolveQuestion, Settle, Ask, ActiveRun, Kinds
<1>5. /\ \A u \in Tasks \ {t} : wf'[u] = wf[u]
      /\ wf'[t].run = wf[t].run /\ wf'[t].stage \in {"asked", "top"}
  BY <1>0 DEF StepAsks, StageApproval, ParkAgain, ResolveQuestion, Settle, Goto, Workflow
<1>6. UNCHANGED state
  BY DEF StepAsks, StageApproval, ParkAgain, ResolveQuestion, Settle
<1>7. /\ \A u \in Tasks \ {t} : runs'[u] = runs[u]
      /\ DOMAIN runs'[t] = DOMAIN runs[t] /\ ActiveOf(runs'[t]) = ActiveOf(runs[t])
  BY <1>2, <1>3, <1>4, RowWritten DEF RunStatus
<1> QED BY <1>5, <1>6, <1>7 DEF Rests, Stays, OthersRest, SlotStays, Admitting

\* A run that fails or ends lays its slot down, and no other one.
LEMMA EndLays ==
  ASSUME HeldInv, NEW t \in Tasks, StepFails(t) \/ Finalize(t)
  PROVE  Rests(t) \/ Lays(t) \/ Ends(t)
<1>0. wf \in [Tasks -> Workflow] /\ wf[t] \in Workflow
      /\ state \in [Tasks -> ActiveState \cup Terminal]
  BY DEF HeldInv, SlotInv, TypeOK
<1>1. /\ \A u \in Tasks \ {t} : wf'[u] = wf[u]
      /\ wf'[t].run = wf[t].run /\ wf'[t].stage \in {"wrap", "closed", "kick"}
  BY <1>0 DEF StepFails, Finalize, Goto, End, Workflow
<1>2. wf'[t].stage \notin Admitting
  BY <1>1 DEF Admitting
<1>3. \/ UNCHANGED runs
      \/ wf[t].run # None /\ \E s \in Terminal : runs' = [runs EXCEPT ![t][wf[t].run] = s]
  <2>1. CASE StepFails(t)
    BY <2>1, WfOfTask, Names DEF StepFails, At, HeldInv, SlotInv, WfOK, Stepping
  <2>2. CASE Finalize(t)
    BY <2>2, WfOfTask DEF Finalize, At, HeldInv, SlotInv, WfOK, Workflow
  <2> QED BY <2>1, <2>2
<1>4. /\ \A u \in Tasks \ {t} : runs'[u] = runs[u]
      /\ DOMAIN runs'[t] = DOMAIN runs[t]
      /\ SlotStays(t) \/ SlotLaidDown(t)
  <2>1. CASE UNCHANGED runs
    BY <2>1 DEF SlotStays
  <2>2. CASE wf[t].run # None /\ \E s \in Terminal : runs' = [runs EXCEPT ![t][wf[t].run] = s]
    <3>1. PICK s \in Terminal : runs' = [runs EXCEPT ![t][wf[t].run] = s]
      BY <2>2
    <3>2. s \in RunStatus /\ s \notin ActiveRun
      BY DEF RunStatus, Terminal, ActiveRun, Kinds, Waiting
    <3> QED BY <1>2, <2>2, <3>1, <3>2, RowWritten DEF SlotLaidDown
  <2> QED BY <1>3, <2>1, <2>2
<1>5. CASE StepFails(t)
  BY <1>1, <1>2, <1>4, <1>5 DEF StepFails, Rests, Lays, Stays, OthersRest
<1>6. CASE Finalize(t)
  <2>1. wf[t].outcome \in Terminal
    BY <1>6, WfOfTask DEF Finalize, At, HeldInv, SlotInv, WfOK, Workflow
  <2>2. state'[t] \in Terminal /\ \A u \in Tasks \ {t} : state'[u] = state[u]
    BY <1>0, <1>6, <2>1 DEF Finalize
  <2> QED BY <1>1, <1>2, <1>4, <2>2 DEF Ends, Stays, OthersRest
<1> QED BY <1>5, <1>6

\* A withdrawn turn is over before it had a slot (change_queued).
LEMMA WithdrawalEnds ==
  ASSUME HeldInv, NEW t \in Tasks, WithdrawTurn(t)
  PROVE  Ends(t)
<1>0. state \in [Tasks -> ActiveState \cup Terminal]
  BY DEF HeldInv, SlotInv, TypeOK
<1> QED BY <1>0 DEF WithdrawTurn, Ends, Stays, OthersRest, SlotStays, Terminal

\* An admission takes one slot, whether or not its answer arrives.
LEMMA AdmissionClaims ==
  ASSUME HeldInv, NEW t \in Tasks, Admit(t) \/ LoseAdmission(t)
  PROVE  Claims(t) \/ Rests(t)
<1>0. /\ wf \in [Tasks -> Workflow] /\ wf[t] \in Workflow
      /\ state \in [Tasks -> ActiveState \cup Terminal]
      /\ runs \in [Tasks -> Seq(RunStatus)]
  BY DEF HeldInv, SlotInv, TypeOK, RunStatus
<1>1. \A u \in Tasks \ {t} : wf'[u] = wf[u]
  BY <1>0 DEF Admit, LoseAdmission, End
<1>2. wf[t].stage = "admit" /\ wf[t].run = None
  <2>1. wf[t].stage = "admit"
    BY DEF Admit, LoseAdmission, ClaimSlot, At
  <2> QED BY <2>1 DEF HeldInv, NewestKnown, Admitting
<1>3. LoseAdmission(t) => wf'[t].run = None /\ wf'[t].stage \in {"admit", "finalize"}
  <2>1. ASSUME LoseAdmission(t)
        PROVE  \/ wf' = [wf EXCEPT ![t].stage = "finalize", ![t].outcome = "failed"]
               \/ wf' = [wf EXCEPT ![t].attempt = @ + 1]
    BY <2>1 DEF LoseAdmission, End
  <2> QED BY <1>0, <1>2, <2>1 DEF Workflow
<1>4. Admit(t) => wf'[t].run = Len(runs'[t]) /\ wf'[t].stage \notin Admitting
  BY <1>0 DEF Admit, Workflow, Admitting
<1>5. CASE ClaimSlot(t)
  <2>1. \A u \in Tasks \ {t} : runs'[u] = runs[u] /\ state'[u] = state[u]
    BY <1>0, <1>5 DEF ClaimSlot
  <2> QED BY <1>1, <1>3, <1>4, <1>5, <2>1 DEF Claims, OthersRest
<1>6. CASE LoseAdmission(t) /\ UNCHANGED <<state, runs>>
  BY <1>1, <1>2, <1>3, <1>6 DEF Rests, Stays, OthersRest, SlotStays, Admitting
<1> QED BY <1>5, <1>6 DEF Admit, LoseAdmission

\* Every step is of one of the kinds.
LEMMA StepKinds ==
  ASSUME HeldInv, Next
  PROVE  \E t \in Tasks : Rests(t) \/ Claims(t) \/ Lays(t) \/ Ends(t)
<1>1. PICK t \in Tasks :
        Advance(t) \/ GiveUp(t) \/ LoseAdmission(t) \/ LoseAnswer(t) \/ LoseFinalize(t) \/ People(t)
  BY DEF Next
<1>2. CASE Advance(t)
  BY <1>2, MovesRest, NotesRest, WaitingRests, EndLays, AdmissionClaims DEF Advance
<1>3. CASE GiveUp(t) \/ LoseAdmission(t) \/ LoseAnswer(t) \/ LoseFinalize(t)
  BY <1>3, MovesRest, AdmissionClaims
<1>4. CASE People(t)
  BY <1>4, MovesRest, NotesRest, WithdrawalEnds DEF People
<1> QED BY <1>1, <1>2, <1>3, <1>4

\* The rows of a task after a claim.
LEMMA ClaimedRow ==
  ASSUME HeldInv, NEW t \in Tasks, ClaimSlot(t)
  PROVE  /\ Len(runs'[t]) = Len(runs[t]) + 1 /\ Len(runs[t]) \in Nat
         /\ ActiveOf(runs[t]) = 1..Len(runs[t])
         /\ ActiveOf(runs'[t]) = ActiveOf(runs[t]) \cup {Len(runs[t]) + 1}
         /\ DOMAIN runs'[t] = ActiveOf(runs'[t])
         /\ state[t] \notin Terminal /\ state'[t] \notin Terminal
<1>1. runs[t] \in Seq(RunStatus) /\ runs'[t] = Append(runs[t], "running")
      /\ wf[t].stage = "admit"
  BY WfOfTask, ClaimTypes DEF HeldInv, SlotInv
<1>2. /\ DOMAIN runs[t] = 1..Len(runs[t])
      /\ DOMAIN runs'[t] = 1..(Len(runs[t]) + 1)
      /\ Len(runs'[t]) = Len(runs[t]) + 1 /\ Len(runs[t]) \in Nat
      /\ \A i \in 1..Len(runs[t]) : runs'[t][i] = runs[t][i]
      /\ runs'[t][Len(runs[t]) + 1] = "running"
  BY <1>1
<1>3. ActiveOf(runs[t]) = DOMAIN runs[t]
  BY <1>1 DEF HeldInv, NewestKnown, Admitting
<1>4. "running" \in ActiveRun
  BY DEF ActiveRun
<1>5. \A i \in 1..Len(runs[t]) : runs[t][i] \in ActiveRun
  BY <1>2, <1>3 DEF ActiveOf
<1>6. 1..(Len(runs[t]) + 1) = 1..Len(runs[t]) \cup {Len(runs[t]) + 1}
  BY <1>2
<1>7. ActiveOf(runs'[t]) = 1..(Len(runs[t]) + 1)
  BY <1>2, <1>4, <1>5, <1>6 DEF ActiveOf
<1>8. state[t] \notin Terminal
  BY <1>1 DEF ClaimSlot, Withdrawn, HeldInv, TurnInv, FinishedIsFinal, Terminal
<1>9. state'[t] \in {"paused", "running"}
  BY DEF ClaimSlot, HeldInv, SlotInv, TypeOK
<1> QED BY <1>2, <1>3, <1>6, <1>7, <1>8, <1>9 DEF Terminal

\* Every step leaves the newest row known.
LEMMA NextKnown ==
  ASSUME HeldInv, [Next]_vars
  PROVE  NewestKnown'
<1>1. CASE UNCHANGED vars
  BY <1>1 DEF HeldInv, NewestKnown, ActiveOf, vars, rowVars
<1>2. CASE Next
  <2>1. PICK t \in Tasks : Rests(t) \/ Claims(t) \/ Lays(t) \/ Ends(t)
    BY <1>2, StepKinds
  <2>2. ASSUME NEW u \in Tasks \ {t}
        PROVE  /\ wf'[u].run # None => wf'[u].run = Len(runs'[u])
               /\ wf'[u].stage \in Admitting =>
                    wf'[u].run = None /\ ActiveOf(runs'[u]) = DOMAIN runs'[u]
    BY <2>1 DEF Rests, Claims, Lays, Ends, Stays, OthersRest, HeldInv, NewestKnown
  <2>3. /\ wf'[t].run # None => wf'[t].run = Len(runs'[t])
        /\ wf'[t].stage \in Admitting =>
             wf'[t].run = None /\ ActiveOf(runs'[t]) = DOMAIN runs'[t]
    <3>1. CASE Claims(t)
      BY <3>1, ClaimedRow DEF Claims
    <3>2. CASE Rests(t) \/ Lays(t) \/ Ends(t)
      <4>1. Stays(t) /\ (SlotStays(t) \/ SlotLaidDown(t))
        BY <3>2 DEF Rests, Lays, Ends
      <4>2. TypeOK'
        BY <1>2, NextTypes DEF HeldInv, SlotInv
      <4>3. runs[t] \in Seq(RunStatus) /\ runs'[t] \in Seq(RunStatus)
        BY <4>2 DEF HeldInv, SlotInv, TypeOK, RunStatus
      <4>4. Len(runs'[t]) = Len(runs[t])
        BY <4>1, <4>3 DEF Stays
      <4> QED BY <4>1, <4>4 DEF Stays, SlotStays, SlotLaidDown, HeldInv, NewestKnown
    <3> QED BY <2>1, <3>1, <3>2
  <2> QED BY <2>2, <2>3 DEF NewestKnown, Tasks
<1> QED BY <1>1, <1>2

\* What a slot is in the abstract: a row that counts.
LEMMA HeldIs ==
  ASSUME NEW t \in Tasks, NEW i
  PROVE  /\ <<t, i>> \in ActiveRuns(Tasks) <=> i \in ActiveOf(runs[t])
         /\ <<t, i>> \in ActiveRuns(Tasks)' <=> i \in ActiveOf(runs'[t])
  BY ActiveRunsAre

\* The slots of an agent are those of its tasks.
LEMMA HeldByIs ==
  ASSUME NEW a
  PROVE  Slots!HeldBy(a) = ActiveRuns(OfAgent(a))
<1>1. ASSUME NEW r
      PROVE  r \in Slots!HeldBy(a) <=> r \in ActiveRuns(OfAgent(a))
  <2>1. r \in Slots!HeldBy(a) <=> r \in ActiveRuns(Tasks) /\ AgentOf[r[1]] = a
    BY DEF Slots!HeldBy
  <2>2. ASSUME r \in ActiveRuns(Tasks), AgentOf[r[1]] = a PROVE r \in ActiveRuns(OfAgent(a))
    <3>1. PICK t \in Tasks : \E i \in ActiveOf(runs[t]) : r = <<t, i>>
      BY <2>2, ActiveRunsAre
    <3>2. t \in OfAgent(a)
      BY <2>2, <3>1 DEF OfAgent
    <3> QED BY <3>1, <3>2, ActiveRunsAre
  <2>3. ASSUME r \in ActiveRuns(OfAgent(a)) PROVE r \in ActiveRuns(Tasks) /\ AgentOf[r[1]] = a
    <3>1. PICK t \in OfAgent(a) : \E i \in ActiveOf(runs[t]) : r = <<t, i>>
      BY <2>3, ActiveRunsAre
    <3>2. t \in Tasks /\ AgentOf[t] = a /\ r[1] = t
      BY <3>1 DEF OfAgent
    <3> QED BY <3>1, <3>2, ActiveRunsAre
  <2> QED BY <2>1, <2>2, <2>3
<1> QED BY <1>1 DEF Slots!HeldBy

\* The slots after a step that only changes those of one task.
LEMMA HeldNext ==
  ASSUME NEW t \in Tasks, OthersRest(t), NEW n
  PROVE  /\ ActiveOf(runs'[t]) = ActiveOf(runs[t]) => ActiveRuns(Tasks)' = ActiveRuns(Tasks)
         /\ ActiveOf(runs'[t]) = ActiveOf(runs[t]) \ {n} =>
              ActiveRuns(Tasks)' = ActiveRuns(Tasks) \ {<<t, n>>}
         /\ ActiveOf(runs'[t]) = ActiveOf(runs[t]) \cup {n} =>
              ActiveRuns(Tasks)' = ActiveRuns(Tasks) \cup {<<t, n>>}
<1>1. ASSUME NEW r
      PROVE  r \in ActiveRuns(Tasks)' <=>
               \/ \E u \in Tasks \ {t} : \E i \in ActiveOf(runs[u]) : r = <<u, i>>
               \/ \E i \in ActiveOf(runs'[t]) : r = <<t, i>>
  BY ActiveRunsAre DEF OthersRest
<1>2. ASSUME NEW r
      PROVE  r \in ActiveRuns(Tasks) <=>
               \/ \E u \in Tasks \ {t} : \E i \in ActiveOf(runs[u]) : r = <<u, i>>
               \/ \E i \in ActiveOf(runs[t]) : r = <<t, i>>
  BY ActiveRunsAre
<1>3. ASSUME ActiveOf(runs'[t]) = ActiveOf(runs[t])
      PROVE  ActiveRuns(Tasks)' = ActiveRuns(Tasks)
  BY <1>1, <1>2, <1>3
<1>4. ASSUME ActiveOf(runs'[t]) = ActiveOf(runs[t]) \ {n}
      PROVE  ActiveRuns(Tasks)' = ActiveRuns(Tasks) \ {<<t, n>>}
  <2>1. \A r : r \in ActiveRuns(Tasks)' <=> r \in ActiveRuns(Tasks) \ {<<t, n>>}
    BY <1>1, <1>2, <1>4
  <2> QED BY <2>1
<1>5. ASSUME ActiveOf(runs'[t]) = ActiveOf(runs[t]) \cup {n}
      PROVE  ActiveRuns(Tasks)' = ActiveRuns(Tasks) \cup {<<t, n>>}
  <2>1. \A r : r \in ActiveRuns(Tasks)' <=> r \in ActiveRuns(Tasks) \cup {<<t, n>>}
    BY <1>1, <1>2, <1>5
  <2> QED BY <2>1
<1> QED BY <1>3, <1>4, <1>5

\* How many slots a task has taken is how many rows it has.
LEMMA TakenNext ==
  ASSUME TypeOK, TypeOK', NEW t \in Tasks, Stays(t)
  PROVE  \A u \in Tasks : Len(runs'[u]) = Len(runs[u])
<1>1. runs[t] \in Seq(RunStatus) /\ runs'[t] \in Seq(RunStatus)
  BY DEF TypeOK, RunStatus
<1>2. Len(runs'[t]) = Len(runs[t])
  BY <1>1 DEF Stays
<1> QED BY <1>2 DEF Stays, OthersRest

\* RunSlots counts as this module does.
LEMMA SlotsCount ==
  ASSUME NEW S
  PROVE  Slots!Cardinality(S) = Cardinality(S)
  BY DEF Slots!Cardinality, Cardinality

\* A claim of the admission is a slot taken (resolve_snapshot_activity).
LEMMA ClaimTakes ==
  ASSUME HeldInv, NEW t \in Tasks, Claims(t)
  PROVE  Slots!Take(t)
<1> DEFINE Taken == [u \in Tasks |-> Len(runs[u])]
           Over == {u \in Tasks : state[u] \in Terminal}
<1>1. OthersRest(t) /\ ClaimSlot(t) /\ ~Blocked(t)
  BY DEF Claims, ClaimSlot
<1>2. /\ Len(runs'[t]) = Len(runs[t]) + 1 /\ Len(runs[t]) \in Nat
      /\ ActiveOf(runs[t]) = 1..Len(runs[t])
      /\ ActiveOf(runs'[t]) = ActiveOf(runs[t]) \cup {Len(runs[t]) + 1}
      /\ state[t] \notin Terminal /\ state'[t] \notin Terminal
  BY <1>1, ClaimedRow
<1>3. t \notin Over
  BY <1>2
<1>4. After[t] \in Tasks => After[t] \in Over
  <2>1. ASSUME After[t] \in Tasks PROVE state[After[t]] \in Terminal
    <3>1. After[t] # None
      BY <2>1 DEF Tasks, None
    <3>2. state[After[t]] \notin ActiveState
      BY <1>1, <3>1 DEF Blocked
    <3> QED BY <2>1, <3>2 DEF HeldInv, SlotInv, TypeOK
  <2> QED BY <2>1
<1>5. Slots!Cardinality(Slots!HeldBy(AgentOf[t])) < AgentLimit[AgentOf[t]]
  <2>1. Cardinality(ActiveRuns(OfAgent(AgentOf[t]))) \in Nat
    BY AgentRuns DEF HeldInv, SlotInv
  <2>2. AgentLimit[AgentOf[t]] \in Nat
    BY AgentTaskAssumption DEF AgentTaskAssumption
  <2>3. ~(Cardinality(ActiveRuns(OfAgent(AgentOf[t]))) >= AgentLimit[AgentOf[t]])
    BY <1>1 DEF Blocked
  <2>4. Cardinality(ActiveRuns(OfAgent(AgentOf[t]))) < AgentLimit[AgentOf[t]]
    BY <2>1, <2>2, <2>3
  <2> QED BY <2>4, HeldByIs, SlotsCount
<1>6. Slots!Cardinality(ActiveRuns(Tasks)) < WorkspaceLimit
  <2>1. Cardinality(ActiveRuns(Tasks)) \in Nat /\ WorkspaceLimit \in Nat
    BY FS_CardinalityType, AgentTaskAssumption DEF AgentTaskAssumption, HeldInv, SlotInv
  <2>2. ~(Cardinality(ActiveRuns(Tasks)) >= WorkspaceLimit)
    BY <1>1 DEF Blocked
  <2>3. Cardinality(ActiveRuns(Tasks)) < WorkspaceLimit
    BY <2>1, <2>2
  <2> QED BY <2>3, SlotsCount
<1>7. \A n \in 1..Taken[t] : <<t, n>> \in ActiveRuns(Tasks)
  BY <1>2, HeldIs
<1>8. Taken' = [Taken EXCEPT ![t] = @ + 1]
  <2>1. \A u \in Tasks : Len(runs'[u]) = IF u = t THEN Len(runs[t]) + 1 ELSE Len(runs[u])
    BY <1>1, <1>2 DEF OthersRest
  <2> QED BY <2>1 DEF Tasks
<1>9. ActiveRuns(Tasks)' = ActiveRuns(Tasks) \cup {<<t, Len(runs[t]) + 1>>}
  BY <1>1, <1>2, HeldNext
<1>10. Taken'[t] = Len(runs[t]) + 1
  BY <1>2 DEF Tasks
<1>11. Over' = Over
  BY <1>1, <1>2 DEF OthersRest, Tasks
<1> QED BY <1>3, <1>4, <1>5, <1>6, <1>7, <1>8, <1>9, <1>10, <1>11
        DEF Slots!Take, Slots!Slot, Slots!Newest

\* Every step is a step of RunSlots, or none.
LEMMA StepsOnSlots ==
  ASSUME HeldInv, [Next]_vars, HeldInv'
  PROVE  [Slots!SlotsNext]_(Slots!slotVars)
<1> DEFINE Taken == [u \in Tasks |-> Len(runs[u])]
           Over == {u \in Tasks : state[u] \in Terminal}
<1>1. CASE UNCHANGED vars
  <2>1. Taken' = Taken /\ Over' = Over /\ ActiveRuns(Tasks)' = ActiveRuns(Tasks)
    BY <1>1 DEF vars, rowVars, ActiveRuns, Tasks
  <2> QED BY <2>1 DEF Slots!slotVars
<1>2. CASE Next
  <2>1. PICK t \in Tasks : Rests(t) \/ Claims(t) \/ Lays(t) \/ Ends(t)
    BY <1>2, StepKinds
  <2>2. CASE Claims(t)
    <3>1. Slots!Take(t)
      BY <2>2, ClaimTakes
    <3> QED BY <3>1 DEF Slots!SlotsNext
  <2>3. CASE Stays(t) /\ ~Claims(t)
    <3>1. OthersRest(t) /\ (wf[t].run # None => wf[t].run = Len(runs[t]))
      BY <2>3 DEF Stays, HeldInv, NewestKnown
    <3>2. \A u \in Tasks : Len(runs'[u]) = Len(runs[u])
      BY <2>3, TakenNext DEF HeldInv, SlotInv
    <3>3. Taken' = Taken
      BY <3>2 DEF Tasks
    <3>4. SlotStays(t) => ActiveRuns(Tasks)' = ActiveRuns(Tasks)
      BY <3>1, HeldNext DEF SlotStays
    <3>5. SlotLaidDown(t) => ActiveRuns(Tasks)' = ActiveRuns(Tasks) \ {<<t, Taken[t]>>}
      BY <3>1, HeldNext DEF SlotLaidDown
    <3>6. (state'[t] \in Terminal <=> state[t] \in Terminal) => Over' = Over
      BY <3>1 DEF OthersRest, Tasks
    <3>7. state'[t] \in Terminal => Over' = Over \cup {t}
      BY <3>1 DEF OthersRest, Tasks
    <3>8. CASE Rests(t)
      BY <3>3, <3>4, <3>6, <3>8 DEF Rests, Slots!slotVars
    <3>9. CASE Lays(t)
      <4>1. Slots!LayDown(t)
        BY <3>3, <3>5, <3>6, <3>9 DEF Lays, Slots!LayDown, Slots!Newest, Slots!Slot
      <4> QED BY <4>1 DEF Slots!SlotsNext
    <3>10. CASE Ends(t)
      <4>1. Slots!End(t)
        BY <3>3, <3>4, <3>5, <3>7, <3>10 DEF Ends, Slots!End, Slots!Newest, Slots!Slot
      <4> QED BY <4>1 DEF Slots!SlotsNext
    <3> QED BY <2>1, <2>3, <3>8, <3>9, <3>10
  <2> QED BY <2>1, <2>2, <2>3 DEF Rests, Lays, Ends
<1> QED BY <1>1, <1>2

\* The tasks of every workspace share its slots as RunSlots says, for every
\* number of tasks, agents, slots and attempts: a turn that was withdrawn or is
\* over takes none, one that follows another waits for its end, a retry after a
\* lost answer takes a second slot only while it still holds the first, and a
\* run lays down the newest of its slots and takes none after that
\* (resolve_snapshot_activity, finalize_run_projection_activity, change_queued).
THEOREM SlotsAreKept == Spec => KeepsSlots
<1>1. Init => HeldInv
  <2>1. ASSUME Init PROVE NewestKnown
    BY <2>1 DEF Init, NewestKnown, ActiveOf
  <2>2. ASSUME Init PROVE TurnInv
    BY <2>2, InitTypes DEF Init, TurnInv, FinishedIsFinal, TurnsInOrder
  <2> QED BY <2>1, <2>2, InitKeeps DEF HeldInv
<1>2. HeldInv /\ [Next]_vars => HeldInv'
  BY NextKeeps, NextInOrder, NextKnown DEF HeldInv
<1>3. Init => Slots!SlotsInit
  <2> SUFFICES ASSUME Init PROVE Slots!SlotsInit
    OBVIOUS
  <2>1. \A t \in Tasks : runs[t] = <<>> /\ Len(runs[t]) = 0 /\ state[t] \notin Terminal
    BY DEF Init, Terminal
  <2>2. ActiveRuns(Tasks) = {}
    BY <2>1, ActiveRunsAre DEF ActiveOf
  <2> QED BY <2>1, <2>2 DEF Slots!SlotsInit
<1>4. HeldInv /\ [Next]_vars /\ HeldInv' => [Slots!SlotsNext]_(Slots!slotVars)
  BY StepsOnSlots
<1> QED BY <1>1, <1>2, <1>3, <1>4, PTL DEF Spec, KeepsSlots, Slots!SlotsSpec

=============================================================================
