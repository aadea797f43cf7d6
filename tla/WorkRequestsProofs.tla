------------------------- MODULE WorkRequestsProofs -------------------------
(***************************************************************************)
(* What WorkRequests promises, for any number of requests and deciders: a  *)
(* continuation is executed once, the turns of a conversation write one    *)
(* after the other, what a stop found unstarted stays unstarted, and the   *)
(* outbox implements ResultOutbox.                                         *)
(***************************************************************************)
EXTENDS WorkRequests, SequenceTheorems, WellFoundedInduction,
        FiniteSetTheorems, TLAPS

\* The predecessor of a continuation: its own turn, or the newest busy one.
Busy == {"queued", "running"}
ContAt(i) == req[line[i]].cont

\* What the outbox and the queue read of a row.
SameRow(old, new) ==
  /\ new.cont = old.cont /\ new.after = old.after
  /\ new.run = old.run /\ new.episodes = old.episodes
  /\ new.status = None => old.status = None

\* A row that a step puts in the queue.
Queued(old, new) ==
  /\ old.cont = None /\ new.cont = "queued" /\ new.after = Predecessor
  /\ new.run = old.run /\ new.episodes = old.episodes
  /\ new.status = None => old.status = None
  /\ ~Stopped

RowTypes == req \in [Requests -> Row] /\ line \in Seq(Requests)

\* A step that leaves the queue alone, and one that appends to it.
Quiet == line' = line /\ \A q \in Requests : SameRow(req[q], req'[q])
Enqueues(r) ==
  /\ line' = Append(line, r) /\ Queued(req[r], req'[r])
  /\ \A q \in Requests \ {r} : SameRow(req[q], req'[q])

\* The steps of an outbox row: cancelled, launched, begun, ended.
Only(r) ==
  /\ line' = line /\ \A q \in Requests \ {r} : SameRow(req[q], req'[q])
  /\ req'[r].status = None => req[r].status = None
Cancels(r) ==
  /\ Only(r) /\ Stopped /\ req'[r].cont = "cancelled" /\ req[r].cont # None
  /\ req'[r].after = req[r].after
  /\ req'[r].run = req[r].run /\ req'[r].episodes = req[r].episodes
Launches(r) ==
  /\ Only(r) /\ holder[r] = "checked"
  /\ req[r].run = None /\ req'[r].run = "waiting"
  /\ req'[r].episodes = req[r].episodes + 1
  /\ req'[r].cont = req[r].cont /\ req'[r].after = req[r].after
Begins(r) ==
  /\ Only(r) /\ req[r].cont = "queued" /\ Free(r) /\ req'[r].cont = "running"
  /\ req[r].run = "waiting" /\ req'[r].run = "working"
  /\ req'[r].episodes = req[r].episodes /\ req'[r].after = req[r].after
Refuses(r) ==
  /\ Only(r) /\ req[r].run = "waiting" /\ req'[r].run = "closed"
  /\ req[r].cont = "cancelled" /\ req'[r].cont = "cancelled"
  /\ req'[r].episodes = req[r].episodes /\ req'[r].after = req[r].after
Ends(r) ==
  /\ Only(r) /\ req[r].run = "working" /\ req'[r].run = "closed"
  /\ req'[r].cont = "done"
  /\ req'[r].episodes = req[r].episodes /\ req'[r].after = req[r].after

\* What nobody has asked for yet is known to nobody.
Unasked(r) ==
  /\ req[r] = NoRequest /\ holder[r] = "free"
  /\ r \notin starts /\ turn.on # r /\ wf[r] = None
  /\ \A s \in Sessions : sess[s] # Idle => sess[s].request # r
Blank == \A r \in Requests : req[r].status = None => Unasked(r)

\* One execution at most, and as many as the workflow's state says.
Episodes == \A r \in Requests : req[r].episodes = IF req[r].run = None THEN 0 ELSE 1

-----------------------------------------------------------------------------
(* Types.                                                                  *)

\* Some of the places of a queue are the last of them.
LEMMA Greatest ==
  ASSUME NEW n \in Nat, NEW T \in SUBSET (1..n), T # {}
  PROVE  \E m \in T : \A u \in T : u <= m
<1> DEFINE R == OpToRel(<, Nat)
           D == {y \in Nat : \E x \in T : y = n - x}
<1>1. IsWellFoundedOn(R, Nat)
  BY NatLessThanWellFounded
<1>2. D \subseteq Nat /\ D # {}
  <2>1. PICK x \in T : TRUE
    OBVIOUS
  <2>2. x \in 1..n /\ n - x \in Nat
    BY <2>1
  <2>3. n - x \in D
    BY <2>2
  <2> QED BY <2>3
<1>3. \A x, y \in Nat : x < y => <<x, y>> \in R
  BY DEF OpToRel
<1> HIDE DEF R
<1>4. PICK x \in D : \A y \in D : <<y, x>> \notin R
  <2> HIDE DEF D
  <2> QED BY <1>1, <1>2, WFMin
<1>5. PICK m \in T : x = n - m
  OBVIOUS
<1>6. ASSUME NEW u \in T PROVE u <= m
  <2>1. u \in 1..n /\ m \in 1..n /\ n - u \in D
    OBVIOUS
  <2>2. ~(n - u < x)
    BY <1>3, <1>4, <2>1
  <2> QED BY <1>5, <2>1, <2>2
<1> QED BY <1>6

\* A continuation waits for the newest turn that is busy, or for its own
\* (_ensure_continuation).
LEMMA PredecessorIs ==
  ASSUME TypeOK
  PROVE  \/ Predecessor = Source /\ \A i \in DOMAIN line : ContAt(i) \notin Busy
         \/ \E j \in DOMAIN line : /\ Predecessor = line[j]
                                   /\ \A k \in DOMAIN line : j < k => ContAt(k) \notin Busy
<1> DEFINE busy == {i \in DOMAIN line : req[line[i]].cont \in {"queued", "running"}}
           last == CHOOSE i \in busy : \A j \in busy : j <= i
<1>1. line \in Seq(Requests) /\ Len(line) \in Nat /\ DOMAIN line = 1..Len(line)
  BY DEF TypeOK
<1>2. Predecessor = IF busy = {} THEN Source ELSE line[last]
  BY DEF Predecessor
<1>3. CASE busy = {}
  BY <1>2, <1>3 DEF ContAt, Busy
<1>4. CASE busy # {}
  <2>1. \E m \in busy : \A u \in busy : u <= m
    <3>1. busy \in SUBSET (1..Len(line))
      BY <1>1
    <3> HIDE DEF busy
    <3> QED BY <1>1, <1>4, <3>1, Greatest
  <2>2. last \in busy /\ \A u \in busy : u <= last
    <3> HIDE DEF busy
    <3> QED BY <2>1
  <2>3. \A k \in DOMAIN line : last < k => k \notin busy
    <3> HIDE DEF busy, last
    <3>1. busy \subseteq 1..Len(line)
      BY <1>1 DEF busy
    <3> QED BY <1>1, <2>2, <3>1
  <2>4. last \in DOMAIN line
    BY <2>2
  <2>5. \A k \in DOMAIN line : last < k => ContAt(k) \notin Busy
    BY <2>3 DEF ContAt, Busy
  <2> HIDE DEF last, busy
  <2> QED BY <1>2, <1>4, <2>4, <2>5
<1> QED BY <1>3, <1>4

\* The continuation's place in the queue is a request's, or the turn's own.
LEMMA PredecessorType == TypeOK => Predecessor \in Requests \cup {Source}
<1> SUFFICES ASSUME TypeOK PROVE Predecessor \in Requests \cup {Source}
  OBVIOUS
<1>1. \A j \in DOMAIN line : line[j] \in Requests
  BY ElementOfSeq DEF TypeOK
<1> QED BY <1>1, PredecessorIs

\* ensure_work_request_continuation puts a result in the queue, or suppresses it.
LEMMA EnsuredRow ==
  ASSUME TypeOK, NEW row \in Row
  PROVE  /\ Ensured(row) \in Row
         /\ SameRow(row, Ensured(row)) \/ Queued(row, Ensured(row))
<1> DEFINE v == [row EXCEPT !.suppressed = "requester_cancelled"]
           w == [row EXCEPT !.cont = "queued", !.after = Predecessor]
<1>1. v \in Row /\ SameRow(row, v)
  BY DEF Row, SameRow
<1>2. w \in Row /\ w.cont = "queued" /\ w.after = Predecessor /\ w.run = row.run
      /\ w.episodes = row.episodes /\ w.status = row.status
  BY PredecessorType DEF Row
<1>3. Ensured(row) = IF ~Due(row) THEN row ELSE IF Stopped THEN v ELSE w
  BY DEF Ensured
<1> HIDE DEF v, w
<1>4. SameRow(row, row)
  BY DEF SameRow
<1>5. Due(row) => row.cont = None
  BY DEF Due
<1> QED BY <1>1, <1>2, <1>3, <1>4, <1>5 DEF Queued

\* finalize_work_request closes the row and does the same.
LEMMA FinalizedRow ==
  ASSUME TypeOK, NEW row \in Row
  PROVE  /\ Finalized(row) \in Row
         /\ SameRow(row, Finalized(row)) \/ Queued(row, Finalized(row))
<1> DEFINE w == [row EXCEPT !.status = "settled", !.result = TRUE]
<1>1. w \in Row /\ SameRow(row, w) /\ w.cont = row.cont
  BY DEF Row, SameRow, Statuses, None
<1>2. Finalized(row) = Ensured(w)
  BY DEF Finalized
<1> HIDE DEF w
<1> QED BY <1>1, <1>2, EnsuredRow DEF SameRow, Queued

-----------------------------------------------------------------------------
(* What each step does to the rows.                                        *)

\* A row that is replaced by one of its kind.
LEMMA ReplaceRow ==
  ASSUME TypeOK, NEW r \in Requests, NEW row \in Row,
         req' = [req EXCEPT ![r] = row]
  PROVE  /\ req' \in [Requests -> Row] /\ req'[r] = row
         /\ \A q \in Requests \ {r} : SameRow(req[q], req'[q])
BY DEF TypeOK, SameRow

\* A row stored with the queue: it was appended to if the row was put in it.
LEMMA StoreMoves ==
  ASSUME TypeOK, NEW r \in Requests, NEW row \in Row, Store(r, row),
         SameRow(req[r], row) \/ Queued(req[r], row)
  PROVE  RowTypes' /\ (Quiet \/ Enqueues(r))
<1>1. /\ req' \in [Requests -> Row] /\ req'[r] = row
      /\ \A q \in Requests \ {r} : SameRow(req[q], req'[q])
  BY ReplaceRow DEF Store
<1>2. line \in Seq(Requests)
  BY DEF TypeOK
<1>3. CASE SameRow(req[r], row)
  <2>1. line' = line
    BY <1>3 DEF Store, SameRow
  <2>2. \A q \in Requests : SameRow(req[q], req'[q])
    BY <1>1, <1>3
  <2> QED BY <1>1, <1>2, <2>1, <2>2 DEF Quiet, RowTypes
<1>4. CASE Queued(req[r], row)
  <2>1. line' = Append(line, r)
    BY <1>4 DEF Store, Queued, None
  <2>2. line' \in Seq(Requests)
    BY <1>2, <2>1, AppendProperties
  <2> QED BY <1>1, <1>4, <2>1, <2>2 DEF Enqueues, RowTypes
<1> QED BY <1>3, <1>4

\* A row that is finalized, by whoever comes to it (finalize_work_request).
LEMMA FinalizeMoves ==
  ASSUME TypeOK, NEW r \in Requests, Store(r, Finalized(req[r]))
  PROVE  RowTypes' /\ (Quiet \/ Enqueues(r))
<1>1. req[r] \in Row
  BY DEF TypeOK
<1> QED BY <1>1, FinalizedRow, StoreMoves

\* Nothing happens to the rows.
LEMMA NoMoves ==
  ASSUME TypeOK, UNCHANGED <<req, line>>
  PROVE  RowTypes' /\ Quiet
BY DEF TypeOK, RowTypes, Quiet, SameRow

\* A decision changes the status of a row and what hangs on it, not its place.
LEMMA DecisionMoves ==
  ASSUME TypeOK, NEW s \in Sessions, Accept(s) \/ Answer(s)
  PROVE  RowTypes' /\ Quiet
<1> DEFINE r == sess[s].request
<1>1. sess[s] \in Session
  <2>1. sess[s] \in {Idle} \cup Session
    BY DEF TypeOK
  <2>2. sess[s].stage = "write" /\ Idle.stage = "idle"
    BY DEF Accept, Answer, Idle
  <2> QED BY <2>1, <2>2
<1>2. r \in Requests /\ req[r] \in Row
  BY <1>1 DEF Session, TypeOK
<1>3. line' = line
  BY DEF Accept, Answer
<1> HIDE DEF r
<1>4. ASSUME NEW row \in Row, SameRow(req[r], row), req' = [req EXCEPT ![r] = row]
      PROVE  RowTypes' /\ Quiet
  BY <1>2, <1>3, <1>4, ReplaceRow DEF RowTypes, Quiet, TypeOK
<1>5. CASE Accept(s)
  <2>1. CASE req' = req
    BY <1>3, <2>1, NoMoves
  <2>2. CASE req[r].made < MaxTasks /\ req' = [req EXCEPT ![r] = Accepted(@)]
    <3>1. Accepted(req[r]) \in Row /\ SameRow(req[r], Accepted(req[r]))
      <4>1. req[r].made + 1 \in 0..MaxTasks
        BY <1>2, <2>2, WorkRequestAssumption DEF Row
      <4>2. ASSUME NEW n \in 0..MaxTasks
            PROVE  LET w == [req[r] EXCEPT !.status = "accepted", !.made = n]
                   IN  w \in Row /\ SameRow(req[r], w)
        BY <1>2 DEF Row, SameRow, Statuses, None
      <4> QED BY <4>1, <4>2 DEF Accepted
    <3> QED BY <1>4, <2>2, <3>1
  <2>3. CASE req' = [req EXCEPT ![r] = Failed(@)]
    <3>1. Failed(req[r]) \in Row /\ SameRow(req[r], Failed(req[r]))
      BY <1>2 DEF Failed, Row, SameRow, Statuses, None
    <3> QED BY <1>4, <2>3, <3>1
  <2> QED BY <1>5, <2>1, <2>2, <2>3 DEF Accept, r
<1>6. CASE Answer(s)
  <2>1. CASE req' = req
    BY <1>3, <2>1, NoMoves
  <2>2. CASE \E new \in {"declined", "clarification_requested"} : req' = [req EXCEPT ![r].status = new]
    <3>1. PICK new \in {"declined", "clarification_requested"} : req' = [req EXCEPT ![r].status = new]
      BY <2>2
    <3> DEFINE w == [req[r] EXCEPT !.status = new]
    <3>2. w \in Row /\ SameRow(req[r], w)
      BY <1>2 DEF Row, SameRow, Statuses, Undecided, None
    <3>3. req' = [req EXCEPT ![r] = w]
      BY <3>1
    <3> HIDE DEF w
    <3> QED BY <1>4, <3>2, <3>3
  <2> QED BY <1>6, <2>1, <2>2 DEF Answer, r
<1> QED BY <1>5, <1>6

\* A new row is one that nothing was made of (_request_work, create_work_request).
LEMMA AskMoves ==
  ASSUME TypeOK, Blank, NEW r \in Requests, AskNew(r) \/ OpenByPerson(r)
  PROVE  RowTypes' /\ Quiet
<1> DEFINE new == [NoRequest EXCEPT !.status = "pending", !.byTurn = TRUE]
           asked == [NoRequest EXCEPT !.status = "pending"]
<1>1. req[r] = NoRequest /\ line' = line /\ NoRequest \in Row
  BY DEF AskNew, OpenByPerson, Blank, Unasked, TypeOK
<1>2. ASSUME NEW row \in Row, SameRow(NoRequest, row), req' = [req EXCEPT ![r] = row]
      PROVE  RowTypes' /\ Quiet
  BY <1>1, <1>2, ReplaceRow DEF RowTypes, Quiet, TypeOK
<1>3. /\ new \in Row /\ SameRow(NoRequest, new) /\ new.made = 0
      /\ asked \in Row /\ SameRow(NoRequest, asked)
  BY <1>1 DEF NoRequest, Row, SameRow, Statuses, Undecided
<1> HIDE DEF new, asked
<1>4. CASE OpenByPerson(r)
  BY <1>2, <1>3, <1>4 DEF OpenByPerson, asked
<1>5. CASE AskNew(r)
  <2>1. Accepted(new) \in Row /\ SameRow(NoRequest, Accepted(new))
    <3>1. new.made + 1 \in 0..MaxTasks
      BY <1>3, WorkRequestAssumption
    <3>2. ASSUME NEW n \in 0..MaxTasks
          PROVE  LET w == [new EXCEPT !.status = "accepted", !.made = n]
                 IN  w \in Row /\ SameRow(NoRequest, w)
      BY <1>3 DEF Row, SameRow, Statuses, None
    <3> QED BY <3>1, <3>2 DEF Accepted
  <2>2. Failed(new) \in Row /\ SameRow(NoRequest, Failed(new))
    BY <1>3 DEF Failed, Row, SameRow, Statuses, None
  <2>3. req' = [req EXCEPT ![r] = Accepted(new)] \/ req' = [req EXCEPT ![r] = Failed(new)]
    BY <1>5 DEF AskNew, new
  <2> QED BY <1>2, <2>1, <2>2, <2>3
<1> QED BY <1>4, <1>5

\* The requester's turn arms a request, or closes it for a workflow that never was.
LEMMA TurnMoves ==
  ASSUME TypeOK, TurnStep \/ TurnFails \/ StartChildFails \/ StopTurn
  PROVE  RowTypes' /\ (Quiet \/ \E r \in Requests : Enqueues(r))
<1> DEFINE r == turn.on
<1>1. CASE Arm
  <2>1. r \in Requests /\ req[r] \in Row
    BY <1>1 DEF TypeOK, Arm
  <2> DEFINE w == [req[r] EXCEPT !.armed = TRUE]
  <2>2. w \in Row /\ SameRow(req[r], w)
    BY <2>1 DEF Row, SameRow
  <2>3. Store(r, Ensured(w))
    BY <1>1 DEF Arm
  <2> HIDE DEF w, r
  <2>4. Ensured(w) \in Row /\ (SameRow(req[r], Ensured(w)) \/ Queued(req[r], Ensured(w)))
    BY <2>2, EnsuredRow DEF SameRow, Queued
  <2> QED BY <2>1, <2>3, <2>4, StoreMoves
<1>2. CASE Repair
  <2>1. r \in Requests
    BY <1>2 DEF TypeOK, Repair
  <2>2. Store(r, Finalized(req[r])) \/ UNCHANGED <<req, line>>
    BY <1>2 DEF Repair, outboxVars
  <2> QED BY <2>1, <2>2, FinalizeMoves, NoMoves
<1>3. CASE StepReturns \/ StartChild \/ CloseTurn \/ TurnFails \/ StartChildFails \/ StopTurn
  <2>1. UNCHANGED <<req, line>>
    BY <1>3 DEF StepReturns, StartChild, CloseTurn, TurnFails, StartChildFails, StopTurn,
       outboxVars
  <2> QED BY <2>1, NoMoves
<1> QED BY <1>1, <1>2, <1>3 DEF TurnStep

\* The workflow of a request ends, or could not be started.
LEMMA WorkMoves ==
  ASSUME TypeOK,
         \/ \E s \in Sessions : StartByDecider(s) \/ StartByDeciderFails(s)
         \/ \E r \in Requests : Finalize(r) \/ FinalizeFails(r)
  PROVE  RowTypes' /\ (Quiet \/ \E r \in Requests : Enqueues(r))
<1>1. ASSUME NEW s \in Sessions, StartByDecider(s) \/ StartByDeciderFails(s)
      PROVE  RowTypes' /\ (Quiet \/ \E r \in Requests : Enqueues(r))
  <2>1. sess[s] \in Session
    <3>1. sess[s] \in {Idle} \cup Session
      BY DEF TypeOK
    <3>2. sess[s].stage = "start" /\ Idle.stage = "idle"
      BY <1>1 DEF StartByDecider, StartByDeciderFails, Idle
    <3> QED BY <3>1, <3>2
  <2>2. sess[s].request \in Requests
    BY <2>1 DEF Session
  <2>3. Store(sess[s].request, Finalized(req[sess[s].request])) \/ UNCHANGED <<req, line>>
    BY <1>1 DEF StartByDecider, StartByDeciderFails, outboxVars
  <2> QED BY <2>2, <2>3, FinalizeMoves, NoMoves
<1>2. ASSUME NEW r \in Requests, Finalize(r) \/ FinalizeFails(r)
      PROVE  RowTypes' /\ (Quiet \/ \E q \in Requests : Enqueues(q))
  <2>1. Store(r, Finalized(req[r])) \/ UNCHANGED <<req, line>>
    BY <1>2 DEF Finalize, FinalizeFails, outboxVars
  <2> QED BY <2>1, FinalizeMoves, NoMoves
<1> QED BY <1>1, <1>2

\* The outbox and the workflows of the continuations.
LEMMA OutboxMoves ==
  ASSUME TypeOK, Episodes, NEW r \in Requests,
         \/ Check(r) \/ StartContinuation(r) \/ Acknowledge(r) \/ DispatchFails(r)
         \/ BeginContinuation(r) \/ EndContinuation(r)
  PROVE  RowTypes' /\ (Quiet \/ Cancels(r) \/ Launches(r) \/ Begins(r) \/ Refuses(r) \/ Ends(r))
<1>1. req[r] \in Row /\ line' = line /\ line \in Seq(Requests)
  BY DEF TypeOK, Check, StartContinuation, Acknowledge, DispatchFails, BeginContinuation,
     EndContinuation
<1>2. ASSUME NEW row \in Row, req' = [req EXCEPT ![r] = row]
      PROVE  RowTypes' /\ req'[r] = row /\ \A q \in Requests \ {r} : SameRow(req[q], req'[q])
  BY <1>1, <1>2, ReplaceRow DEF RowTypes
<1>3. CASE UNCHANGED req
  BY <1>1, <1>3, NoMoves
<1>4. ASSUME Check(r), ~UNCHANGED req PROVE RowTypes' /\ Cancels(r)
  <2> DEFINE w == [req[r] EXCEPT !.suppressed = "cancelled_before_dispatch", !.cont = "cancelled"]
  <2>1. /\ w \in Row /\ w.cont = "cancelled" /\ w.after = req[r].after
        /\ w.run = req[r].run /\ w.episodes = req[r].episodes /\ w.status = req[r].status
    BY <1>1 DEF Row
  <2>2. req' = [req EXCEPT ![r] = w]
    BY <1>1, <1>4 DEF Check, TypeOK
  <2>3. Stopped /\ req[r].cont # None
    BY <1>4 DEF Check, Outbox
  <2> HIDE DEF w
  <2> QED BY <1>1, <1>2, <2>1, <2>2, <2>3 DEF Cancels, Only
<1>5. CASE StartContinuation(r)
  <2> DEFINE w == [req[r] EXCEPT !.run = "waiting", !.episodes = 1]
  <2>1. w \in Row /\ w.run = "waiting" /\ w.episodes = 1 /\ w.status = req[r].status
        /\ w.cont = req[r].cont /\ w.after = req[r].after
    <3>1. ASSUME NEW n \in 0..2
          PROVE  LET m == [req[r] EXCEPT !.run = "waiting", !.episodes = n]
                 IN  /\ m \in Row /\ m.run = "waiting" /\ m.episodes = n
                     /\ m.status = req[r].status /\ m.cont = req[r].cont
                     /\ m.after = req[r].after
      BY <1>1 DEF Row
    <3> QED BY <3>1
  <2>2. CASE req[r].run = None
    <3>1. req[r].episodes = 0
      BY <2>2 DEF Episodes
    <3>2. Launched(req[r]) = w
      BY <2>2, <3>1 DEF Launched
    <3>3. req' = [req EXCEPT ![r] = w]
      BY <1>5, <3>2 DEF StartContinuation
    <3> HIDE DEF w
    <3>4. RowTypes' /\ req'[r] = w /\ Only(r)
      BY <1>1, <1>2, <2>1, <3>3 DEF Only
    <3> QED BY <1>5, <2>1, <2>2, <3>1, <3>4 DEF Launches, StartContinuation
  <2>3. CASE req[r].run # None
    <3>1. req' = req
      <4>1. Launched(req[r]) = req[r]
        BY <2>3 DEF Launched
      <4>2. req' = [req EXCEPT ![r] = req[r]]
        BY <1>5, <4>1 DEF StartContinuation
      <4> QED BY <4>2 DEF TypeOK
    <3> QED BY <1>3, <3>1
  <2> QED BY <2>2, <2>3
<1>6. CASE Acknowledge(r)
  <2> DEFINE w == [req[r] EXCEPT !.dispatched = TRUE]
  <2>1. w \in Row /\ SameRow(req[r], w)
    BY <1>1 DEF Row, SameRow
  <2>2. req' = [req EXCEPT ![r] = w]
    BY <1>6 DEF Acknowledge
  <2> HIDE DEF w
  <2>3. \A q \in Requests : SameRow(req[q], req'[q])
    BY <1>2, <2>1, <2>2
  <2> QED BY <1>1, <1>2, <2>1, <2>2, <2>3 DEF Quiet
<1>7. CASE BeginContinuation(r)
  <2> DEFINE w == [req[r] EXCEPT !.run = "working", !.cont = "running"]
             v == [req[r] EXCEPT !.run = "closed"]
  <2>1. /\ w \in Row /\ w.run = "working" /\ w.cont = "running" /\ w.status = req[r].status
        /\ w.after = req[r].after /\ w.episodes = req[r].episodes
        /\ v \in Row /\ v.run = "closed" /\ v.cont = req[r].cont /\ v.status = req[r].status
        /\ v.after = req[r].after /\ v.episodes = req[r].episodes
    BY <1>1 DEF Row
  <2>2. req[r].run = "waiting"
    BY <1>7 DEF BeginContinuation
  <2>3. CASE req[r].cont = "queued" /\ Free(r) /\ req' = [req EXCEPT ![r] = w]
    <3> HIDE DEF w
    <3> QED BY <1>1, <1>2, <2>1, <2>2, <2>3 DEF Begins, Only
  <2>4. CASE req[r].cont = "cancelled" /\ req' = [req EXCEPT ![r] = v]
    <3> HIDE DEF v
    <3> QED BY <1>1, <1>2, <2>1, <2>2, <2>4 DEF Refuses, Only
  <2> QED BY <1>1, <1>7, <2>3, <2>4 DEF BeginContinuation, TypeOK
<1>8. CASE EndContinuation(r)
  <2> DEFINE w == [req[r] EXCEPT !.run = "closed", !.cont = "done"]
  <2>1. /\ w \in Row /\ w.run = "closed" /\ w.cont = "done" /\ w.status = req[r].status
        /\ w.after = req[r].after /\ w.episodes = req[r].episodes
    BY <1>1 DEF Row
  <2>2. req' = [req EXCEPT ![r] = w] /\ req[r].run = "working"
    BY <1>1, <1>8 DEF EndContinuation, TypeOK
  <2> HIDE DEF w
  <2> QED BY <1>1, <1>2, <2>1, <2>2 DEF Ends, Only
<1> QED BY <1>3, <1>4, <1>5, <1>6, <1>7, <1>8 DEF DispatchFails

\* Every step, in the few ways it can move the rows.
LEMMA NextMoves ==
  ASSUME TypeOK, Blank, Episodes, [Next]_vars
  PROVE  /\ RowTypes'
         /\ \/ Quiet
            \/ \E r \in Requests : \/ Enqueues(r) \/ Cancels(r) \/ Launches(r)
                                   \/ Begins(r) \/ Refuses(r) \/ Ends(r)
<1>1. ASSUME NEW s \in Sessions, Decide(s) PROVE RowTypes' /\ Quiet
  <2>1. CASE \E r \in Requests, op \in Ops : Read(s, r, op)
    BY <2>1, NoMoves DEF Read, outboxVars
  <2> QED BY <1>1, <2>1, DecisionMoves DEF Decide
<1>2. CASE UNCHANGED vars
  BY <1>2, NoMoves DEF vars, outboxVars
<1> QED BY <1>1, <1>2, AskMoves, TurnMoves, WorkMoves, OutboxMoves DEF Next

-----------------------------------------------------------------------------
(* The types of the rest.                                                  *)

Turns == [at : {"asking", "arm", "start", "repair", "closing", "closed"},
          on : Requests \cup {None}]
TurnTypes ==
  /\ turn \in Turns
  /\ turn.on # None <=> turn.at \in {"arm", "start", "repair"}
  /\ starts \subseteq Requests
SourceTypes == src \in [state : {"running", "ended", "cancelled"}, stop : BOOLEAN]
WorkTypes ==
  /\ holder \in [Requests -> {"free", "checked", "started"}]
  /\ wf \in [Requests -> {None, "open", "closed"}]
SessionTypes == sess \in [Sessions -> {Idle} \cup Session]

\* TypeOK in parts.
LEMMA TypeParts == TypeOK <=> /\ RowTypes /\ TurnTypes /\ SourceTypes
                              /\ WorkTypes /\ SessionTypes
BY DEF TypeOK, RowTypes, TurnTypes, Turns, SourceTypes, WorkTypes, SessionTypes

\* The requester's stop and its end.
LEMMA SourceMoves ==
  ASSUME TypeOK, [Next]_vars
  PROVE  /\ SourceTypes'
         /\ src.stop => src'.stop
         /\ src'.state = "running" => src.state = "running"
         /\ src'.state = "cancelled" => src.state = "cancelled" \/ src.stop
<1>0. src \in [state : {"running", "ended", "cancelled"}, stop : BOOLEAN]
  BY DEF TypeOK
<1>1. CASE UNCHANGED src
  BY <1>0, <1>1 DEF SourceTypes
<1>2. CASE StopTurn
  BY <1>0, <1>2 DEF StopTurn, SourceTypes
<1>3. CASE CloseTurn
  BY <1>0, <1>3 DEF CloseTurn, SourceTypes
<1>4. ~UNCHANGED src => StopTurn \/ CloseTurn
  BY DEF Next, Decide, Read, Accept, Lift, Drop, Answer, AskNew, OpenByPerson,
     TurnStep, StepReturns, TurnFails, Arm, StartChild, StartChildFails, Repair,
     StartByDecider, StartByDeciderFails, Finalize, FinalizeFails, Check,
     StartContinuation, Acknowledge, DispatchFails, BeginContinuation, EndContinuation,
     vars, turnVars
<1> QED BY <1>1, <1>2, <1>3, <1>4

\* A turn goes on with what it still has to start.
LEMMA OnwardTypes ==
  ASSUME TypeOK, NEW rest \in SUBSET Requests, Onward(rest)
  PROVE  TurnTypes'
<1>0. turn \in Turns /\ turn.on \in Requests \cup {None}
  BY DEF TypeOK, Turns
<1>1. CASE rest = {}
  BY <1>0, <1>1 DEF Onward, TurnTypes, Turns
<1>2. CASE rest # {}
  <2>1. PICK r \in rest : turn' = [turn EXCEPT !.at = "arm", !.on = r]
    BY <1>2 DEF Onward
  <2>2. r # None /\ r \in Requests
    BY NoneAssumption
  <2> QED BY <1>0, <2>1, <2>2 DEF Onward, TurnTypes, Turns
<1> QED BY <1>1, <1>2

\* The turn's own steps, and what deciders add to it.
LEMMA TurnTypesStep ==
  ASSUME TypeOK, [Next]_vars
  PROVE  TurnTypes'
<1>0. /\ turn \in Turns /\ starts \in SUBSET Requests
      /\ turn.on # None <=> turn.at \in {"arm", "start", "repair"}
  BY DEF TypeOK, Turns
<1>1. CASE UNCHANGED <<turn, starts>>
  BY <1>0, <1>1 DEF TurnTypes
<1>2. CASE turn' = turn /\ \E r \in Requests : starts' = starts \cup {r}
  BY <1>0, <1>2 DEF TurnTypes
<1>3. CASE \E rest \in SUBSET Requests : Onward(rest)
  BY <1>3, OnwardTypes
<1>4. CASE turn' = [at |-> "closing", on |-> None] /\ starts' = {}
  BY <1>4 DEF TurnTypes, Turns
<1>5. ASSUME NEW at \in {"start", "repair", "closed"}, turn' = [turn EXCEPT !.at = at],
             turn.on # None <=> at # "closed", starts' = starts
      PROVE  TurnTypes'
  BY <1>0, <1>5 DEF TurnTypes, Turns
<1>6. CASE TurnStep
  <2>1. starts \ {turn.on} \in SUBSET Requests
    BY <1>0
  <2>2. CASE Arm
    BY <1>0, <1>5, <2>2 DEF Arm
  <2>3. CASE CloseTurn
    BY <1>0, <1>5, <2>3 DEF CloseTurn
  <2> QED BY <1>0, <1>3, <1>6, <2>1, <2>2, <2>3 DEF TurnStep, StepReturns, StartChild, Repair
<1>7. CASE StartChildFails
  BY <1>0, <1>5, <1>7 DEF StartChildFails
<1>8. ASSUME NEW s \in Sessions, Decide(s) \/ StartByDecider(s) \/ StartByDeciderFails(s)
      PROVE  TurnTypes'
  <2>1. CASE Accept(s)
    <3>1. sess[s] \in {Idle} \cup Session
      BY DEF TypeOK
    <3>2. sess[s].stage = "write" /\ Idle.stage = "idle"
      BY <2>1 DEF Accept, Idle
    <3>3. sess[s].request \in Requests
      BY <3>1, <3>2 DEF Session
    <3>4. turn' = turn /\ (starts' = starts \/ starts' = starts \cup {sess[s].request})
      BY <2>1 DEF Accept, Lift, Drop
    <3> QED BY <1>1, <1>2, <3>3, <3>4
  <2>2. ~Accept(s) => UNCHANGED <<turn, starts>>
    BY <1>8 DEF Decide, Read, Answer, Drop, StartByDecider, StartByDeciderFails, turnVars
  <2> QED BY <1>1, <2>1, <2>2
<1>9. CASE TurnFails
  BY <1>4, <1>9 DEF TurnFails
<1>10. ASSUME NEW r \in Requests, AskNew(r) PROVE TurnTypes'
  BY <1>1, <1>2, <1>10 DEF AskNew
<1>11. ~UNCHANGED <<turn, starts>> =>
         \/ TurnStep \/ StartChildFails \/ TurnFails
         \/ \E s \in Sessions : Decide(s) \/ StartByDecider(s) \/ StartByDeciderFails(s)
         \/ \E r \in Requests : AskNew(r)
  BY DEF Next, OpenByPerson, StopTurn, Finalize, FinalizeFails, Check,
     StartContinuation, Acknowledge, DispatchFails, BeginContinuation, EndContinuation,
     vars, turnVars
<1> QED BY <1>1, <1>6, <1>7, <1>8, <1>9, <1>10, <1>11

\* The locks of dispatchers and the workflows of requests.
LEMMA WorkTypesStep ==
  ASSUME TypeOK, [Next]_vars
  PROVE  WorkTypes'
<1>0. WorkTypes
  BY TypeParts
<1>1. /\ turn.on \in Requests \cup {None}
      /\ \A s \in Sessions : sess[s].stage = "start" => sess[s].request \in Requests
  BY DEF TypeOK, Idle, Session
<1>2. holder' = holder \/ \E r \in Requests, stage \in {"free", "checked", "started"} :
                             holder' = [holder EXCEPT ![r] = stage]
  BY DEF Next, Decide, Read, Accept, Answer, AskNew, OpenByPerson, Store,
     TurnStep, StepReturns, TurnFails, Arm, StartChild, StartChildFails, Repair, CloseTurn, StopTurn,
     StartByDecider, StartByDeciderFails, Finalize, FinalizeFails, Check, Hold,
     StartContinuation, Acknowledge, DispatchFails, BeginContinuation, EndContinuation,
     vars, turnVars, outboxVars
<1>3. wf' = wf \/ \E r, state : wf' = [wf EXCEPT ![r] = state] /\ state \in {"open", "closed"}
  BY DEF Next, Decide, Read, Accept, Answer, AskNew, OpenByPerson, Child,
     TurnStep, StepReturns, TurnFails, Arm, StartChild, StartChildFails, Repair, CloseTurn, StopTurn,
     StartByDecider, StartByDeciderFails, Finalize, FinalizeFails, Check,
     StartContinuation, Acknowledge, DispatchFails, BeginContinuation, EndContinuation,
     vars, turnVars, outboxVars
<1> QED BY <1>0, <1>2, <1>3 DEF WorkTypes

\* The sessions of deciders.
LEMMA SessionTypesStep ==
  ASSUME TypeOK, [Next]_vars
  PROVE  SessionTypes'
<1>0. SessionTypes
  BY TypeParts
<1>1. ASSUME NEW s \in Sessions, NEW new \in {Idle} \cup Session, sess' = [sess EXCEPT ![s] = new]
      PROVE  SessionTypes'
  BY <1>0, <1>1 DEF SessionTypes
<1>2. ASSUME NEW s \in Sessions, NEW r \in Requests, NEW op \in Ops, Read(s, r, op)
      PROVE  SessionTypes'
  <2> DEFINE new == [stage |-> "write", request |-> r, op |-> op, saw |-> req[r].status]
  <2>1. req[r].status \in Statuses /\ op \in PossibleOps
    BY WorkRequestAssumption DEF TypeOK, Row
  <2>2. new \in Session /\ sess' = [sess EXCEPT ![s] = new]
    BY <1>2, <2>1 DEF Read, Session
  <2> HIDE DEF new
  <2> QED BY <1>1, <2>2
<1>3. ASSUME NEW s \in Sessions, Accept(s) \/ Answer(s) \/ StartByDecider(s) \/ StartByDeciderFails(s)
      PROVE  SessionTypes'
  <2>1. CASE sess' = [sess EXCEPT ![s] = Idle]
    BY <1>1, <2>1
  <2>2. CASE sess' = [sess EXCEPT ![s].stage = "start"] /\ sess[s].stage = "write"
    <3>1. sess[s] \in {Idle} \cup Session /\ Idle.stage = "idle"
      BY DEF TypeOK, Idle
    <3>2. sess[s] \in Session
      BY <2>2, <3>1
    <3> DEFINE new == [sess[s] EXCEPT !.stage = "start"]
    <3>3. new \in Session /\ sess' = [sess EXCEPT ![s] = new]
      BY <2>2, <3>2 DEF Session
    <3> HIDE DEF new
    <3> QED BY <1>1, <3>3
  <2> QED BY <1>3, <2>1, <2>2 DEF Accept, Answer, Lift, Drop, StartByDecider, StartByDeciderFails
<1>4. CASE sess' = sess
  BY <1>0, <1>4 DEF SessionTypes
<1>5. sess' # sess => \E s \in Sessions : Decide(s) \/ StartByDecider(s) \/ StartByDeciderFails(s)
  BY DEF Next, AskNew, OpenByPerson,
     TurnStep, StepReturns, TurnFails, Arm, StartChild, StartChildFails, Repair, CloseTurn, StopTurn,
     Finalize, FinalizeFails, Check,
     StartContinuation, Acknowledge, DispatchFails, BeginContinuation, EndContinuation, vars
<1> QED BY <1>2, <1>3, <1>4, <1>5 DEF Decide

-----------------------------------------------------------------------------
(* Invariants.                                                             *)

Inv == TypeOK /\ Blank /\ Episodes

\* Types are kept.
LEMMA TypesStep == Inv /\ [Next]_vars => TypeOK'
<1> SUFFICES ASSUME Inv, [Next]_vars PROVE TypeOK'
  OBVIOUS
<1>1. RowTypes' /\ TurnTypes' /\ SourceTypes' /\ WorkTypes' /\ SessionTypes'
  BY NextMoves, TurnTypesStep, SourceMoves, WorkTypesStep, SessionTypesStep DEF Inv
<1> QED BY <1>1 DEF TypeOK, RowTypes, TurnTypes, Turns, SourceTypes, WorkTypes, SessionTypes

\* The status of a row says that it was asked for, from then on.
LEMMA AskedStays ==
  ASSUME Inv, [Next]_vars, NEW r \in Requests, req'[r].status = None
  PROVE  req[r].status = None
BY NextMoves DEF Inv, Quiet, Enqueues, Queued, Only, Cancels, Launches, Begins, Refuses,
   Ends, SameRow

\* Whoever asks gives the row a status.
LEMMA AskedHasStatus ==
  ASSUME Inv, NEW r \in Requests, AskNew(r) \/ OpenByPerson(r)
  PROVE  req'[r].status # None
<1> DEFINE new == [NoRequest EXCEPT !.status = "pending", !.byTurn = TRUE]
           asked == [NoRequest EXCEPT !.status = "pending"]
<1>1. req \in [Requests -> Row]
  BY DEF Inv, TypeOK
<1>2. Accepted(new).status = "accepted" /\ Failed(new).status = "settled" /\ asked.status = "pending"
  BY DEF Accepted, Failed, NoRequest
<1>3. \/ req' = [req EXCEPT ![r] = Accepted(new)] \/ req' = [req EXCEPT ![r] = Failed(new)]
      \/ req' = [req EXCEPT ![r] = asked]
  BY DEF AskNew, OpenByPerson
<1> HIDE DEF new, asked
<1> QED BY <1>1, <1>2, <1>3 DEF None

\* A request that nobody asked for stays as it is until somebody does.
LEMMA BlankStep == Inv /\ [Next]_vars => Blank'
<1> SUFFICES ASSUME Inv, [Next]_vars, NEW r \in Requests, req'[r].status = None
             PROVE  Unasked(r)'
  BY DEF Blank
<1>0. req \in [Requests -> Row] /\ holder \in [Requests -> {"free", "checked", "started"}]
      /\ wf \in [Requests -> {None, "open", "closed"}] /\ sess \in [Sessions -> {Idle} \cup Session]
      /\ turn \in Turns
  BY DEF Inv, TypeOK, Turns
<1>1. req[r].status = None /\ Unasked(r)
  BY AskedStays DEF Inv, Blank
<1>2. req[r].cont = None /\ req[r].run = None
  BY <1>1 DEF Unasked, NoRequest
<1>3. \A s \in Sessions : sess[s].stage \in {"write", "start"} => sess[s] # Idle
  BY DEF Idle
<1>4. ~(AskNew(r) \/ OpenByPerson(r))
  BY AskedHasStatus
<1>5. ~(\/ Finalize(r) \/ FinalizeFails(r) \/ Check(r) \/ StartContinuation(r) \/ Acknowledge(r)
        \/ DispatchFails(r) \/ BeginContinuation(r) \/ EndContinuation(r))
  BY <1>1, <1>2 DEF Unasked, Finalize, FinalizeFails, Check, Outbox, StartContinuation,
     Acknowledge, DispatchFails, BeginContinuation, EndContinuation, None
<1>6. ASSUME NEW s \in Sessions, Decide(s) \/ StartByDecider(s) \/ StartByDeciderFails(s)
      PROVE  Unasked(r)'
  <2>1. CASE \E q \in Requests, op \in Ops : Read(s, q, op)
    <3>1. PICK q \in Requests, op \in Ops : Read(s, q, op)
      BY <2>1
    <3>2. q # r
      BY <1>1, <3>1 DEF Read
    <3> QED BY <1>0, <1>1, <3>1, <3>2 DEF Read, Unasked, outboxVars, turnVars
  <2>2. CASE Accept(s) \/ Answer(s) \/ StartByDecider(s) \/ StartByDeciderFails(s)
    <3> DEFINE q == sess[s].request
    <3>1. sess[s] # Idle
      BY <1>3, <2>2 DEF Accept, Answer, StartByDecider, StartByDeciderFails
    <3>2. q # r
      BY <1>1, <3>1 DEF Unasked
    <3>3. req'[r] = req[r] /\ holder' = holder
      BY <1>0, <2>2, <3>2
      DEF Accept, Answer, StartByDecider, StartByDeciderFails, Store, outboxVars
    <3>4. wf'[r] = wf[r] /\ turn' = turn /\ starts' \subseteq starts \cup {q}
      BY <1>0, <2>2, <3>2
      DEF Accept, Answer, Lift, Drop, StartByDecider, StartByDeciderFails, Child, turnVars
    <3>5. \/ sess' = [sess EXCEPT ![s] = Idle]
          \/ sess' = [sess EXCEPT ![s].stage = "start"]
      BY <2>2 DEF Accept, Answer, Lift, Drop, StartByDecider, StartByDeciderFails
    <3>6. ASSUME NEW p \in Sessions, sess'[p] # Idle PROVE sess'[p].request # r
      <4>1. CASE p # s
        BY <1>0, <1>1, <3>5, <3>6, <4>1 DEF Unasked
      <4>2. CASE p = s
        <5>1. sess[s] \in Session
          BY <1>0, <3>1
        <5>2. sess'[s] = [sess[s] EXCEPT !.stage = "start"]
          BY <1>0, <3>5, <3>6, <4>2
        <5> QED BY <3>2, <4>2, <5>1, <5>2 DEF Session
      <4> QED BY <4>1, <4>2
    <3> HIDE DEF q
    <3> QED BY <1>1, <3>2, <3>3, <3>4, <3>6 DEF Unasked
  <2> QED BY <1>6, <2>1, <2>2 DEF Decide
<1>7. CASE TurnStep \/ TurnFails \/ StartChildFails \/ StopTurn
  <2>1. turn.on # r
    BY <1>1 DEF Unasked
  <2>2. req'[r] = req[r] /\ UNCHANGED <<holder, sess>>
    BY <1>0, <1>7, <2>1
    DEF TurnStep, TurnFails, StartChildFails, StopTurn, StepReturns, Arm, StartChild, Repair,
        CloseTurn, Store, outboxVars
  <2>3. wf'[r] = wf[r]
    BY <1>0, <1>7, <2>1
    DEF TurnStep, TurnFails, StartChildFails, StopTurn, StepReturns, Arm, StartChild, Repair,
        CloseTurn, Child
  <2>4. starts' \subseteq starts
    BY <1>7
    DEF TurnStep, TurnFails, StartChildFails, StopTurn, StepReturns, Arm, StartChild, Repair,
        CloseTurn, Onward
  <2>5. turn'.on \in {turn.on, None} \cup starts
    <3>1. ASSUME NEW rest \in SUBSET starts, Onward(rest) PROVE turn'.on \in {None} \cup starts
      BY <1>0, <3>1 DEF Onward, Turns
    <3>2. CASE StepReturns \/ StartChild \/ Repair
      BY <3>1, <3>2 DEF StepReturns, StartChild, Repair
    <3>3. CASE TurnFails
      BY <3>3 DEF TurnFails
    <3>4. CASE Arm \/ CloseTurn \/ StartChildFails \/ StopTurn
      BY <1>0, <3>4 DEF Arm, CloseTurn, StartChildFails, StopTurn, Turns
    <3> QED BY <1>7, <3>2, <3>3, <3>4 DEF TurnStep
  <2>6. None # r
    BY NoneAssumption
  <2> QED BY <1>1, <2>2, <2>3, <2>4, <2>5, <2>6 DEF Unasked
<1>8. ASSUME NEW q \in Requests, q # r,
             \/ AskNew(q) \/ OpenByPerson(q)
             \/ Finalize(q) \/ FinalizeFails(q) \/ Check(q) \/ StartContinuation(q) \/ Acknowledge(q)
             \/ DispatchFails(q) \/ BeginContinuation(q) \/ EndContinuation(q)
      PROVE  Unasked(r)'
  <2>1. req'[r] = req[r] /\ holder'[r] = holder[r] /\ wf'[r] = wf[r]
    BY <1>0, <1>8
    DEF AskNew, OpenByPerson, Finalize, FinalizeFails, Check, StartContinuation, Acknowledge,
        DispatchFails, BeginContinuation, EndContinuation, Store, Hold, outboxVars
  <2>2. UNCHANGED <<sess, turn>> /\ (starts' = starts \/ starts' = starts \cup {q})
    BY <1>8
    DEF AskNew, OpenByPerson, Finalize, FinalizeFails, Check, StartContinuation, Acknowledge,
        DispatchFails, BeginContinuation, EndContinuation, turnVars
  <2> QED BY <1>1, <1>8, <2>1, <2>2 DEF Unasked
<1>9. CASE UNCHANGED vars
  BY <1>1, <1>9 DEF vars, outboxVars, turnVars, Unasked
<1> QED BY <1>4, <1>5, <1>6, <1>7, <1>8, <1>9 DEF Next

\* The workflow's state counts its executions.
LEMMA EpisodesStep == Inv /\ [Next]_vars => Episodes'
<1> SUFFICES ASSUME Inv, [Next]_vars, NEW q \in Requests
             PROVE  (req[q].episodes = IF req[q].run = None THEN 0 ELSE 1)'
  BY DEF Episodes
<1>1. req[q].episodes = IF req[q].run = None THEN 0 ELSE 1
  BY DEF Inv, Episodes
<1>2. CASE SameRow(req[q], req'[q])
  BY <1>1, <1>2 DEF SameRow
<1>3. CASE \E r \in Requests : r = q /\ (\/ Enqueues(r) \/ Cancels(r) \/ Launches(r)
                                         \/ Begins(r) \/ Refuses(r) \/ Ends(r))
  BY <1>1, <1>3 DEF Enqueues, Queued, Cancels, Launches, Begins, Refuses, Ends, None
<1> QED BY <1>2, <1>3, NextMoves
        DEF Inv, Quiet, Enqueues, Cancels, Launches, Begins, Refuses, Ends, Only

\* The invariant holds of every run.
LEMMA InvHolds == Spec => []Inv
<1>1. Init => Inv
  <2> SUFFICES ASSUME Init PROVE Inv
    OBVIOUS
  <2>1. NoRequest \in Row
    BY WorkRequestAssumption DEF NoRequest, Row, Statuses
  <2>2. TypeOK
    BY <2>1, EmptySeq DEF Init, TypeOK
  <2>3. Blank
    BY NoneAssumption DEF Init, Blank, Unasked
  <2>4. Episodes
    BY DEF Init, Episodes, NoRequest
  <2> QED BY <2>2, <2>3, <2>4 DEF Inv
<1>2. Inv /\ [Next]_vars => Inv'
  BY TypesStep, BlankStep, EpisodesStep DEF Inv
<1> QED BY <1>1, <1>2, PTL DEF Spec

\* TYPE CORRECTNESS of the rows, the turn, the deciders and the dispatchers.
THEOREM TypeCorrect == Spec => []TypeOK
<1>1. Inv => TypeOK
  BY DEF Inv
<1> QED BY <1>1, InvHolds, PTL

\* A continuation is executed once: whichever replies and acknowledgements are
\* lost, the workflow's id is used once (dispatch_work_request_continuations).
THEOREM ContinuedOnce == Spec => []ContinuesOnce
<1>1. Inv => ContinuesOnce
  BY DEF Inv, Episodes, ContinuesOnce
<1> QED BY <1>1, InvHolds, PTL

\* A stopped requester is seen by every dispatch that begins after the stop.
THEOREM StopIsKept == Spec => StoppedStaysStopped
<1> SUFFICES ASSUME NEW r \in Requests
             PROVE  Spec => [](src.stop /\ holder[r] = "free" /\ req[r].run = None
                               => [](req[r].run = None))
  BY DEF StoppedStaysStopped
<1>1. Inv /\ src.stop /\ holder[r] = "free" /\ req[r].run = None /\ [Next]_vars
        => (src.stop /\ holder[r] = "free" /\ req[r].run = None)'
  <2> SUFFICES ASSUME Inv, src.stop, holder[r] = "free", req[r].run = None, [Next]_vars
               PROVE  (src.stop /\ holder[r] = "free" /\ req[r].run = None)'
    OBVIOUS
  <2>1. src'.stop
    BY SourceMoves DEF Inv
  <2>2. holder'[r] = "free"
    <3>1. holder \in [Requests -> {"free", "checked", "started"}]
      BY DEF Inv, TypeOK
    <3>2. ASSUME NEW q \in Requests, Check(q) \/ StartContinuation(q) \/ Acknowledge(q) \/ DispatchFails(q)
          PROVE  holder'[r] = "free"
      BY <3>1, <3>2 DEF Check, StartContinuation, Acknowledge, DispatchFails, Hold, Stopped
    <3>3. holder' = holder
          \/ \E q \in Requests : Check(q) \/ StartContinuation(q) \/ Acknowledge(q) \/ DispatchFails(q)
      BY DEF Next, Decide, Read, Accept, Answer, AskNew, OpenByPerson, Store,
         TurnStep, StepReturns, TurnFails, Arm, StartChild, StartChildFails, Repair, CloseTurn,
         StopTurn, StartByDecider, StartByDeciderFails, Finalize, FinalizeFails,
         BeginContinuation, EndContinuation, vars, outboxVars
    <3> QED BY <3>2, <3>3
  <2>3. req'[r].run = None
    BY NextMoves
    DEF Inv, Quiet, Enqueues, Queued, Cancels, Launches, Begins, Refuses, Ends, Only, SameRow, None
  <2> QED BY <2>1, <2>2, <2>3
<1> QED BY <1>1, InvHolds, PTL DEF Spec

-----------------------------------------------------------------------------
(* One writer: a continuation begins when everything before it is over.    *)

AfterAt(i) == req[line[i]].after
Over(n) == \A k \in DOMAIN line : k < n => ContAt(k) = "done"

\* A continuation is in the queue once, from when it has a task.
LineParts ==
  /\ \A i, j \in DOMAIN line : line[i] = line[j] => i = j
  /\ \A r \in Requests : req[r].cont # None => \E i \in DOMAIN line : line[i] = r
  /\ \A i \in DOMAIN line : ContAt(i) # None

\* Only a continuation that has a task is dispatched, and has a workflow.
TaskParts ==
  \A r \in Requests : holder[r] # "free" \/ req[r].run # None => req[r].cont # None

\* What was begun found its own turn and everything before it over; what is
\* still queued waits for the last of them that is not, or for the turn itself.
Waits(i) ==
  \/ AfterAt(i) = Source /\ Over(i)
  \/ \E j \in DOMAIN line :
       /\ j < i /\ AfterAt(i) = line[j]
       /\ \A k \in DOMAIN line : j < k /\ k < i => ContAt(k) = "done"

QueueParts ==
  /\ src.state = "cancelled" => src.stop
  /\ ~src.stop =>
     /\ \A r \in Requests : req[r].run = "working" => req[r].cont = "running"
     /\ \A r \in Requests : req[r].cont # "cancelled"
     /\ \A i \in DOMAIN line :
          /\ ContAt(i) \in {"running", "done"} => src.state # "running" /\ Over(i)
          /\ ContAt(i) = "queued" => Waits(i)

QueueInv == Inv /\ LineParts /\ TaskParts /\ QueueParts

\* The places of the queue are requests.
LEMMA Places ==
  ASSUME TypeOK
  PROVE  /\ Len(line) \in Nat /\ DOMAIN line = 1..Len(line)
         /\ \A i \in DOMAIN line : line[i] \in Requests /\ ContAt(i) \in
              {None, "queued", "running", "done", "cancelled"}
<1>1. line \in Seq(Requests) /\ Len(line) \in Nat /\ DOMAIN line = 1..Len(line)
  BY DEF TypeOK
<1>2. \A i \in DOMAIN line : line[i] \in Requests
  BY <1>1, ElementOfSeq
<1> QED BY <1>1, <1>2 DEF TypeOK, Row, ContAt

\* A continuation that is put in the queue gets the place behind all the others.
LEMMA AppendPlaces ==
  ASSUME TypeOK, LineParts, NEW r \in Requests, Enqueues(r), NEW n \in Nat, n = Len(line) + 1
  PROVE  /\ DOMAIN line' = DOMAIN line \cup {n}
         /\ n \notin DOMAIN line
         /\ \A i \in DOMAIN line : i < n
         /\ \A i \in DOMAIN line : /\ line'[i] = line[i] /\ line[i] # r
                                   /\ ContAt(i)' = ContAt(i) /\ AfterAt(i)' = AfterAt(i)
         /\ line'[n] = r
         /\ ContAt(n)' = "queued" /\ AfterAt(n)' = Predecessor
<1>1. line \in Seq(Requests) /\ line' = Append(line, r) /\ Len(line) \in Nat
  BY DEF TypeOK, Enqueues
<1>2. /\ Len(line') = n /\ line'[n] = r /\ line' \in Seq(Requests)
      /\ \A i \in 1..Len(line) : line'[i] = line[i]
  BY <1>1, AppendProperties
<1>3. DOMAIN line = 1..Len(line) /\ DOMAIN line' = 1..n
  BY <1>1, <1>2
<1>4. \A i \in DOMAIN line : line[i] \in Requests /\ line'[i] = line[i]
  BY <1>1, <1>2, <1>3, Places
<1>5. \A i \in DOMAIN line : line[i] # r
  BY DEF LineParts, ContAt, Enqueues, Queued
<1>6. \A i \in DOMAIN line : ContAt(i)' = ContAt(i) /\ AfterAt(i)' = AfterAt(i)
  BY <1>4, <1>5 DEF Enqueues, SameRow, ContAt, AfterAt
<1>7. ContAt(n)' = "queued" /\ AfterAt(n)' = Predecessor
  BY <1>2 DEF ContAt, AfterAt, Enqueues, Queued
<1> QED BY <1>1, <1>2, <1>3, <1>4, <1>5, <1>6, <1>7

\* A step of one row leaves the other places alone.
LEMMA OnlyPlaces ==
  ASSUME TypeOK, LineParts, NEW r \in Requests, Only(r), req[r].cont # None \/ SameRow(req[r], req'[r])
  PROVE  \/ \A i \in DOMAIN line : ContAt(i)' = ContAt(i) /\ AfterAt(i)' = AfterAt(i)
         \/ \E p \in DOMAIN line :
              /\ line[p] = r
              /\ \A i \in DOMAIN line \ {p} : ContAt(i)' = ContAt(i) /\ AfterAt(i)' = AfterAt(i)
              /\ ContAt(p)' = req'[r].cont /\ ContAt(p) = req[r].cont
              /\ AfterAt(p)' = req'[r].after /\ AfterAt(p) = req[r].after
<1>1. line' = line /\ \A q \in Requests \ {r} : SameRow(req[q], req'[q])
  BY DEF Only
<1>2. \A i \in DOMAIN line : line[i] \in Requests
  BY Places
<1>3. \A i \in DOMAIN line : line[i] # r => ContAt(i)' = ContAt(i) /\ AfterAt(i)' = AfterAt(i)
  BY <1>1, <1>2 DEF ContAt, AfterAt, SameRow
<1>4. CASE \E p \in DOMAIN line : line[p] = r
  <2>1. PICK p \in DOMAIN line : line[p] = r
    BY <1>4
  <2>2. \A i \in DOMAIN line \ {p} : line[i] # r
    BY <2>1 DEF LineParts
  <2> QED BY <1>1, <1>3, <2>1, <2>2 DEF ContAt, AfterAt
<1>5. CASE ~\E p \in DOMAIN line : line[p] = r
  BY <1>3, <1>5
<1> QED BY <1>4, <1>5

\* A dispatcher looks at rows of the outbox, and a task is not taken back.
LEMMA TaskStep == Inv /\ TaskParts /\ [Next]_vars => TaskParts'
<1> SUFFICES ASSUME Inv, TaskParts, [Next]_vars, NEW r \in Requests,
                    holder'[r] # "free" \/ req'[r].run # None
             PROVE  req'[r].cont # None
  BY DEF TaskParts
<1>0. holder \in [Requests -> {"free", "checked", "started"}]
  BY DEF Inv, TypeOK
<1>1. req[r].cont # None => req'[r].cont # None
  BY NextMoves DEF Inv, Quiet, Enqueues, Queued, Cancels, Launches, Begins, Refuses, Ends,
     Only, SameRow, None
<1>2. CASE req[r].run # None \/ holder[r] # "free"
  BY <1>1, <1>2 DEF TaskParts
<1>3. CASE req[r].run = None /\ holder[r] = "free" /\ holder'[r] # "free"
  <2>1. ASSUME NEW q \in Requests, Acknowledge(q) \/ DispatchFails(q) \/ StartContinuation(q)
        PROVE  FALSE
    BY <1>0, <1>3, <2>1 DEF StartContinuation, Acknowledge, DispatchFails, Hold
  <2>2. \E q \in Requests : Check(q)
    BY <1>3, <2>1
    DEF Next, Decide, Read, Accept, Answer, AskNew, OpenByPerson, Store,
        TurnStep, StepReturns, TurnFails, Arm, StartChild, StartChildFails, Repair, CloseTurn,
        StopTurn, StartByDecider, StartByDeciderFails, Finalize, FinalizeFails,
        BeginContinuation, EndContinuation, vars, outboxVars
  <2>3. Check(r)
    BY <1>0, <1>3, <2>2 DEF Check, Hold
  <2> QED BY <1>1, <2>3 DEF Check, Outbox
<1>4. CASE req[r].run = None /\ req'[r].run # None
  BY <1>1, <1>4, NextMoves
  DEF Inv, TaskParts, Quiet, Enqueues, Queued, Cancels, Launches, Begins, Refuses, Ends,
     Only, SameRow, None
<1> QED BY <1>2, <1>3, <1>4

\* The queue holds each continuation once.
LEMMA LineStep == Inv /\ LineParts /\ TaskParts /\ [Next]_vars => LineParts'
<1> SUFFICES ASSUME Inv, LineParts, TaskParts, [Next]_vars PROVE LineParts'
  OBVIOUS
<1>0. TypeOK /\ \A i \in DOMAIN line : line[i] \in Requests
  BY Places DEF Inv
<1>1. CASE Quiet
  BY <1>0, <1>1 DEF LineParts, Quiet, SameRow, ContAt
<1>2. ASSUME NEW r \in Requests, Enqueues(r) PROVE LineParts'
  <2>1. \A q \in Requests \ {r} : req'[q].cont = req[q].cont
    BY <1>2 DEF Enqueues, SameRow
  <2>0. PICK n \in Nat : n = Len(line) + 1
    BY <1>0, Places
  <2>2. /\ DOMAIN line' = DOMAIN line \cup {n} /\ line'[n] = r
        /\ \A i \in DOMAIN line : line'[i] = line[i] /\ line[i] # r /\ ContAt(i)' = ContAt(i)
        /\ ContAt(n)' = "queued"
    BY <1>0, <1>2, <2>0, AppendPlaces
  <2> QED BY <2>1, <2>2 DEF LineParts, None
<1>3. ASSUME NEW r \in Requests, Only(r), req[r].cont # None => req'[r].cont # None,
             req[r].cont = None => req'[r].cont = None
      PROVE  LineParts'
  <2>1. line' = line /\ \A q \in Requests : req'[q].cont = None <=> req[q].cont = None
    BY <1>3 DEF Only, SameRow
  <2> QED BY <1>0, <2>1 DEF LineParts, ContAt
<1>4. ASSUME NEW r \in Requests, Cancels(r) \/ Launches(r) \/ Begins(r) \/ Refuses(r)
      PROVE  LineParts'
  BY <1>3, <1>4 DEF Cancels, Launches, Begins, Refuses, None
<1>5. ASSUME NEW r \in Requests, Ends(r) PROVE LineParts'
  <2>1. req[r].cont # None
    BY <1>5 DEF Ends, TaskParts, None
  <2> QED BY <1>3, <1>5, <2>1 DEF Ends, None
<1> QED BY <1>1, <1>2, <1>4, <1>5, NextMoves DEF Inv

\* What a place of the queue says, as a function of nothing but the queue.
PlaceOK(i) ==
  /\ ContAt(i) # "cancelled"
  /\ ContAt(i) \in {"running", "done"} => src.state # "running" /\ Over(i)
  /\ ContAt(i) = "queued" => Waits(i)

\* Places that did not move stay in order, while more of them are over.
LEMMA PlacesKept ==
  ASSUME TypeOK, \A i \in DOMAIN line : PlaceOK(i), line' = line,
         src'.state = "running" => src.state = "running",
         NEW p, \A i \in DOMAIN line \ {p} : ContAt(i)' = ContAt(i) /\ AfterAt(i)' = AfterAt(i),
         p \in DOMAIN line => /\ ContAt(p) # "done"
                              /\ ContAt(p)' = "queued" => ContAt(p) = "queued" /\ AfterAt(p)' = AfterAt(p)
                              /\ ContAt(p)' # "cancelled"
                              /\ ContAt(p)' \in {"running", "done"} => src.state # "running" /\ Over(p)
  PROVE  \A i \in DOMAIN line : PlaceOK(i)'
<1>1. \A k \in DOMAIN line : ContAt(k) = "done" => ContAt(k)' = "done"
  OBVIOUS
<1>2. \A n : Over(n) => \A k \in DOMAIN line : k < n => ContAt(k)' = "done"
  BY <1>1 DEF Over
<1>3. ASSUME NEW i \in DOMAIN line, ContAt(i)' = "queued" PROVE Waits(i)'
  <2>1. ContAt(i) = "queued" /\ AfterAt(i)' = AfterAt(i) /\ Waits(i)
    BY <1>3 DEF PlaceOK
  <2>2. CASE AfterAt(i) = Source /\ Over(i)
    <3>1. AfterAt(i)' = Source /\ \A k \in DOMAIN line : k < i => ContAt(k)' = "done"
      BY <1>2, <2>1, <2>2
    <3> QED BY <3>1 DEF Waits, Over
  <2>3. CASE \E j \in DOMAIN line :
               /\ j < i /\ AfterAt(i) = line[j]
               /\ \A k \in DOMAIN line : j < k /\ k < i => ContAt(k) = "done"
    BY <1>1, <2>1, <2>3 DEF Waits
  <2> QED BY <2>1, <2>2, <2>3 DEF Waits
<1>4. ASSUME NEW i \in DOMAIN line, ContAt(i)' \in {"running", "done"}
      PROVE  src'.state # "running" /\ Over(i)'
  <2>1. src.state # "running" /\ Over(i)
    BY <1>4 DEF PlaceOK
  <2> QED BY <1>2, <2>1 DEF Over
<1>5. \A i \in DOMAIN line : ContAt(i)' # "cancelled"
  BY DEF PlaceOK
<1> QED BY <1>3, <1>4, <1>5 DEF PlaceOK

\* A continuation that may begin has nothing before it that is not over, neither
\* the turn that asked (the admission's queue test).
LEMMA FreeIsNext ==
  ASSUME TypeOK, \A i \in DOMAIN line : PlaceOK(i), NEW p \in DOMAIN line,
         ContAt(p) = "queued", Free(line[p]), \A i \in DOMAIN line : ContAt(i) # None
  PROVE  src.state # "running" /\ Over(p)
<1>1. Waits(p) /\ Len(line) \in Nat /\ DOMAIN line = 1..Len(line)
      /\ \A i \in DOMAIN line : line[i] \in Requests
  BY Places DEF PlaceOK
<1>2. CASE AfterAt(p) = Source /\ Over(p)
  BY <1>2 DEF Free, AfterAt
<1>3. ASSUME NEW j \in DOMAIN line, j < p, AfterAt(p) = line[j],
             \A k \in DOMAIN line : j < k /\ k < p => ContAt(k) = "done"
      PROVE  src.state # "running" /\ Over(p)
  <2>1. line[j] # Source
    BY <1>1, NoneAssumption
  <2>2. ContAt(j) \notin {"queued", "running"}
    BY <1>3, <2>1 DEF Free, AfterAt, ContAt
  <2>3. ContAt(j) = "done"
    BY <2>2, Places DEF PlaceOK
  <2>4. src.state # "running" /\ Over(j)
    BY <2>3 DEF PlaceOK
  <2>5. \A k \in DOMAIN line : k < p => k < j \/ k = j \/ j < k
    BY <1>1
  <2> QED BY <1>3, <2>3, <2>4, <2>5 DEF Over
<1> QED BY <1>1, <1>2, <1>3 DEF Waits

\* The places of the queue stay in order while nobody stops the turn.
LEMMA PlaceStep ==
  ASSUME Inv, LineParts, TaskParts, [Next]_vars, ~src'.stop, ~Stopped, \A i \in DOMAIN line : PlaceOK(i),
         \A r \in Requests : req[r].run = "working" => req[r].cont = "running",
         \A r \in Requests : req[r].cont # "cancelled"
  PROVE  (\A i \in DOMAIN line : PlaceOK(i))'
<1>0. /\ TypeOK
      /\ src'.state = "running" => src.state = "running"
      /\ \A i \in DOMAIN line : ContAt(i) # None
  BY SourceMoves DEF Inv, LineParts
<1>1. ASSUME line' = line, \A i \in DOMAIN line : ContAt(i)' = ContAt(i) /\ AfterAt(i)' = AfterAt(i)
      PROVE  (\A i \in DOMAIN line : PlaceOK(i))'
  <2>1. PICK p : p \notin DOMAIN line
    <3>1. 0 \notin DOMAIN line
      BY <1>0, Places
    <3> QED BY <3>1
  <2>2. \A i \in DOMAIN line : PlaceOK(i)'
    BY <1>0, <1>1, <2>1, PlacesKept
  <2> QED BY <1>1, <2>2
<1>2. CASE Quiet
  <2>1. line' = line /\ \A i \in DOMAIN line : ContAt(i)' = ContAt(i) /\ AfterAt(i)' = AfterAt(i)
    BY <1>0, <1>2, Places DEF Quiet, SameRow, ContAt, AfterAt
  <2> QED BY <1>1, <2>1
<1>3. ASSUME NEW r \in Requests, Enqueues(r) PROVE (\A i \in DOMAIN line : PlaceOK(i))'
  <2>1. PICK n \in Nat : n = Len(line) + 1
    BY <1>0, Places
  <2>2. /\ DOMAIN line' = DOMAIN line \cup {n} /\ n \notin DOMAIN line
        /\ \A i \in DOMAIN line : i < n
        /\ \A i \in DOMAIN line : /\ line'[i] = line[i] /\ line[i] # r
                                  /\ ContAt(i)' = ContAt(i) /\ AfterAt(i)' = AfterAt(i)
        /\ line'[n] = r
        /\ ContAt(n)' = "queued" /\ AfterAt(n)' = Predecessor
    BY <1>0, <1>3, <2>1, AppendPlaces
  <2>3. \A i, k \in DOMAIN line : k \in Nat /\ i \in Nat
    BY <1>0, Places
  <2>4. ASSUME NEW i \in DOMAIN line PROVE ~(n < i)
    BY <2>1, <2>2, <2>3
  <2>5. ASSUME NEW i \in DOMAIN line, Over(i) PROVE Over(i)'
    BY <2>2, <2>4, <2>5 DEF Over
  <2>6. ASSUME NEW i \in DOMAIN line, Waits(i) PROVE Waits(i)'
    <3>1. CASE AfterAt(i) = Source /\ Over(i)
      BY <2>2, <2>5, <3>1 DEF Waits
    <3>2. CASE \E j \in DOMAIN line :
                 /\ j < i /\ AfterAt(i) = line[j]
                 /\ \A k \in DOMAIN line : j < k /\ k < i => ContAt(k) = "done"
      BY <2>2, <2>4, <3>2 DEF Waits
    <3> QED BY <2>6, <3>1, <3>2 DEF Waits
  <2>7. ASSUME NEW i \in DOMAIN line PROVE PlaceOK(i)'
    BY <1>0, <2>2, <2>5, <2>6 DEF PlaceOK
  <2>8. Waits(n)'
    <3>1. \A k \in DOMAIN line : ContAt(k) \notin Busy => ContAt(k)' = "done"
      BY <1>0, <2>2, Places DEF Busy, PlaceOK
    <3>2. CASE Predecessor = Source /\ \A i \in DOMAIN line : ContAt(i) \notin Busy
      <4>1. \A k \in DOMAIN line' : k < n => ContAt(k)' = "done"
        BY <2>1, <2>2, <3>1, <3>2
      <4> QED BY <2>2, <3>2, <4>1 DEF Waits, Over
    <3>3. CASE \E j \in DOMAIN line : /\ Predecessor = line[j]
                                      /\ \A k \in DOMAIN line : j < k => ContAt(k) \notin Busy
      <4>1. PICK j \in DOMAIN line : /\ Predecessor = line[j]
                                     /\ \A k \in DOMAIN line : j < k => ContAt(k) \notin Busy
        BY <3>3
      <4>2. \A k \in DOMAIN line' : j < k /\ k < n => ContAt(k)' = "done"
        BY <2>1, <2>2, <3>1, <4>1
      <4>3. j \in DOMAIN line' /\ j < n /\ AfterAt(n)' = line'[j]
        BY <2>2, <4>1
      <4> QED BY <4>2, <4>3 DEF Waits
    <3> QED BY <1>0, <3>2, <3>3, PredecessorIs
  <2>9. PlaceOK(n)'
    BY <2>2, <2>8 DEF PlaceOK
  <2> QED BY <2>2, <2>7, <2>9
<1>4. ASSUME NEW r \in Requests, Launches(r) \/ Begins(r) \/ Ends(r)
      PROVE  (\A i \in DOMAIN line : PlaceOK(i))'
  <2>0. line' = line /\ Only(r) /\ req[r].cont # None
    BY <1>4 DEF Launches, Begins, Ends, Only, TaskParts, None
  <2>1. CASE \A i \in DOMAIN line : ContAt(i)' = ContAt(i) /\ AfterAt(i)' = AfterAt(i)
    BY <1>1, <2>0, <2>1
  <2>2. ASSUME NEW p \in DOMAIN line,
              /\ line[p] = r
              /\ \A i \in DOMAIN line \ {p} : ContAt(i)' = ContAt(i) /\ AfterAt(i)' = AfterAt(i)
              /\ ContAt(p)' = req'[r].cont /\ ContAt(p) = req[r].cont
              /\ AfterAt(p)' = req'[r].after /\ AfterAt(p) = req[r].after
        PROVE  (\A i \in DOMAIN line : PlaceOK(i))'
    <3>1. CASE Launches(r)
      BY <1>1, <2>0, <2>2, <3>1 DEF Launches
    <3>2. CASE Begins(r)
      <4>1. src.state # "running" /\ Over(p)
        BY <1>0, <2>2, <3>2, FreeIsNext DEF Begins
      <4>2. \A i \in DOMAIN line : PlaceOK(i)'
        BY <1>0, <2>0, <2>2, <3>2, <4>1, PlacesKept DEF Begins
      <4> QED BY <2>0, <4>2
    <3>3. CASE Ends(r)
      <4>1. ContAt(p) = "running"
        BY <2>2, <3>3 DEF Ends
      <4>2. src.state # "running" /\ Over(p)
        BY <4>1 DEF PlaceOK
      <4>3. \A i \in DOMAIN line : PlaceOK(i)'
        BY <1>0, <2>0, <2>2, <3>3, <4>1, <4>2, PlacesKept DEF Ends
      <4> QED BY <2>0, <4>3
    <3> QED BY <1>4, <3>1, <3>2, <3>3
  <2> QED BY <1>0, <2>0, <2>1, <2>2, OnlyPlaces
<1>5. ASSUME NEW r \in Requests PROVE ~Cancels(r) /\ ~Refuses(r)
  BY DEF Cancels, Refuses
<1> QED BY <1>2, <1>3, <1>4, <1>5, NextMoves DEF Inv

\* The queue and its writers.
LEMMA QueueStep == QueueInv /\ [Next]_vars => QueueParts'
<1> SUFFICES ASSUME QueueInv, [Next]_vars PROVE QueueParts'
  OBVIOUS
<1>0. Inv /\ LineParts /\ TaskParts /\ QueueParts /\ TypeOK
  BY DEF QueueInv, Inv
<1>1. /\ src.stop => src'.stop
      /\ src'.state = "cancelled" => src'.stop
  BY <1>0, SourceMoves DEF QueueParts
<1>2. ASSUME ~src'.stop
      PROVE  /\ (\A r \in Requests : req[r].run = "working" => req[r].cont = "running")'
             /\ (\A r \in Requests : req[r].cont # "cancelled")'
             /\ (\A i \in DOMAIN line : PlaceOK(i))'
  <2>1. ~src.stop /\ ~Stopped
    BY <1>0, <1>1, <1>2 DEF QueueParts, Stopped
  <2>2. /\ \A r \in Requests : req[r].run = "working" => req[r].cont = "running"
        /\ \A r \in Requests : req[r].cont # "cancelled"
    BY <1>0, <2>1 DEF QueueParts
  <2>3. \A i \in DOMAIN line : PlaceOK(i)
    BY <1>0, <2>1, <2>2, Places DEF QueueParts, PlaceOK, ContAt
  <2>4. (\A i \in DOMAIN line : PlaceOK(i))'
    BY <1>0, <1>2, <2>1, <2>2, <2>3, PlaceStep
  <2>5. ASSUME NEW q \in Requests
        PROVE  (req'[q].run = "working" => req'[q].cont = "running") /\ req'[q].cont # "cancelled"
    <3>1. CASE SameRow(req[q], req'[q])
      BY <2>2, <3>1 DEF SameRow
    <3>2. CASE Enqueues(q)
      BY <2>2, <3>2 DEF Enqueues, Queued, None
    <3>3. CASE Launches(q) \/ Begins(q) \/ Ends(q)
      BY <2>2, <3>3 DEF Launches, Begins, Ends
    <3>4. ~Cancels(q) /\ ~Refuses(q)
      BY <2>1, <2>2 DEF Cancels, Refuses
    <3>5. \/ Quiet
          \/ \E r \in Requests : \/ Enqueues(r) \/ Cancels(r) \/ Launches(r)
                                 \/ Begins(r) \/ Refuses(r) \/ Ends(r)
      BY <1>0, NextMoves DEF Inv
    <3>6. CASE Quiet
      BY <3>1, <3>6 DEF Quiet
    <3>7. ASSUME NEW r \in Requests, r # q,
                 Enqueues(r) \/ Cancels(r) \/ Launches(r) \/ Begins(r) \/ Refuses(r) \/ Ends(r)
          PROVE  SameRow(req[q], req'[q])
      BY <3>7 DEF Enqueues, Cancels, Launches, Begins, Refuses, Ends, Only
    <3> QED BY <3>1, <3>2, <3>3, <3>4, <3>5, <3>6, <3>7
  <2> QED BY <2>4, <2>5
<1> QED BY <1>1, <1>2 DEF QueueParts, PlaceOK

\* The queue's invariant holds of every run.
LEMMA QueueHolds == Spec => []QueueInv
<1>1. Init => LineParts /\ TaskParts /\ QueueParts
  BY DEF Init, LineParts, TaskParts, QueueParts, NoRequest, None
<1>2. QueueInv /\ [Next]_vars /\ Inv' => QueueInv'
  BY LineStep, TaskStep, QueueStep DEF QueueInv
<1>3. Inv /\ LineParts /\ TaskParts /\ QueueParts => QueueInv
  BY DEF QueueInv
<1> QED BY <1>1, <1>2, <1>3, InvHolds, PTL DEF Spec

\* ONE WRITER: while nobody stops the requester's turn, that turn and the
\* continuations of all its results work one after the other, however many
\* there are, in whatever order they end and whatever is lost (_ensure_continuation).
THEOREM OneWriter == Spec => []OneWriterUnstopped
<1>1. QueueInv => OneWriterUnstopped
  <2> SUFFICES ASSUME QueueInv, ~src.stop
               PROVE  Cardinality({r \in Requests : req[r].run = "working"})
                        + (IF src.state = "running" THEN 1 ELSE 0) <= 1
    BY DEF OneWriterUnstopped
  <2> DEFINE W == {r \in Requests : req[r].run = "working"}
  <2>0. TypeOK /\ LineParts /\ QueueParts
    BY DEF QueueInv, Inv
  <2>1. ASSUME NEW r \in W PROVE src.state # "running" /\ \E i \in DOMAIN line : line[i] = r /\ ContAt(i) = "running" /\ Over(i)
    <3>1. req[r].cont = "running"
      BY <2>0 DEF QueueParts
    <3>2. PICK i \in DOMAIN line : line[i] = r
      BY <2>0, <3>1 DEF LineParts, None
    <3> QED BY <2>0, <3>1, <3>2 DEF QueueParts, ContAt
  <2>2. ASSUME NEW r \in W, NEW q \in W PROVE r = q
    <3>1. PICK i \in DOMAIN line : line[i] = r /\ ContAt(i) = "running" /\ Over(i)
      BY <2>1
    <3>2. PICK j \in DOMAIN line : line[j] = q /\ ContAt(j) = "running" /\ Over(j)
      BY <2>1
    <3>3. i \in Nat /\ j \in Nat
      BY <2>0, Places
    <3>4. ~(i < j) /\ ~(j < i)
      BY <3>1, <3>2 DEF Over
    <3> QED BY <3>1, <3>2, <3>3, <3>4
  <2>3. CASE W = {}
    <3>1. Cardinality(W) = 0
      BY <2>3, FS_EmptySet
    <3> QED BY <3>1
  <2>4. CASE W # {}
    <3>1. PICK r \in W : W = {r}
      BY <2>2, <2>4
    <3>2. Cardinality(W) = 1
      BY <3>1, FS_Singleton
    <3>3. src.state # "running"
      BY <2>1, <3>1
    <3> QED BY <3>2, <3>3
  <2> QED BY <2>3, <2>4
<1> QED BY <1>1, QueueHolds, PTL

-----------------------------------------------------------------------------
(* The refinement of ResultOutbox: what each step does to the stages of the *)
(* results, and to what dispatchers have in hand.                          *)

\* A row whose result stays at its stage, and rows of all results but one.
Calm(old, new) ==
  /\ new.cont = old.cont /\ new.run = old.run /\ new.suppressed = old.suppressed
Others(r) == \A q \in Requests \ {r} : Calm(req[q], req'[q])

\* What becomes of a result's row: given up without a task, or with its task,
\* or put in the queue.
Given(old, new) ==
  /\ Stopped /\ old.suppressed = None /\ new.suppressed # None
  /\ new.run = old.run /\ old.cont = None /\ new.cont = None
Cancelled(old, new) ==
  /\ Stopped /\ old.suppressed = None /\ new.suppressed # None
  /\ new.run = old.run /\ old.cont # None /\ new.cont = "cancelled"
Lined(old, new) ==
  /\ ~Stopped /\ old.cont = None /\ new.cont = "queued" /\ new.run = old.run
  /\ old.suppressed = None /\ new.suppressed = None

\* The steps of the outbox, in terms of rows and locks.
Rests == UNCHANGED <<line, holder, src>> /\ \A q \in Requests : Calm(req[q], req'[q])
Lines(r) ==
  /\ line' = Append(line, r) /\ UNCHANGED <<holder, src>>
  /\ Lined(req[r], req'[r]) /\ Others(r)
Gives(r) ==
  /\ UNCHANGED <<line, holder, src>> /\ holder[r] = "free"
  /\ Given(req[r], req'[r]) \/ Cancelled(req[r], req'[r])
  /\ Others(r)
Claims(r) ==
  /\ UNCHANGED <<req, line, src>> /\ ~Stopped
  /\ req[r].cont # None /\ req[r].suppressed = None
  /\ holder' = [holder EXCEPT ![r] = "checked"]
Sends(r) ==
  /\ UNCHANGED <<line, src>> /\ holder[r] = "checked" /\ Others(r)
  /\ holder' = [holder EXCEPT ![r] = "started"]
  /\ req'[r].cont = req[r].cont /\ req'[r].suppressed = req[r].suppressed
  /\ req'[r].run = IF req[r].run = None THEN "waiting" ELSE req[r].run
Releases(r) ==
  /\ UNCHANGED <<line, src>> /\ \A q \in Requests : Calm(req[q], req'[q])
  /\ holder' = [holder EXCEPT ![r] = "free"]
Works(r) ==
  /\ UNCHANGED <<line, holder, src>> /\ Others(r)
  /\ req[r].cont = "queued" /\ Free(r) /\ req'[r].cont = "running"
  /\ req[r].run = "waiting" /\ req'[r].run = "working"
  /\ req'[r].suppressed = req[r].suppressed
Closes(r) ==
  /\ UNCHANGED <<line, holder, src>> /\ Others(r)
  /\ req'[r].run = "closed" /\ req'[r].suppressed = req[r].suppressed
  /\ \/ req[r].run = "working" /\ req'[r].cont = "done"
     \/ req[r].run = "waiting" /\ req[r].cont = "cancelled" /\ req'[r].cont = "cancelled"
Quits ==
  /\ UNCHANGED <<req, line, holder>>
  /\ \/ src.state = "running" /\ ~src.stop /\ src'.stop /\ src'.state = "running"
     \/ src'.stop = src.stop /\ src'.state # "running"

\* A row that is replaced by one of its kind, for the outbox.
LEMMA ReplaceCalm ==
  ASSUME TypeOK, NEW r \in Requests, NEW row \in Row, req' = [req EXCEPT ![r] = row]
  PROVE  req'[r] = row /\ Others(r)
BY DEF TypeOK, Others, Calm

\* ensure_work_request_continuation, on the row it is given.
LEMMA EnsuredStage ==
  ASSUME TypeOK, NEW row \in Row
  PROVE  /\ Ensured(row) \in Row
         /\ \/ Calm(row, Ensured(row)) \/ Given(row, Ensured(row)) \/ Lined(row, Ensured(row))
<1> DEFINE v == [row EXCEPT !.suppressed = "requester_cancelled"]
           w == [row EXCEPT !.cont = "queued", !.after = Predecessor]
<1>1. v.suppressed = "requester_cancelled" /\ v.run = row.run /\ v.cont = row.cont
  BY DEF Row
<1>2. w.cont = "queued" /\ w.run = row.run /\ w.suppressed = row.suppressed
  BY DEF Row
<1>3. Ensured(row) = IF ~Due(row) THEN row ELSE IF Stopped THEN v ELSE w
  BY DEF Ensured
<1> HIDE DEF v, w
<1>4. Due(row) => row.cont = None /\ row.suppressed = None
  BY DEF Due
<1>5. Ensured(row) \in Row
  BY EnsuredRow
<1> QED BY <1>1, <1>2, <1>3, <1>4, <1>5 DEF Calm, Given, Lined, None

\* finalize_work_request does the same to the row it closed.
LEMMA FinalizedStage ==
  ASSUME TypeOK, NEW row \in Row
  PROVE  /\ Finalized(row) \in Row
         /\ \/ Calm(row, Finalized(row)) \/ Given(row, Finalized(row)) \/ Lined(row, Finalized(row))
<1> DEFINE w == [row EXCEPT !.status = "settled", !.result = TRUE]
<1>1. w \in Row /\ Calm(row, w)
  BY DEF Row, Calm, Statuses, None
<1>2. Finalized(row) = Ensured(w)
  BY DEF Finalized
<1> HIDE DEF w
<1> QED BY <1>1, <1>2, EnsuredStage DEF Calm, Given, Lined

\* A row stored under its lock, with the queue.
LEMMA StoreStage ==
  ASSUME TypeOK, NEW r \in Requests, NEW row \in Row, Store(r, row), src' = src,
         holder[r] = "free", Calm(req[r], row) \/ Given(req[r], row) \/ Lined(req[r], row)
  PROVE  Rests \/ Gives(r) \/ Lines(r)
<1>1. req'[r] = row /\ Others(r) /\ holder' = holder
  BY ReplaceCalm DEF Store
<1>2. CASE Calm(req[r], row)
  <2>1. line' = line
    BY <1>2 DEF Store, Calm
  <2>2. \A q \in Requests : Calm(req[q], req'[q])
    BY <1>1, <1>2 DEF Others
  <2> QED BY <1>1, <2>1, <2>2 DEF Rests
<1>3. CASE Given(req[r], row)
  <2>1. line' = line
    BY <1>3 DEF Store, Given
  <2> QED BY <1>1, <1>3, <2>1 DEF Gives
<1>4. CASE Lined(req[r], row)
  <2>1. line' = Append(line, r)
    BY <1>4 DEF Store, Lined, None
  <2> QED BY <1>1, <1>4, <2>1 DEF Lines
<1> QED BY <1>2, <1>3, <1>4

\* Nothing happens to the rows and their locks.
LEMMA NoStage ==
  ASSUME UNCHANGED <<req, line, holder, src>>
  PROVE  Rests
BY DEF Rests, Calm

\* A decision says nothing about a result's turn.
LEMMA DecisionStage ==
  ASSUME TypeOK, NEW s \in Sessions, Accept(s) \/ Answer(s)
  PROVE  Rests
<1> DEFINE r == sess[s].request
<1>1. sess[s] \in Session
  <2>1. sess[s] \in {Idle} \cup Session
    BY DEF TypeOK
  <2>2. sess[s].stage = "write" /\ Idle.stage = "idle"
    BY DEF Accept, Answer, Idle
  <2> QED BY <2>1, <2>2
<1>2. r \in Requests /\ req[r] \in Row
  BY <1>1 DEF Session, TypeOK
<1>3. UNCHANGED <<line, holder, src>>
  BY DEF Accept, Answer
<1> HIDE DEF r
<1>4. CASE req' = req
  BY <1>3, <1>4, NoStage
<1>5. ASSUME NEW row, Calm(req[r], row), req' = [req EXCEPT ![r] = row] PROVE Rests
  <2>1. \A q \in Requests : Calm(req[q], req'[q])
    BY <1>2, <1>5 DEF TypeOK, Calm
  <2> QED BY <1>3, <2>1 DEF Rests
<1>6. /\ Calm(req[r], Accepted(req[r])) /\ Calm(req[r], Failed(req[r]))
      /\ \A new : Calm(req[r], [req[r] EXCEPT !.status = new])
  BY <1>2 DEF Calm, Accepted, Failed, Row
<1>7. \/ req' = req
      \/ req' = [req EXCEPT ![r] = Accepted(req[r])]
      \/ req' = [req EXCEPT ![r] = Failed(req[r])]
      \/ \E new : req' = [req EXCEPT ![r] = [req[r] EXCEPT !.status = new]]
  BY DEF Accept, Answer, r
<1> QED BY <1>4, <1>5, <1>6, <1>7

\* Neither does a new row.
LEMMA AskStage ==
  ASSUME TypeOK, Blank, NEW r \in Requests, AskNew(r) \/ OpenByPerson(r)
  PROVE  Rests
<1> DEFINE new == [NoRequest EXCEPT !.status = "pending", !.byTurn = TRUE]
           asked == [NoRequest EXCEPT !.status = "pending"]
<1>1. req[r] = NoRequest /\ UNCHANGED <<line, holder, src>>
  BY DEF AskNew, OpenByPerson, Blank, Unasked, turnVars
<1>2. ASSUME NEW row, Calm(NoRequest, row), req' = [req EXCEPT ![r] = row] PROVE Rests
  <2>1. \A q \in Requests : Calm(req[q], req'[q])
    BY <1>1, <1>2 DEF TypeOK, Calm
  <2> QED BY <1>1, <2>1 DEF Rests
<1>3. Calm(NoRequest, asked) /\ Calm(NoRequest, Accepted(new)) /\ Calm(NoRequest, Failed(new))
  BY DEF Calm, NoRequest, Accepted, Failed
<1>4. \/ req' = [req EXCEPT ![r] = asked]
      \/ req' = [req EXCEPT ![r] = Accepted(new)]
      \/ req' = [req EXCEPT ![r] = Failed(new)]
  BY DEF AskNew, OpenByPerson
<1> HIDE DEF new, asked
<1> QED BY <1>2, <1>3, <1>4

\* A request that is closed, by whoever comes to it.
LEMMA FinalizeStage ==
  ASSUME TypeOK, NEW r \in Requests, Store(r, Finalized(req[r])), holder[r] = "free", src' = src
  PROVE  Rests \/ Gives(r) \/ Lines(r)
<1>1. req[r] \in Row
  BY DEF TypeOK
<1> QED BY <1>1, FinalizedStage, StoreStage

\* The requester's turn arms a request or closes it, is stopped, or ends.
LEMMA TurnStage ==
  ASSUME TypeOK, TurnStep \/ TurnFails \/ StartChildFails \/ StopTurn
  PROVE  Rests \/ Quits \/ \E r \in Requests : Gives(r) \/ Lines(r)
<1>0. src \in [state : {"running", "ended", "cancelled"}, stop : BOOLEAN]
  BY DEF TypeOK
<1>1. CASE Arm
  <2> DEFINE r == turn.on
             w == [req[r] EXCEPT !.armed = TRUE]
  <2>1. r \in Requests /\ req[r] \in Row
    BY <1>1 DEF TypeOK, Arm
  <2>2. w \in Row /\ Calm(req[r], w)
    BY <2>1 DEF Row, Calm
  <2>3. Store(r, Ensured(w)) /\ holder[r] = "free" /\ src' = src
    BY <1>1 DEF Arm
  <2> HIDE DEF w, r
  <2>4. Ensured(w) \in Row /\
          (Calm(req[r], Ensured(w)) \/ Given(req[r], Ensured(w)) \/ Lined(req[r], Ensured(w)))
    BY <2>2, EnsuredStage DEF Calm, Given, Lined
  <2> QED BY <2>1, <2>3, <2>4, StoreStage
<1>2. CASE Repair
  <2>1. turn.on \in Requests /\ holder[turn.on] = "free" /\ src' = src
    BY <1>2 DEF TypeOK, Repair
  <2>2. Store(turn.on, Finalized(req[turn.on])) \/ UNCHANGED <<req, line, holder>>
    BY <1>2 DEF Repair, outboxVars
  <2> QED BY <2>1, <2>2, FinalizeStage, NoStage
<1>3. CASE StepReturns \/ StartChild \/ TurnFails \/ StartChildFails
  BY <1>3, NoStage DEF StepReturns, StartChild, TurnFails, StartChildFails, outboxVars
<1>4. CASE CloseTurn
  BY <1>0, <1>4 DEF CloseTurn, outboxVars, Quits
<1>5. CASE StopTurn
  BY <1>0, <1>5 DEF StopTurn, outboxVars, Quits
<1> QED BY <1>1, <1>2, <1>3, <1>4, <1>5 DEF TurnStep

\* The workflow of a request ends, or could not be started.
LEMMA WorkStage ==
  ASSUME TypeOK,
         \/ \E s \in Sessions : StartByDecider(s) \/ StartByDeciderFails(s)
         \/ \E r \in Requests : Finalize(r) \/ FinalizeFails(r)
  PROVE  Rests \/ \E r \in Requests : Gives(r) \/ Lines(r)
<1>1. ASSUME NEW s \in Sessions, StartByDecider(s) \/ StartByDeciderFails(s)
      PROVE  Rests \/ \E r \in Requests : Gives(r) \/ Lines(r)
  <2> DEFINE r == sess[s].request
  <2>1. r \in Requests
    <3>1. sess[s] \in {Idle} \cup Session
      BY DEF TypeOK
    <3>2. sess[s].stage = "start" /\ Idle.stage = "idle"
      BY <1>1 DEF StartByDecider, StartByDeciderFails, Idle
    <3> QED BY <3>1, <3>2 DEF Session
  <2>2. /\ src' = src
        /\ \/ Store(r, Finalized(req[r])) /\ holder[r] = "free"
           \/ UNCHANGED <<req, line, holder>>
    BY <1>1 DEF StartByDecider, StartByDeciderFails, outboxVars, turnVars
  <2> HIDE DEF r
  <2> QED BY <2>1, <2>2, FinalizeStage, NoStage
<1>2. ASSUME NEW r \in Requests, Finalize(r) \/ FinalizeFails(r)
      PROVE  Rests \/ Gives(r) \/ Lines(r)
  <2>1. /\ src' = src /\ holder[r] = "free"
        /\ Store(r, Finalized(req[r])) \/ UNCHANGED <<req, line, holder>>
    BY <1>2 DEF Finalize, FinalizeFails, outboxVars, turnVars
  <2> QED BY <2>1, FinalizeStage, NoStage
<1> QED BY <1>1, <1>2

\* The outbox and the workflows of the continuations.
LEMMA OutboxStage ==
  ASSUME TypeOK, NEW r \in Requests,
         \/ Check(r) \/ StartContinuation(r) \/ Acknowledge(r) \/ DispatchFails(r)
         \/ BeginContinuation(r) \/ EndContinuation(r)
  PROVE  Gives(r) \/ Claims(r) \/ Sends(r) \/ Releases(r) \/ Works(r) \/ Closes(r)
<1>1. req[r] \in Row /\ req \in [Requests -> Row] /\ line' = line /\ src' = src
  BY DEF TypeOK, Check, StartContinuation, Acknowledge, DispatchFails, BeginContinuation,
     EndContinuation, turnVars
<1>2. ASSUME NEW row, req' = [req EXCEPT ![r] = row] PROVE req'[r] = row /\ Others(r)
  BY <1>1, <1>2 DEF Others, Calm
<1>3. CASE Check(r)
  <2> DEFINE w == [req[r] EXCEPT !.suppressed = "cancelled_before_dispatch", !.cont = "cancelled"]
  <2>1. w.suppressed = "cancelled_before_dispatch" /\ w.cont = "cancelled" /\ w.run = req[r].run
    BY <1>1 DEF Row
  <2>2. req[r].cont # None /\ req[r].suppressed = None /\ holder[r] = "free"
    BY <1>3 DEF Check, Outbox
  <2>3. CASE Stopped
    <3>1. req' = [req EXCEPT ![r] = w] /\ holder' = holder
      BY <1>1, <1>3, <2>3 DEF Check
    <3> HIDE DEF w
    <3> QED BY <1>1, <1>2, <2>1, <2>2, <2>3, <3>1 DEF Gives, Cancelled, None
  <2>4. CASE ~Stopped
    BY <1>1, <1>3, <2>2, <2>4 DEF Check, Hold, Claims
  <2> QED BY <2>3, <2>4
<1>4. CASE StartContinuation(r)
  <2>1. Launched(req[r]).run = IF req[r].run = None THEN "waiting" ELSE req[r].run
    BY <1>1 DEF Launched, Row
  <2>2. Launched(req[r]).cont = req[r].cont /\ Launched(req[r]).suppressed = req[r].suppressed
    BY <1>1 DEF Launched, Row
  <2>3. req'[r] = Launched(req[r]) /\ Others(r)
    BY <1>2, <1>4 DEF StartContinuation
  <2> QED BY <1>1, <1>4, <2>1, <2>2, <2>3 DEF Sends, StartContinuation, Hold
<1>5. CASE Acknowledge(r)
  <2> DEFINE w == [req[r] EXCEPT !.dispatched = TRUE]
  <2>1. Calm(req[r], w)
    BY <1>1 DEF Calm, Row
  <2>2. req' = [req EXCEPT ![r] = w]
    BY <1>5 DEF Acknowledge
  <2> HIDE DEF w
  <2>3. \A q \in Requests : Calm(req[q], req'[q])
    BY <1>2, <2>1, <2>2 DEF Others
  <2> QED BY <1>1, <1>5, <2>3 DEF Acknowledge, Hold, Releases
<1>6. CASE DispatchFails(r)
  BY <1>1, <1>6 DEF DispatchFails, Hold, Releases, Calm
<1>7. CASE BeginContinuation(r)
  <2> DEFINE w == [req[r] EXCEPT !.run = "working", !.cont = "running"]
             v == [req[r] EXCEPT !.run = "closed"]
  <2>1. /\ w.run = "working" /\ w.cont = "running" /\ w.suppressed = req[r].suppressed
        /\ v.run = "closed" /\ v.cont = req[r].cont /\ v.suppressed = req[r].suppressed
    BY <1>1 DEF Row
  <2>2. req[r].run = "waiting" /\ holder' = holder
    BY <1>7 DEF BeginContinuation
  <2>3. \/ req[r].cont = "queued" /\ Free(r) /\ req' = [req EXCEPT ![r] = w]
        \/ req[r].cont = "cancelled" /\ req' = [req EXCEPT ![r] = v]
    BY <1>1, <1>7 DEF BeginContinuation
  <2> HIDE DEF v, w
  <2> QED BY <1>1, <1>2, <2>1, <2>2, <2>3 DEF Works, Closes
<1>8. CASE EndContinuation(r)
  <2> DEFINE w == [req[r] EXCEPT !.run = "closed", !.cont = "done"]
  <2>1. w.run = "closed" /\ w.cont = "done" /\ w.suppressed = req[r].suppressed
    BY <1>1 DEF Row
  <2>2. req' = [req EXCEPT ![r] = w] /\ req[r].run = "working" /\ holder' = holder
    BY <1>1, <1>8 DEF EndContinuation
  <2> HIDE DEF w
  <2> QED BY <1>1, <1>2, <2>1, <2>2 DEF Closes
<1> QED BY <1>3, <1>4, <1>5, <1>6, <1>7, <1>8

\* Every step, in the few ways it can move the results' turns.
LEMMA NextStages ==
  ASSUME TypeOK, Blank, [Next]_vars
  PROVE  \/ Rests \/ Quits
         \/ \E r \in Requests : \/ Lines(r) \/ Gives(r) \/ Claims(r) \/ Sends(r)
                                \/ Releases(r) \/ Works(r) \/ Closes(r)
<1>1. ASSUME NEW s \in Sessions, Decide(s) PROVE Rests
  <2>1. CASE \E r \in Requests, op \in Ops : Read(s, r, op)
    BY <2>1, NoStage DEF Read, outboxVars, turnVars
  <2> QED BY <1>1, <2>1, DecisionStage DEF Decide
<1>2. CASE UNCHANGED vars
  BY <1>2, NoStage DEF vars, outboxVars, turnVars
<1> QED BY <1>1, <1>2, AskStage, TurnStage, WorkStage, OutboxStage DEF Next

\* A dispatcher has only results in hand that were not given up; what is done has
\* no workflow left, and only a stop cancels.
HandParts ==
  \A r \in Requests :
    /\ holder[r] # "free" => req[r].suppressed = None
    /\ req[r].cont = "done" => req[r].run = "closed"
    /\ req[r].cont = "cancelled" => src.stop

\* It stays so.
LEMMA HandStep == QueueInv /\ HandParts /\ [Next]_vars => HandParts'
<1> SUFFICES ASSUME QueueInv, HandParts, [Next]_vars, NEW q \in Requests
             PROVE  /\ holder'[q] # "free" => req'[q].suppressed = None
                    /\ req'[q].cont = "done" => req'[q].run = "closed"
                    /\ req'[q].cont = "cancelled" => src'.stop
  BY DEF HandParts
<1>0. /\ TypeOK /\ Blank
      /\ src.stop => src'.stop
      /\ Stopped => src.stop
      /\ holder \in [Requests -> {"free", "checked", "started"}]
  BY SourceMoves DEF QueueInv, Inv, QueueParts, Stopped, TypeOK
<1>1. /\ holder[q] # "free" => req[q].suppressed = None
      /\ req[q].cont = "done" => req[q].run = "closed"
      /\ req[q].cont = "cancelled" => src.stop
  BY DEF HandParts
<1>2. CASE Calm(req[q], req'[q]) /\ holder'[q] \in {"free", holder[q]}
  BY <1>0, <1>1, <1>2 DEF Calm
<1>3. CASE Rests
  BY <1>2, <1>3 DEF Rests
<1>4. CASE Quits
  BY <1>2, <1>4 DEF Quits, Calm
<1>5. ASSUME NEW r \in Requests, r # q,
             Lines(r) \/ Gives(r) \/ Claims(r) \/ Sends(r) \/ Releases(r) \/ Works(r) \/ Closes(r)
      PROVE  Calm(req[q], req'[q]) /\ holder'[q] = holder[q]
  BY <1>0, <1>5 DEF Lines, Gives, Claims, Sends, Releases, Works, Closes, Others, Calm
<1>6. CASE Lines(q)
  BY <1>0, <1>1, <1>6 DEF Lines, Lined
<1>7. CASE Gives(q)
  BY <1>0, <1>1, <1>7 DEF Gives, Given, Cancelled, None
<1>8. CASE Claims(q) \/ Sends(q) \/ Releases(q)
  BY <1>0, <1>1, <1>8 DEF Claims, Sends, Releases, Calm, None
<1>9. CASE Works(q) \/ Closes(q)
  BY <1>0, <1>1, <1>9 DEF Works, Closes
<1> QED BY <1>0, <1>2, <1>3, <1>4, <1>5, <1>6, <1>7, <1>8, <1>9, NextStages

\* The stages of the results, while one of them moves, or none.
LEMMA StageMoves ==
  ASSUME NEW r \in Requests, Others(r), NEW from, NEW to,
         StageOf(req[r]) \in from, StageOf(req'[r]) = to
  PROVE  Promise!Moves(r, from, to)
<1>1. \A q \in Requests \ {r} : StageOf(req'[q]) = StageOf(req[q])
  BY DEF Others, Calm, StageOf
<1> QED BY <1>1 DEF Promise!Moves

LEMMA StagesStay ==
  ASSUME \A q \in Requests : Calm(req[q], req'[q])
  PROVE  UNCHANGED [r \in Requests |-> StageOf(req[r])]
<1>1. \A q \in Requests : StageOf(req'[q]) = StageOf(req[q])
  BY DEF Calm, StageOf
<1> QED BY <1>1

InHand == {r \in Requests : holder[r] # "free"}

\* Only a result that waits for its turn begins, and while nobody stops the
\* requester it is the foremost of the queue.
LEMMA ForemostBegins ==
  ASSUME QueueInv, HandParts, ~src.stop, NEW r \in Requests, req[r].cont = "queued", Free(r)
  PROVE  /\ src.state # "running"
         /\ \A i, j \in DOMAIN line : line[j] = r /\ i < j => StageOf(req[line[i]]) = "over"
<1>0. TypeOK /\ LineParts /\ QueueParts
  BY DEF QueueInv, Inv
<1>1. \A i \in DOMAIN line : PlaceOK(i)
  BY <1>0, Places DEF QueueParts, PlaceOK, ContAt
<1>2. PICK p \in DOMAIN line : line[p] = r
  BY <1>0 DEF LineParts, None
<1>3. src.state # "running" /\ Over(p)
  BY <1>0, <1>1, <1>2, FreeIsNext DEF ContAt, LineParts
<1>4. ASSUME NEW i \in DOMAIN line, NEW j \in DOMAIN line, line[j] = r, i < j
      PROVE  StageOf(req[line[i]]) = "over"
  <2>1. j = p
    BY <1>0, <1>2, <1>4 DEF LineParts
  <2>2. line[i] \in Requests /\ req[line[i]].cont = "done"
    BY <1>0, <1>3, <1>4, <2>1, Places DEF Over, ContAt
  <2> QED BY <2>2 DEF HandParts, StageOf
<1> QED BY <1>3, <1>4

\* Every step is one of ResultOutbox, or none.
LEMMA StagesImplement ==
  QueueInv /\ HandParts /\ [Next]_vars => [Promise!PromiseNext]_(Promise!promiseVars)
<1> SUFFICES ASSUME QueueInv, HandParts, [Next]_vars
             PROVE  [Promise!PromiseNext]_(Promise!promiseVars)
  OBVIOUS
<1>0. /\ TypeOK /\ Blank /\ TaskParts
      /\ Stopped <=> src.stop
      /\ holder \in [Requests -> {"free", "checked", "started"}]
  BY DEF QueueInv, Inv, QueueParts, Stopped, TypeOK
<1>1. CASE Rests
  <2>1. UNCHANGED [r \in Requests |-> StageOf(req[r])]
    BY <1>1, StagesStay DEF Rests
  <2> QED BY <1>1, <2>1 DEF Rests, Promise!promiseVars
<1>2. CASE Quits
  BY <1>2 DEF Quits, Promise!PromiseNext, Promise!Stop, Promise!Close
<1>3. ASSUME NEW r \in Requests, Lines(r) PROVE Promise!Enter(r)
  <2>1. req[r].run = None
    BY <1>0, <1>3 DEF Lines, Lined, TaskParts
  <2>2. StageOf(req[r]) \in {"none"} /\ StageOf(req'[r]) = "queued"
    BY <1>3, <2>1 DEF Lines, Lined, StageOf, None
  <2>3. Promise!Moves(r, {"none"}, "queued")
    <3>1. Others(r)
      BY <1>3 DEF Lines
    <3> QED BY <2>2, <3>1, StageMoves
  <2> QED BY <1>0, <1>3, <2>3 DEF Lines, Lined, Promise!Enter
<1>4. ASSUME NEW r \in Requests, Gives(r) PROVE [Promise!PromiseNext]_(Promise!promiseVars)
  <2>1. CASE req[r].run # None
    <3>1. \A q \in Requests : StageOf(req'[q]) = StageOf(req[q])
      <4>1. StageOf(req'[r]) = StageOf(req[r])
        BY <1>0, <1>4, <2>1 DEF Gives, Given, Cancelled, StageOf, TypeOK, Row, None
      <4>2. \A q \in Requests \ {r} : StageOf(req'[q]) = StageOf(req[q])
        BY <1>4 DEF Gives, Others, Calm, StageOf
      <4> QED BY <4>1, <4>2
    <3> QED BY <1>4, <3>1 DEF Gives, Promise!promiseVars
  <2>2. CASE req[r].run = None
    <3>1. StageOf(req[r]) \in {"none", "queued"} /\ StageOf(req'[r]) = "dropped"
      BY <1>4, <2>2 DEF Gives, Given, Cancelled, StageOf, None
    <3>2. Promise!Moves(r, {"none", "queued"}, "dropped")
      BY <1>4, <3>1, StageMoves DEF Gives
    <3>3. Promise!Forgo(r)
      BY <1>0, <1>4, <3>2 DEF Gives, Given, Cancelled, Promise!Forgo
    <3> QED BY <3>3 DEF Promise!PromiseNext
  <2> QED BY <2>1, <2>2
<1>5. ASSUME NEW r \in Requests, Claims(r) PROVE Promise!Claim(r)
  <2>1. StageOf(req[r]) \notin {"none", "dropped"}
    BY <1>5 DEF Claims, StageOf, None
  <2>2. InHand' = InHand \cup {r}
    BY <1>0, <1>5 DEF Claims, InHand
  <2>3. UNCHANGED [q \in Requests |-> StageOf(req[q])]
    BY <1>5 DEF Claims
  <2> QED BY <1>0, <1>5, <2>1, <2>2, <2>3 DEF Claims, InHand, Promise!Claim
<1>6. ASSUME NEW r \in Requests, Sends(r) PROVE [Promise!PromiseNext]_(Promise!promiseVars)
  <2>1. InHand' = InHand /\ r \in InHand
    BY <1>0, <1>6 DEF Sends, InHand
  <2>2. CASE req[r].run = None
    <3>1. StageOf(req[r]) \in {"queued"} /\ StageOf(req'[r]) = "sent"
      BY <1>0, <1>6, <2>2 DEF Sends, StageOf, HandParts, TaskParts, None
    <3>2. Promise!Moves(r, {"queued"}, "sent")
      BY <1>6, <3>1, StageMoves DEF Sends
    <3>3. Promise!Send(r)
      BY <1>6, <2>1, <3>2 DEF Sends, InHand, Promise!Send
    <3> QED BY <3>3 DEF Promise!PromiseNext
  <2>3. CASE req[r].run # None
    <3>1. \A q \in Requests : Calm(req[q], req'[q])
      BY <1>6, <2>3 DEF Sends, Others, Calm
    <3>2. UNCHANGED [q \in Requests |-> StageOf(req[q])]
      BY <3>1, StagesStay
    <3> QED BY <1>6, <2>1, <3>2 DEF Sends, InHand, Promise!promiseVars
  <2> QED BY <2>2, <2>3
<1>7. ASSUME NEW r \in Requests, Releases(r) PROVE Promise!Release(r)
  <2>1. InHand' = InHand \ {r}
    BY <1>0, <1>7 DEF Releases, InHand
  <2>2. UNCHANGED [q \in Requests |-> StageOf(req[q])]
    BY <1>7, StagesStay DEF Releases
  <2> QED BY <1>7, <2>1, <2>2 DEF Releases, InHand, Promise!Release
<1>8. ASSUME NEW r \in Requests, Works(r) PROVE Promise!Work(r)
  <2>1. StageOf(req[r]) \in {"sent"} /\ StageOf(req'[r]) = "working"
    BY <1>8 DEF Works, StageOf
  <2>2. Promise!Moves(r, {"sent"}, "working")
    BY <1>8, <2>1, StageMoves DEF Works
  <2>3. src.stop \/ Promise!Foremost(r)
    <3> SUFFICES ASSUME ~src.stop PROVE Promise!Foremost(r)
      OBVIOUS
    <3>1. /\ src.state # "running"
          /\ \A i, j \in DOMAIN line : line[j] = r /\ i < j => StageOf(req[line[i]]) = "over"
      BY <1>8, ForemostBegins DEF Works
    <3>2. \A i \in DOMAIN line : line[i] \in Requests
      BY <1>0, Places
    <3> QED BY <3>1, <3>2 DEF Promise!Foremost
  <2> QED BY <1>8, <2>2, <2>3 DEF Works, Promise!Work
<1>9. ASSUME NEW r \in Requests, Closes(r) PROVE Promise!End(r)
  <2>1. StageOf(req'[r]) = "over"
    BY <1>9 DEF Closes, StageOf
  <2>2. CASE req[r].run = "working"
    <3>1. Promise!Moves(r, {"working"}, "over")
      <4>1. StageOf(req[r]) \in {"working"}
        BY <2>2 DEF StageOf
      <4> QED BY <1>9, <2>1, <4>1, StageMoves DEF Closes
    <3> QED BY <1>9, <3>1 DEF Closes, Promise!End
  <2>3. CASE req[r].run = "waiting" /\ req[r].cont = "cancelled"
    <3>1. Promise!Moves(r, {"sent"}, "over")
      <4>1. StageOf(req[r]) \in {"sent"}
        BY <2>3 DEF StageOf
      <4> QED BY <1>9, <2>1, <4>1, StageMoves DEF Closes
    <3>2. src.stop
      BY <2>3 DEF HandParts
    <3> QED BY <1>9, <3>1, <3>2 DEF Closes, Promise!End
  <2> QED BY <1>9, <2>2, <2>3 DEF Closes
<1>10. ASSUME NEW r \in Requests,
              \/ Promise!Enter(r) \/ Promise!Claim(r) \/ Promise!Release(r)
              \/ Promise!Work(r) \/ Promise!End(r)
       PROVE  Promise!PromiseNext
  BY <1>10 DEF Promise!PromiseNext
<1> QED BY <1>0, <1>1, <1>2, <1>3, <1>4, <1>5, <1>6, <1>7, <1>8, <1>9, <1>10, NextStages

\* A RESULT COMES BACK ONCE, IN TURN: the rows, locks, tasks and workflows of the
\* outbox implement ResultOutbox, whatever replies, acknowledgements and attempts
\* are lost, for any number of requests and deciders: a result is sent once, begun
\* when everything before it is over, and dropped only by a stop.
THEOREM OutboxIsKept == Spec => KeepsOutbox
<1>1. Init => Promise!PromiseInit
  <2> SUFFICES ASSUME Init PROVE Promise!PromiseInit
    OBVIOUS
  <2>1. \A r \in Requests : req[r] = NoRequest /\ holder[r] = "free"
    BY DEF Init
  <2>2. StageOf(NoRequest) = "none"
    BY DEF StageOf, NoRequest, None
  <2>3. [r \in Requests |-> StageOf(req[r])] = [r \in Requests |-> "none"]
    BY <2>1, <2>2
  <2>4. line = <<>> /\ src.stop = FALSE /\ src.state = "running"
    BY DEF Init
  <2> QED BY <2>1, <2>3, <2>4 DEF Promise!PromiseInit
<1>2. Init => HandParts
  BY DEF Init, HandParts, NoRequest, None
<1>3. QueueInv /\ HandParts /\ [Next]_vars
        => HandParts' /\ [Promise!PromiseNext]_(Promise!promiseVars)
  BY HandStep, StagesImplement
<1> QED BY <1>1, <1>2, <1>3, QueueHolds, PTL DEF Spec, KeepsOutbox, Promise!PromiseSpec

=============================================================================
