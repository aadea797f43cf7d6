------------------------ MODULE SandboxRunnerProofs ------------------------
(***************************************************************************)
(* What SandboxRunner promises, for any number of calls, dispatches and    *)
(* restarts: the ledger is the memory, a call gets one container, a disk   *)
(* one container at a time, and a row that is closed is over.              *)
(***************************************************************************)
EXTENDS SandboxRunner, WellFoundedInduction, FiniteSetTheorems, TLAPS

-----------------------------------------------------------------------------
(* Least and greatest.                                                     *)

\* Some stamps have an earliest one.
LEMMA Least ==
  ASSUME NEW T \in SUBSET Nat, T # {}
  PROVE  \E m \in T : \A u \in T : m <= u
<1> DEFINE R == OpToRel(<, Nat)
<1>1. IsWellFoundedOn(R, Nat)
  BY NatLessThanWellFounded
<1>2. \A x, y \in Nat : x < y => <<x, y>> \in R
  BY DEF OpToRel
<1> HIDE DEF R
<1>3. PICK m \in T : \A u \in T : <<u, m>> \notin R
  BY <1>1, WFMin
<1>4. ASSUME NEW u \in T PROVE m <= u
  <2>1. u \in Nat /\ m \in Nat
    OBVIOUS
  <2>2. ~(u < m)
    BY <1>2, <1>3, <2>1
  <2> QED BY <2>1, <2>2
<1> QED BY <1>4

\* Some stamps within a bound have a latest one.
LEMMA Greatest ==
  ASSUME NEW n \in Nat, NEW T \in SUBSET (0..n), T # {}
  PROVE  \E m \in T : \A u \in T : u <= m
<1> DEFINE D == {y \in Nat : \E x \in T : y = n - x}
<1>1. D \in SUBSET Nat /\ D # {}
  <2>1. PICK x \in T : TRUE
    OBVIOUS
  <2>2. x \in 0..n /\ n - x \in Nat
    BY <2>1
  <2>3. n - x \in D
    BY <2>2
  <2> QED BY <2>3
<1>2. PICK x \in D : \A y \in D : x <= y
  <2> HIDE DEF D
  <2> QED BY <1>1, Least
<1>3. PICK m \in T : x = n - m
  OBVIOUS
<1>4. ASSUME NEW u \in T PROVE u <= m
  <2>1. u \in 0..n /\ m \in 0..n /\ n - u \in D
    OBVIOUS
  <2>2. x <= n - u
    BY <1>2, <2>1
  <2> QED BY <1>3, <2>1, <2>2
<1> QED BY <1>4

\* Min and Max are the least and the greatest.
LEMMA MinIs ==
  ASSUME NEW T \in SUBSET Nat, T # {}
  PROVE  Min(T) \in T /\ \A u \in T : Min(T) <= u
<1>1. \E m \in T : \A u \in T : m <= u
  BY Least
<1> QED BY <1>1 DEF Min

\* The same of Max.
LEMMA MaxIs ==
  ASSUME NEW n \in Nat, NEW T \in SUBSET (0..n), T # {}
  PROVE  Max(T) \in T /\ \A u \in T : u <= Max(T)
<1>1. \E m \in T : \A u \in T : m >= u
  BY Greatest
<1> QED BY <1>1 DEF Max

-----------------------------------------------------------------------------
(* What the parts of a step do, field by field.                            *)

Horizon == MaxTime + Ahead
RunnerStages == {"queued", "preparing", "watching", "ended", "gaveup"}
Row == [at : Times, status : {"running", "closed"},
        code : {"none", "runner_error", "reported", "redispatch_unprovable",
                "reaped", "never_submitted", "outcome_forgotten"}]
Record == [at : Times, end : 0..(MaxTime + Timeout), cancel : BOOLEAN, stage : RunnerStages]

\* The bounds are numbers.
LEMMA Bounds ==
  /\ MaxTime \in Nat /\ Timeout \in Nat \ {0} /\ Grace \in Nat /\ Retention \in Nat
  /\ Skew \in Nat /\ Ahead \in Nat /\ Restarts \in Nat /\ Ahead <= Skew
  /\ Horizon \in Nat /\ Times = 0..Horizon
BY TimesAssumption, TimeoutAssumption, ClockAssumption DEF Times, Horizon

\* Rows and records, with the absent ones.
LEMMA Shapes ==
  /\ Rows = {NoRow} \cup Row /\ Records = {NoRecord} \cup Record
  /\ NoRow.at = 0 /\ NoRow.status = "none" /\ NoRecord.stage = "none"
  /\ \A x \in Row : x # NoRow /\ x.at \in Times
  /\ \A x \in Record : x # NoRecord /\ x.at \in Times /\ x.stage \in RunnerStages
  /\ \A x \in Rows : x.at \in Nat
BY Bounds DEF Rows, Row, Records, Record, NoRow, NoRecord, RunnerStages

\* A dispatch that its worker closes, or leaves running (_JobEvidence.closed).
LEMMA ConcludeDoes ==
  ASSUME TypeOK, NEW j \in Jobs, NEW status \in {"running", "closed"},
         NEW code \in {"none", "runner_error", "reported", "redispatch_unprovable"},
         Conclude(j, status, code)
  PROVE  /\ row' \in [Jobs -> Rows] /\ worker' \in [Jobs -> WorkerStages]
         /\ prior' \in [Jobs -> Times \cup {None}]
         /\ row'[j].at = row[j].at /\ row'[j].status = status /\ row'[j].code = code
         /\ row'[j] # NoRow
         /\ worker'[j] = "answered"
         /\ \A k \in Jobs \ {j} : row'[k] = row[k] /\ worker'[k] = worker[k] /\ prior'[k] = prior[k]
<1> DEFINE w == [row[j] EXCEPT !.status = status, !.code = code]
<1> DEFINE AnyRow == [at : Times, status : {"none", "running", "closed"},
                      code : {"none", "runner_error", "reported", "redispatch_unprovable",
                              "reaped", "never_submitted", "outcome_forgotten"}]
<1>1. row[j] \in AnyRow
  <2>1. row[j] \in {NoRow} \cup Row /\ 0 \in Times
    BY Shapes, Bounds DEF TypeOK
  <2>2. NoRow \in AnyRow
    BY <2>1 DEF NoRow
  <2>3. Row \subseteq AnyRow
    BY DEF Row
  <2> QED BY <2>1, <2>2, <2>3
<1>2. w \in Row /\ w.at = row[j].at /\ w.status = status /\ w.code = code
  BY <1>1 DEF Row
<1>3. row' = [row EXCEPT ![j] = w]
  BY DEF Conclude, TypeOK
<1> HIDE DEF w
<1>4. row' \in [Jobs -> Rows] /\ row'[j] = w /\ \A k \in Jobs \ {j} : row'[k] = row[k]
  BY <1>2, <1>3, Shapes DEF TypeOK
<1>5. /\ worker' \in [Jobs -> WorkerStages] /\ prior' \in [Jobs -> Times \cup {None}]
      /\ worker'[j] = "answered"
      /\ \A k \in Jobs \ {j} : worker'[k] = worker[k] /\ prior'[k] = prior[k]
  BY DEF Conclude, TypeOK, WorkerStages
<1> QED BY <1>2, <1>4, <1>5, Shapes

\* A job that ends keeps its stamp.
LEMMA EndDoes ==
  ASSUME TypeOK, NEW j \in Jobs, record[j] # NoRecord, record[j].at <= now,
         NEW stage \in {"ended", "gaveup"}, End(j, stage)
  PROVE  /\ record' \in [Jobs -> Records]
         /\ record'[j].at = record[j].at /\ record'[j].stage = stage /\ record'[j] # NoRecord
         /\ \A k \in Jobs \ {j} : record'[k] = record[k]
<1> DEFINE e == Max({now, record[j].at + Timeout})
           w == [record[j] EXCEPT !.stage = stage, !.end = e]
<1>0. record[j] \in Record /\ now \in 0..MaxTime
  BY Shapes DEF TypeOK
<1>1. e \in 0..(MaxTime + Timeout)
  <2> DEFINE d == record[j].at + Timeout
  <2>1. d \in 0..(MaxTime + Timeout) /\ now \in 0..(MaxTime + Timeout)
    BY <1>0, Bounds DEF Record
  <2>2. e = Max({now, d})
    OBVIOUS
  <2> HIDE DEF d, e
  <2>3. e \in {now, d}
    <3>1. {now, d} \in SUBSET (0..(MaxTime + Timeout)) /\ {now, d} # {}
      BY <2>1
    <3>2. MaxTime + Timeout \in Nat
      BY Bounds
    <3> QED BY <2>2, <3>1, <3>2, MaxIs
  <2> QED BY <2>1, <2>3
<1> HIDE DEF e
<1>2. w \in Record /\ w.at = record[j].at /\ w.stage = stage
  BY <1>0, <1>1 DEF Record, RunnerStages
<1>3. record' = [record EXCEPT ![j] = w]
  BY DEF End, TypeOK, e
<1> HIDE DEF w
<1> QED BY <1>2, <1>3, Shapes DEF TypeOK

\* What is forgotten has ended, and the watermark is past it (_forget_expired).
LEMMA ForgetDoes ==
  ASSUME TypeOK
  PROVE  /\ Kept \in [Jobs -> Records] /\ KeptLedger \in [Calls -> Jobs \cup {None}]
         /\ \A i \in Jobs : Kept[i] = IF i \in Dropped THEN NoRecord ELSE record[i]
         /\ \A c \in Calls : KeptLedger[c] = IF ledger[c] \in Dropped THEN None ELSE ledger[c]
         /\ \A i \in Dropped : Ended(i) /\ record[i] # NoRecord
         /\ Watermark \in Times \cup {None}
         /\ forgotten # None => Watermark # None /\ forgotten <= Watermark
         /\ \A i \in Dropped : ledger[i[1]] = i => Watermark # None /\ record[i].at <= Watermark
<1>0. /\ record \in [Jobs -> Records] /\ ledger \in [Calls -> Jobs \cup {None}]
      /\ forgotten \in Times \cup {None}
  BY DEF TypeOK
<1>1. Kept \in [Jobs -> Records]
      /\ \A i \in Jobs : Kept[i] = IF i \in Dropped THEN NoRecord ELSE record[i]
  BY <1>0, Shapes DEF Kept
<1>2. KeptLedger \in [Calls -> Jobs \cup {None}]
      /\ \A c \in Calls : KeptLedger[c] = IF ledger[c] \in Dropped THEN None ELSE ledger[c]
  BY <1>0 DEF KeptLedger
<1>3. \A i \in Dropped : i \in Jobs /\ Ended(i) /\ record[i] # NoRecord
  BY Shapes DEF Dropped, Forgettable, Ended
<1> DEFINE gone == {record[j].at : j \in {j \in Dropped : ledger[j[1]] = j}}
           known == gone \cup ({forgotten} \ {None})
<1>4. known \in SUBSET Times
  <2>1. \A i \in Dropped : record[i].at \in Times
    BY <1>0, <1>3, Shapes
  <2> QED BY <1>0, <2>1
<1>5. Watermark = IF known = {} THEN None ELSE Max(known)
  BY DEF Watermark
<1>6. forgotten # None => forgotten \in known
  OBVIOUS
<1>7. \A i \in Dropped : ledger[i[1]] = i => record[i].at \in known
  OBVIOUS
<1> HIDE DEF known
<1>8. CASE known = {}
  BY <1>1, <1>2, <1>3, <1>5, <1>6, <1>7, <1>8
<1>9. CASE known # {}
  <2>1. Max(known) \in known /\ \A u \in known : u <= Max(known)
    BY <1>4, <1>9, MaxIs, Bounds
  <2>2. Watermark # None
    BY <1>4, <1>5, <1>9, <2>1, JobsAssumption, Bounds
  <2> QED BY <1>1, <1>2, <1>3, <1>4, <1>5, <1>6, <1>7, <1>9, <2>1, <2>2
<1> QED BY <1>8, <1>9

\* The memory reaches back to the process's start and to the newest dispatch it
\* has forgotten (_remembering_since).
LEMMA RememberingIs ==
  ASSUME TypeOK
  PROVE  /\ RememberingSince \in Nat /\ since <= RememberingSince
         /\ Watermark # None => Watermark <= RememberingSince
<1> DEFINE T == {since} \cup ({Watermark} \ {None})
<1>1. Watermark \in Times \cup {None} /\ since \in Times
  BY ForgetDoes DEF TypeOK
<1>2. T \in SUBSET (0..Horizon) /\ T # {} /\ since \in T /\ (Watermark # None => Watermark \in T)
  BY <1>1, Bounds
<1>3. RememberingSince = Max(T)
  BY DEF RememberingSince
<1> HIDE DEF T
<1>4. Max(T) \in T /\ \A u \in T : u <= Max(T)
  BY <1>2, MaxIs, Bounds
<1>5. RememberingSince \in T /\ \A u \in T : u <= RememberingSince
  BY <1>3, <1>4
<1>6. RememberingSince \in 0..Horizon
  BY <1>2, <1>5
<1>7. RememberingSince \in Nat
  BY <1>6, Bounds
<1>8. since <= RememberingSince
  BY <1>2, <1>5
<1>9. Watermark # None => Watermark <= RememberingSince
  BY <1>2, <1>5
<1> QED BY <1>7, <1>8, <1>9

-----------------------------------------------------------------------------
(* Types, and the stamps they rest on.                                     *)

\* How far a dispatch has come, on both sides.
FitsAt(j) ==
  /\ worker[j] \in {"none", "submitting"} => record[j] = NoRecord /\ container[j] = "none"
  /\ record[j].stage \in {"queued", "preparing"} => container[j] = "none"
  /\ worker[j] = "polling" => follows[j] \in Jobs
  /\ record[j] # NoRecord \/ container[j] # "none" => follows[j] = j /\ row[j] # NoRow
  /\ worker[j] = "none" => row[j] = NoRow
  /\ worker[j] \in {"submitting", "polling"} => row[j] # NoRow
Fits == \A j \in Jobs : FitsAt(j)

\* A row that still runs says at most that its runner was lost.
Coded ==
  \A j \in Jobs : row[j].status = "running" => row[j].code \in {"none", "runner_error"}

\* Nothing is stamped with a time that has not come.
Stamps ==
  /\ since <= now
  /\ \A j \in Jobs : row[j] # NoRow => row[j].at <= now + Ahead
  /\ \A j \in Jobs : record[j] # NoRecord => record[j].at <= now /\ row[j].at <= record[j].at + Ahead

Base == TypeOK /\ Fits /\ Coded /\ Stamps

WorkerTypes ==
  /\ worker \in [Jobs -> WorkerStages] /\ prior \in [Jobs -> Times \cup {None}]
  /\ row \in [Jobs -> Rows] /\ follows \in [Jobs -> Jobs \cup {None}]
MemoryTypes ==
  /\ serving \in BOOLEAN /\ since \in Times /\ forgotten \in Times \cup {None}
  /\ record \in [Jobs -> Records] /\ ledger \in [Calls -> Jobs \cup {None}]
  /\ holder \in Jobs \cup {None} /\ stops \in 0..Restarts
WorldTypes ==
  now \in 0..MaxTime /\ container \in [Jobs -> {"none", "running", "gone"}]

\* A new row carries the time, and what the history said of the call.
LEMMA DispatchDoes ==
  ASSUME TypeOK, NEW j \in Jobs, Dispatch(j)
  PROVE  /\ WorkerTypes'
         /\ \A k \in Jobs \ {j} : row'[k] = row[k] /\ worker'[k] = worker[k] /\ prior'[k] = prior[k]
         /\ \/ /\ worker'[j] = "submitting" /\ row'[j] # NoRow /\ row'[j].at = now + Ahead
               /\ row'[j].status = "running" /\ row'[j].code = "none"
               /\ \A k \in Siblings(j) : row[k] # NoRow => prior'[j] # None /\ prior'[j] <= row[k].at
            \/ worker'[j] = "answered" /\ row'[j] = row[j]
<1>0. WorkerTypes /\ now \in 0..MaxTime
  BY DEF TypeOK, WorkerTypes
<1>1. now + Ahead \in Times
  BY <1>0, Bounds DEF Horizon
<1> DEFINE stamps == {row[k].at : k \in {k \in Siblings(j) : row[k] # NoRow}}
           fresh == [at |-> now + Ahead, status |-> "running", code |-> "none"]
<1>2. fresh \in Row /\ fresh.at = now + Ahead /\ fresh.status = "running"
      /\ fresh.code = "none" /\ fresh # NoRow
  <2>1. fresh \in Row /\ fresh.at = now + Ahead /\ fresh.status = "running" /\ fresh.code = "none"
    BY <1>1 DEF Row
  <2> QED BY <2>1, Shapes
<1>3. stamps \in SUBSET Times
  BY <1>0, Shapes DEF WorkerTypes, Siblings
<1>4. Earlier(j) = IF stamps = {} THEN None ELSE Min(stamps)
  BY DEF Earlier
<1>5. \A k \in Siblings(j) : row[k] # NoRow => row[k].at \in stamps
  OBVIOUS
<1> HIDE DEF stamps, fresh
<1>6. Earlier(j) \in Times \cup {None} /\ \A k \in stamps : Earlier(j) # None /\ Earlier(j) <= k
  <2>1. CASE stamps = {}
    BY <1>4, <2>1
  <2>2. CASE stamps # {}
    <3>1. stamps \in SUBSET Nat
      BY <1>3, Bounds
    <3>2. Min(stamps) \in stamps /\ \A u \in stamps : Min(stamps) <= u
      BY <2>2, <3>1, MinIs
    <3>3. Min(stamps) # None
      BY <3>1, <3>2, JobsAssumption
    <3> QED BY <1>3, <1>4, <2>2, <3>2, <3>3
  <2> QED BY <2>1, <2>2
<1>7. CASE /\ prior' = [prior EXCEPT ![j] = Earlier(j)] /\ row' = [row EXCEPT ![j] = fresh]
           /\ worker' = [worker EXCEPT ![j] = "submitting"] /\ follows' = follows
  <2>1. WorkerTypes'
    BY <1>0, <1>2, <1>6, <1>7, Shapes DEF WorkerTypes, WorkerStages
  <2> QED BY <1>0, <1>2, <1>5, <1>6, <1>7, <2>1 DEF WorkerTypes
<1>8. CASE worker' = [worker EXCEPT ![j] = "answered"] /\ UNCHANGED <<prior, row, follows>>
  BY <1>0, <1>8 DEF WorkerTypes, WorkerStages
<1> QED BY <1>7, <1>8 DEF Dispatch, fresh

-----------------------------------------------------------------------------
(* A step of a job, of a submission, of a sweep.                           *)

\* A job's record goes to a stage and keeps the rest that is compared.
Moves(j, s) ==
  /\ record' \in [Jobs -> Records]
  /\ record'[j].at = record[j].at /\ record'[j].stage = s
  /\ record[j] # NoRecord /\ record'[j] # NoRecord
  /\ \A k \in Jobs \ {j} : record'[k] = record[k]

LetGo(j) == holder' = IF holder = j THEN None ELSE holder

\* What the runner's task does with its job (JobManager._run).
JobMoves(j) ==
  /\ serving
  /\ UNCHANGED <<now, worker, prior, row, follows, serving, since, forgotten, stops, sweep>>
  /\ \/ /\ record[j].stage = "queued" /\ Moves(j, "preparing")
        /\ holder \in {None, j} /\ holder' = j /\ UNCHANGED <<ledger, container>>
     \/ /\ record[j].stage = "queued" /\ Moves(j, "gaveup")
        /\ ledger' = WithoutDispatch(j) /\ UNCHANGED <<holder, container>>
     \/ /\ record[j].stage = "preparing" /\ Moves(j, "ended")
        /\ LetGo(j) /\ UNCHANGED <<ledger, container>>
     \/ /\ record[j].stage = "preparing" /\ Moves(j, "watching")
        /\ container' = [container EXCEPT ![j] = "running"] /\ UNCHANGED <<ledger, holder>>
     \/ /\ record[j].stage = "watching" /\ Moves(j, "ended")
        /\ container' = [container EXCEPT ![j] = "gone"] /\ LetGo(j) /\ UNCHANGED ledger
     \/ /\ "docker" \in Faults /\ record[j].stage = "watching" /\ Moves(j, "ended")
        /\ LetGo(j) /\ UNCHANGED <<ledger, container>>

\* A stage set in the record is a move.
LEMMA StageDoes ==
  ASSUME TypeOK, NEW j \in Jobs, record[j] # NoRecord, NEW s \in RunnerStages,
         record' = [record EXCEPT ![j].stage = s]
  PROVE  Moves(j, s)
<1> DEFINE w == [record[j] EXCEPT !.stage = s]
<1>1. record[j] \in Record
  BY Shapes DEF TypeOK
<1>2. w \in Record /\ w.at = record[j].at /\ w.stage = s
  BY <1>1 DEF Record
<1>3. record' = [record EXCEPT ![j] = w]
  BY DEF TypeOK
<1> HIDE DEF w
<1> QED BY <1>2, <1>3, Shapes DEF TypeOK, Moves

\* So is an ending.
LEMMA EndMoves ==
  ASSUME Base, NEW j \in Jobs, record[j] # NoRecord,
         NEW stage \in {"ended", "gaveup"}, End(j, stage)
  PROVE  Moves(j, stage)
<1>1. TypeOK /\ record[j].at <= now
  BY DEF Base, Stamps
<1> QED BY <1>1, EndDoes DEF Moves

\* Every step of a runner's task is one of these.
LEMMA JobStepDoes ==
  ASSUME Base, NEW j \in Jobs, JobStep(j) \/ CollectFails(j)
  PROVE  JobMoves(j)
<1>0. TypeOK /\ (record[j].stage # "none" => record[j] # NoRecord)
      /\ {"preparing", "watching"} \subseteq RunnerStages
  BY Shapes DEF Base, RunnerStages
<1>1. CASE Hold(j)
  <2>1. record[j] # NoRecord
    BY <1>0, <1>1 DEF Hold
  <2>2. record' = [record EXCEPT ![j].stage = "preparing"]
    BY <1>1 DEF Hold
  <2>3. Moves(j, "preparing")
    BY <1>0, <2>1, <2>2, StageDoes
  <2> QED BY <1>1, <2>3 DEF Hold, JobMoves, wvars
<1>2. CASE GiveUp(j)
  <2>1. record[j] # NoRecord /\ End(j, "gaveup")
    BY <1>0, <1>2 DEF GiveUp
  <2>2. Moves(j, "gaveup")
    BY <2>1, EndMoves
  <2> QED BY <1>2, <2>2 DEF GiveUp, JobMoves, wvars
<1>3. CASE PrepareFails(j)
  <2>1. record[j] # NoRecord /\ End(j, "ended")
    BY <1>0, <1>3 DEF PrepareFails
  <2>2. Moves(j, "ended")
    BY <2>1, EndMoves
  <2> QED BY <1>3, <2>2 DEF PrepareFails, JobMoves, LetGo, wvars
<1>4. CASE StartContainer(j)
  <2>1. record[j] # NoRecord
    BY <1>0, <1>4 DEF StartContainer
  <2>2. record' = [record EXCEPT ![j].stage = "watching"]
    BY <1>4 DEF StartContainer
  <2>3. Moves(j, "watching")
    BY <1>0, <2>1, <2>2, StageDoes
  <2> QED BY <1>4, <2>3 DEF StartContainer, JobMoves, wvars
<1>5. CASE Collect(j)
  <2>1. record[j] # NoRecord /\ End(j, "ended")
    BY <1>0, <1>5 DEF Collect
  <2>2. Moves(j, "ended")
    BY <2>1, EndMoves
  <2> QED BY <1>5, <2>2 DEF Collect, JobMoves, LetGo, wvars
<1>6. CASE CollectFails(j)
  <2>1. record[j] # NoRecord /\ End(j, "ended")
    BY <1>0, <1>6 DEF CollectFails
  <2>2. Moves(j, "ended")
    BY <2>1, EndMoves
  <2> QED BY <1>6, <2>2 DEF CollectFails, JobMoves, LetGo, wvars
<1> QED BY <1>1, <1>2, <1>3, <1>4, <1>5, <1>6 DEF JobStep

\* What a worker's ending leaves (Conclude), whatever it was told.
Concludes(j, status, code) ==
  /\ WorkerTypes'
  /\ row'[j].at = row[j].at /\ row'[j].status = status /\ row'[j].code = code
  /\ row'[j] # NoRow /\ worker'[j] = "answered"
  /\ \A k \in Jobs \ {j} : row'[k] = row[k] /\ worker'[k] = worker[k] /\ prior'[k] = prior[k]

\* A dispatch whose runner is known.
Follows(j, f) ==
  /\ WorkerTypes' /\ row' = row /\ worker'[j] = "polling"
  /\ \A k \in Jobs \ {j} : worker'[k] = worker[k] /\ prior'[k] = prior[k] /\ follows'[k] = follows[k]
  /\ f \in Jobs /\ follows'[j] = f

\* The four outcomes of a submission (POST /v1/jobs).
Submits(j) ==
  /\ worker[j] = "submitting"
  /\ UNCHANGED <<now, container, sweep, serving, since, holder, stops>>
  /\ \/ /\ ~serving /\ Concludes(j, "running", "runner_error")
        /\ UNCHANGED <<follows, forgotten, record, ledger>>
     \/ /\ serving /\ forgotten' = Watermark /\ record' = Kept /\ ledger' = KeptLedger
        /\ KeptLedger[j[1]] # None /\ Follows(j, KeptLedger[j[1]])
     \/ /\ serving /\ forgotten' = Watermark /\ record' = Kept /\ ledger' = KeptLedger
        /\ Concludes(j, "closed", "redispatch_unprovable") /\ UNCHANGED follows
     \/ /\ serving /\ forgotten' = Watermark /\ KeptLedger[j[1]] = None /\ ~Unaccountable(j)
        /\ Follows(j, j)
        /\ record' \in [Jobs -> Records] /\ record'[j] # NoRecord
        /\ record'[j].at = now /\ record'[j].stage = "queued"
        /\ \A k \in Jobs \ {j} : record'[k] = Kept[k]
        /\ ledger' = [KeptLedger EXCEPT ![j[1]] = j]

\* Every submission has one of these outcomes.
LEMMA SubmitDoes ==
  ASSUME TypeOK, NEW j \in Jobs, Submit(j)
  PROVE  Submits(j)
<1>0. /\ WorkerTypes /\ now \in 0..MaxTime /\ Kept \in [Jobs -> Records]
      /\ KeptLedger \in [Calls -> Jobs \cup {None}] /\ j[1] \in Calls
  BY ForgetDoes DEF TypeOK, WorkerTypes, Calls
<1>1. ASSUME NEW status \in {"running", "closed"}, NEW code \in {"runner_error", "redispatch_unprovable"},
             Conclude(j, status, code), UNCHANGED follows
      PROVE  Concludes(j, status, code)
  BY <1>0, <1>1, ConcludeDoes DEF Concludes, WorkerTypes
<1>2. ASSUME NEW f \in Jobs, follows' = [follows EXCEPT ![j] = f],
             worker' = [worker EXCEPT ![j] = "polling"], prior' = [prior EXCEPT ![j] = None],
             UNCHANGED row
      PROVE  Follows(j, f)
  BY <1>0, <1>2 DEF Follows, WorkerTypes, WorkerStages
<1>3. CASE ~serving /\ Uncertain(j) /\ UNCHANGED <<follows, rvars>>
  <2>1. Concludes(j, "running", "runner_error")
    BY <1>1, <1>3 DEF Uncertain
  <2> QED BY <1>3, <2>1 DEF Submits, Submit, rvars
<1>4. CASE serving /\ Attach(j) /\ forgotten' = Watermark /\ UNCHANGED <<serving, since, holder, stops>>
  <2>1. KeptLedger[j[1]] \in Jobs
    BY <1>0, <1>4 DEF Attach
  <2>2. Follows(j, KeptLedger[j[1]])
    BY <1>2, <1>4, <2>1 DEF Attach
  <2> QED BY <1>4, <2>2 DEF Submits, Submit, Attach
<1>5. CASE serving /\ Refuse(j) /\ forgotten' = Watermark /\ UNCHANGED <<serving, since, holder, stops>>
  <2>1. Concludes(j, "closed", "redispatch_unprovable")
    BY <1>1, <1>5 DEF Refuse
  <2> QED BY <1>5, <2>1 DEF Submits, Submit, Refuse
<1>6. CASE serving /\ Accept(j) /\ forgotten' = Watermark /\ UNCHANGED <<serving, since, holder, stops>>
  <2>1. Follows(j, j)
    BY <1>2, <1>6 DEF Accept
  <2> DEFINE w == [at |-> now, stage |-> "queued", end |-> now, cancel |-> FALSE]
  <2>2. w \in Record /\ w.at = now /\ w.stage = "queued"
    BY <1>0, Bounds DEF Record, RunnerStages, Horizon
  <2>3. record' = [Kept EXCEPT ![j] = w]
    BY <1>6 DEF Accept
  <2> HIDE DEF w
  <2>4. /\ record' \in [Jobs -> Records] /\ record'[j] # NoRecord
        /\ record'[j].at = now /\ record'[j].stage = "queued"
        /\ \A k \in Jobs \ {j} : record'[k] = Kept[k]
    BY <1>0, <2>2, <2>3, Shapes
  <2> QED BY <1>6, <2>1, <2>4 DEF Submits, Submit, Accept
<1> QED BY <1>3, <1>4, <1>5, <1>6 DEF Submit

\* A poll that ends the dispatch (GET /v1/jobs/{id}).
Polls(j) ==
  /\ worker[j] = "polling"
  /\ UNCHANGED <<now, follows, serving, since, forgotten, record, ledger, holder, stops, container, sweep>>
  /\ \/ Concludes(j, "running", "runner_error")
     \/ serving /\ Ended(follows[j]) /\ Concludes(j, "closed", "reported")

\* A client that gives up on the job it follows.
Expires(j) ==
  /\ worker[j] = "polling" /\ serving /\ Concludes(j, "running", "runner_error")
  /\ UNCHANGED <<now, follows, serving, since, forgotten, ledger, holder, stops, sweep>>
  /\ ~Ended(follows[j]) /\ Moves(follows[j], record[follows[j]].stage)
  /\ container' \in [Jobs -> {"none", "running", "gone"}]
  /\ \A k \in Jobs : container'[k] = container[k] \/ (container[k] = "running" /\ container'[k] = "gone")

\* The end of a sweep closes its row, or leaves it.
SweepEnds ==
  /\ sweep # NoSweep /\ sweep.job \in Jobs /\ sweep' = NoSweep
  /\ UNCHANGED <<now, worker, prior, follows, serving, since, forgotten, record, ledger, holder,
                 stops, container>>
  /\ row' \in [Jobs -> Rows]
  /\ \/ row' = row
     \/ /\ serving /\ (record[sweep.job] = NoRecord \/ Ended(sweep.job))
        /\ row[sweep.job].status = "running"
        /\ row'[sweep.job].at = row[sweep.job].at /\ row'[sweep.job].status = "closed"
        /\ row'[sweep.job] # NoRow
        /\ \A k \in Jobs \ {sweep.job} : row'[k] = row[k]

\* Every poll is one of these.
LEMMA PollDoes ==
  ASSUME TypeOK, NEW j \in Jobs, Poll(j)
  PROVE  Polls(j)
<1>1. ASSUME NEW status \in {"running", "closed"}, NEW code \in {"runner_error", "reported"},
             Conclude(j, status, code), UNCHANGED follows
      PROVE  Concludes(j, status, code)
  BY <1>1, ConcludeDoes DEF Concludes, WorkerTypes, TypeOK
<1>2. UNCHANGED follows /\ (Uncertain(j) \/ (serving /\ Ended(follows[j]) /\ Conclude(j, "closed", "reported")))
  BY DEF Poll
<1>3. Concludes(j, "running", "runner_error")
        \/ (serving /\ Ended(follows[j]) /\ Concludes(j, "closed", "reported"))
  BY <1>1, <1>2 DEF Uncertain
<1> QED BY <1>3 DEF Polls, Poll, rvars

\* A client gives up on a job that is there.
LEMMA ExpireDoes ==
  ASSUME Base, NEW j \in Jobs, Expire(j)
  PROVE  Expires(j)
<1>0. TypeOK /\ follows[j] \in Jobs
  BY DEF Base, Fits, FitsAt, Expire
<1>1. Conclude(j, "running", "runner_error") /\ UNCHANGED follows
  BY DEF Expire, Uncertain
<1>2. Concludes(j, "running", "runner_error")
  BY <1>0, <1>1, ConcludeDoes DEF Concludes, WorkerTypes, TypeOK
<1>3. PICK f \in Jobs : f = follows[j]
  BY <1>0
<1>4. record[f] \in Record
  BY <1>0, <1>3, Shapes DEF TypeOK, Expire
<1> DEFINE w == [record[f] EXCEPT !.cancel = TRUE]
<1>5. w \in Record /\ w.at = record[f].at /\ w.stage = record[f].stage
  BY <1>4 DEF Record
<1>6. record' = [record EXCEPT ![f] = w]
  BY <1>0, <1>3 DEF TypeOK, Expire
<1> HIDE DEF w
<1>7. Moves(f, record[f].stage)
  BY <1>0, <1>4, <1>5, <1>6, Shapes DEF TypeOK, Moves
<1>8. /\ container' \in [Jobs -> {"none", "running", "gone"}]
      /\ \A k \in Jobs : container'[k] = container[k] \/ (container[k] = "running" /\ container'[k] = "gone")
  BY <1>0, <1>3 DEF TypeOK, Expire
<1> QED BY <1>2, <1>3, <1>7, <1>8 DEF Expires, Expire

\* The sweep closes what has no job any more.
LEMMA SweepEndDoes ==
  ASSUME TypeOK, SweepEnd
  PROVE  SweepEnds
<1>1. sweep # NoSweep /\ sweep.job \in Jobs /\ sweep.code \in {"none", "runner_error"}
  BY DEF TypeOK, SweepEnd, Sweeps
<1>2. PICK j \in Jobs : j = sweep.job
  BY <1>1
<1>3. row \in [Jobs -> Rows]
  BY DEF TypeOK
<1>4. CASE row' = row
  BY <1>1, <1>3, <1>4 DEF SweepEnds, SweepEnd, rvars
<1>5. ASSUME NEW code \in {"reaped", "never_submitted", "outcome_forgotten", "reported"},
             SweepCloses(j, code), row' # row
      PROVE  /\ row' \in [Jobs -> Rows] /\ row[j].status = "running"
             /\ row'[j].at = row[j].at /\ row'[j].status = "closed" /\ row'[j] # NoRow
             /\ \A k \in Jobs \ {j} : row'[k] = row[k]
  <2>1. row[j].status = "running" /\ row' = [row EXCEPT ![j].status = "closed", ![j].code = code]
    BY <1>5 DEF SweepCloses
  <2>2. row[j] \in Row
    BY <1>3, <2>1, Shapes
  <2> DEFINE w == [row[j] EXCEPT !.status = "closed", !.code = code]
  <2>3. w \in Row /\ w.at = row[j].at /\ w.status = "closed"
    BY <2>2 DEF Row
  <2>4. row' = [row EXCEPT ![j] = w]
    BY <1>3, <2>1
  <2> HIDE DEF w
  <2> QED BY <1>3, <2>1, <2>3, <2>4, Shapes
<1>6. CASE row' # row
  <2>1. Absence \in {"reaped", "never_submitted", "outcome_forgotten"}
    BY DEF Absence
  <2>2. /\ serving /\ (record[j] = NoRecord \/ Ended(j))
        /\ SweepCloses(j, Absence) \/ SweepCloses(j, "reported")
    BY <1>2, <1>6 DEF SweepEnd
  <2>3. /\ row' \in [Jobs -> Rows] /\ row[j].status = "running"
        /\ row'[j].at = row[j].at /\ row'[j].status = "closed" /\ row'[j] # NoRow
        /\ \A k \in Jobs \ {j} : row'[k] = row[k]
    BY <1>5, <1>6, <2>1, <2>2
  <2> QED BY <1>1, <1>2, <2>2, <2>3 DEF SweepEnds, SweepEnd, rvars
<1> QED BY <1>4, <1>6

-----------------------------------------------------------------------------
(* The steps, and the types they keep.                                     *)

\* A process that stops, dying or closed.
Stops ==
  /\ serving /\ serving' = FALSE /\ record' = [j \in Jobs |-> NoRecord] /\ ledger' = [c \in Calls |-> None]
  /\ holder' = None /\ forgotten' = None /\ stops' \in 0..Restarts
  /\ UNCHANGED <<now, worker, prior, row, follows, since, sweep>>
  /\ container' \in [Jobs -> {"none", "running", "gone"}]
  /\ \A k \in Jobs : container'[k] = container[k] \/ (container[k] = "running" /\ container'[k] = "gone")

\* Every step, by what it does.
LEMMA StepDoes ==
  ASSUME Base, [Next]_vars
  PROVE  \/ \E j \in Jobs : Dispatch(j)
         \/ \E j \in Jobs : Submits(j)
         \/ \E j \in Jobs : Polls(j)
         \/ \E j \in Jobs : Expires(j)
         \/ \E j \in Jobs : WorkerDies(j)
         \/ \E j \in Jobs : JobMoves(j)
         \/ \E j \in Jobs : SweepBegin(j)
         \/ SweepEnds \/ Stops \/ Start \/ Tick \/ UNCHANGED vars
<1>0. TypeOK /\ Restarts \in Nat
  BY Bounds DEF Base
<1>1. ASSUME Crash \/ Close PROVE Stops
  <2>1. stops' \in 0..Restarts
    BY <1>0, <1>1 DEF TypeOK, Crash, Close, Stop
  <2>2. CASE Crash
    BY <1>0, <2>1, <2>2 DEF TypeOK, Crash, Stop, Stops, wvars
  <2>3. CASE Close
    BY <1>0, <2>1, <2>3 DEF TypeOK, Close, Stop, Stops, wvars
  <2> QED BY <1>1, <2>2, <2>3
<1>2. ASSUME NEW j \in Jobs, Submit(j) PROVE Submits(j)
  BY <1>0, <1>2, SubmitDoes
<1>3. ASSUME NEW j \in Jobs, Poll(j) PROVE Polls(j)
  BY <1>0, <1>3, PollDoes
<1>4. ASSUME NEW j \in Jobs, Expire(j) PROVE Expires(j)
  BY <1>4, ExpireDoes
<1>5. ASSUME NEW j \in Jobs, JobStep(j) \/ CollectFails(j) PROVE JobMoves(j)
  BY <1>5, JobStepDoes
<1>6. ASSUME SweepEnd PROVE SweepEnds
  BY <1>0, <1>6, SweepEndDoes
<1> QED BY <1>1, <1>2, <1>3, <1>4, <1>5, <1>6 DEF Next

\* What one step leaves of the types.
LEMMA TypesKept ==
  ASSUME Base, [Next]_vars
  PROVE  TypeOK'
<1> DEFINE T == WorkerTypes /\ MemoryTypes /\ WorldTypes /\ sweep \in Sweeps
<1>0. TypeOK <=> T
  BY DEF TypeOK, WorkerTypes, MemoryTypes, WorldTypes
<1>1. TypeOK' <=> T'
  BY DEF TypeOK, WorkerTypes, MemoryTypes, WorldTypes
<1>2. /\ WorkerTypes /\ MemoryTypes /\ WorldTypes /\ sweep \in Sweeps /\ Base
      /\ NoSweep \in Sweeps /\ NoRecord \in Records
  BY <1>0, Shapes DEF Base, Sweeps
<1>3. ASSUME NEW j \in Jobs, Dispatch(j) PROVE T'
  <2>1. WorkerTypes'
    BY <1>2, <1>3, DispatchDoes DEF Base
  <2> QED BY <1>2, <1>3, <2>1 DEF Dispatch, rvars, MemoryTypes, WorldTypes
<1>4. ASSUME NEW j \in Jobs, Submits(j) PROVE T'
  <2>1. WorkerTypes'
    BY <1>2, <1>4 DEF Submits, Concludes, Follows
  <2>2. MemoryTypes'
    <3>1. /\ Kept \in [Jobs -> Records] /\ KeptLedger \in [Calls -> Jobs \cup {None}]
          /\ Watermark \in Times \cup {None}
      BY <1>0, <1>2, ForgetDoes
    <3> QED BY <1>2, <1>4, <3>1 DEF Submits, MemoryTypes
  <2> QED BY <1>2, <1>4, <2>1, <2>2 DEF Submits, WorldTypes
<1>5. ASSUME NEW j \in Jobs, Polls(j) PROVE T'
  BY <1>2, <1>5 DEF Polls, Concludes, MemoryTypes, WorldTypes
<1>6. ASSUME NEW j \in Jobs, Expires(j) PROVE T'
  BY <1>2, <1>6 DEF Expires, Moves, Concludes, MemoryTypes, WorldTypes
<1>7. ASSUME NEW j \in Jobs, WorkerDies(j) PROVE T'
  <2>1. WorkerTypes'
    BY <1>2, <1>7 DEF WorkerDies, WorkerTypes, WorkerStages
  <2> QED BY <1>2, <1>7, <2>1 DEF WorkerDies, rvars, MemoryTypes, WorldTypes
<1>8. ASSUME NEW j \in Jobs, JobMoves(j) PROVE T'
  <2>1. WorkerTypes' /\ sweep' \in Sweeps
    BY <1>2, <1>8 DEF JobMoves, WorkerTypes
  <2>2. record' \in [Jobs -> Records]
    BY <1>8 DEF JobMoves, Moves
  <2>3. container' \in [Jobs -> {"none", "running", "gone"}] /\ now' \in 0..MaxTime
    BY <1>2, <1>8 DEF JobMoves, WorldTypes
  <2>4. ledger' \in [Calls -> Jobs \cup {None}] /\ holder' \in Jobs \cup {None}
    BY <1>2, <1>8 DEF JobMoves, MemoryTypes, WithoutDispatch, LetGo
  <2> QED BY <1>2, <1>8, <2>1, <2>2, <2>3, <2>4 DEF JobMoves, MemoryTypes, WorldTypes
<1>9. ASSUME NEW j \in Jobs, SweepBegin(j) PROVE T'
  <2>1. /\ row[j].code \in {"none", "runner_error"} /\ now + Ahead \in Times
        /\ (IF serving THEN since ELSE None) \in Times \cup {None}
    BY <1>2, <1>9, Bounds DEF SweepBegin, Overdue, Base, Coded, WorldTypes, MemoryTypes, Horizon
  <2>2. sweep' \in Sweeps
    BY <1>9, <2>1 DEF SweepBegin, Sweeps
  <2> QED BY <1>2, <1>9, <2>2 DEF SweepBegin, wvars, rvars, WorkerTypes, MemoryTypes, WorldTypes
<1>10. ASSUME SweepEnds PROVE T'
  BY <1>2, <1>10 DEF SweepEnds, WorkerTypes, MemoryTypes, WorldTypes
<1>11. ASSUME Stops PROVE T'
  <2>1. WorkerTypes' /\ WorldTypes' /\ sweep' \in Sweeps
    BY <1>2, <1>11 DEF Stops, WorkerTypes, WorldTypes
  <2>2. record' \in [Jobs -> Records]
    BY <1>2, <1>11 DEF Stops
  <2>3. ledger' \in [Calls -> Jobs \cup {None}]
    BY <1>11 DEF Stops
  <2>4. MemoryTypes'
    BY <1>2, <1>11, <2>2, <2>3 DEF Stops, MemoryTypes
  <2> QED BY <2>1, <2>4
<1>12. ASSUME Start PROVE T'
  <2>1. container' \in [Jobs -> {"none", "running", "gone"}] /\ since' \in Times
    BY <1>2, <1>12, Bounds DEF Start, WorldTypes, Horizon
  <2> QED BY <1>2, <1>12, <2>1 DEF Start, wvars, WorkerTypes, MemoryTypes, WorldTypes
<1>13. ASSUME Tick PROVE T'
  <2>1. now' \in 0..MaxTime
    BY <1>2, <1>13, Bounds DEF Tick, WorldTypes
  <2> QED BY <1>2, <1>13, <2>1 DEF Tick, wvars, rvars, WorkerTypes, MemoryTypes, WorldTypes
<1>14. ASSUME UNCHANGED vars PROVE T'
  BY <1>2, <1>14 DEF vars, wvars, rvars, WorkerTypes, MemoryTypes, WorldTypes
<1> HIDE DEF T
<1> QED BY <1>1, <1>3, <1>4, <1>5, <1>6, <1>7, <1>8, <1>9, <1>10, <1>11, <1>12, <1>13, <1>14, StepDoes

\* Both sides of a dispatch stay in step.
LEMMA FitsKept ==
  ASSUME Base, [Next]_vars
  PROVE  Fits'
<1> SUFFICES ASSUME NEW k \in Jobs PROVE FitsAt(k)'
  BY DEF Fits
<1>0. /\ TypeOK /\ FitsAt(k) /\ NoRecord.stage = "none"
      /\ (record[k].stage # "none" => record[k] # NoRecord)
  BY Shapes DEF Base, Fits
<1>1. /\ worker \in [Jobs -> WorkerStages] /\ row \in [Jobs -> Rows] /\ record \in [Jobs -> Records]
      /\ container \in [Jobs -> {"none", "running", "gone"}]
  BY <1>0 DEF TypeOK
<1>2. ASSUME worker'[k] = worker[k], row'[k] = row[k], follows'[k] = follows[k],
             record'[k] = record[k] \/ record'[k] = NoRecord,
             container'[k] = container[k] \/ (container[k] # "none" /\ container'[k] # "none")
      PROVE  FitsAt(k)'
  BY <1>0, <1>2 DEF FitsAt
<1>3. ASSUME NEW j \in Jobs, Dispatch(j) PROVE FitsAt(k)'
  <2>1. /\ worker[j] = "none" /\ UNCHANGED <<follows, record, container>>
        /\ \A i \in Jobs \ {j} : row'[i] = row[i] /\ worker'[i] = worker[i]
        /\ \/ worker'[j] = "submitting" /\ row'[j] # NoRow
           \/ worker'[j] = "answered" /\ row'[j] = row[j]
    BY <1>0, <1>3, DispatchDoes DEF Dispatch, rvars
  <2>2. CASE k = j
    BY <1>0, <2>1, <2>2 DEF FitsAt
  <2>3. CASE k # j
    BY <1>2, <2>1, <2>3
  <2> QED BY <2>2, <2>3
<1>4. ASSUME NEW j \in Jobs, Submits(j) PROVE FitsAt(k)'
  <2>1. /\ worker[j] = "submitting" /\ UNCHANGED container
        /\ \A i \in Jobs \ {j} : /\ row'[i] = row[i] /\ worker'[i] = worker[i] /\ follows'[i] = follows[i]
                                 /\ record'[i] = record[i] \/ record'[i] = NoRecord
    BY <1>0, <1>4, ForgetDoes DEF Submits, Concludes, Follows
  <2>2. /\ row'[j] # NoRow \/ row'[j] = row[j]
        /\ \/ worker'[j] = "answered" /\ follows'[j] = follows[j] /\ record'[j] \in {record[j], NoRecord}
           \/ worker'[j] = "polling" /\ follows'[j] \in Jobs /\ record'[j] \in {record[j], NoRecord}
           \/ worker'[j] = "polling" /\ follows'[j] = j /\ record'[j].stage = "queued"
    BY <1>0, <1>4, ForgetDoes DEF Submits, Concludes, Follows
  <2>3. CASE k = j
    BY <1>0, <2>1, <2>2, <2>3 DEF FitsAt
  <2>4. CASE k # j
    BY <1>2, <2>1, <2>4
  <2> QED BY <2>3, <2>4
<1>5. ASSUME NEW j \in Jobs, Polls(j) PROVE FitsAt(k)'
  <2>1. /\ worker'[j] = "answered" /\ row'[j] # NoRow /\ UNCHANGED <<follows, record, container>>
        /\ \A i \in Jobs \ {j} : row'[i] = row[i] /\ worker'[i] = worker[i]
    BY <1>5 DEF Polls, Concludes
  <2>2. CASE k = j
    BY <1>0, <2>1, <2>2 DEF FitsAt
  <2>3. CASE k # j
    BY <1>2, <2>1, <2>3
  <2> QED BY <2>2, <2>3
<1>6. ASSUME NEW j \in Jobs, Expires(j) PROVE FitsAt(k)'
  <2>1. /\ worker'[j] = "answered" /\ row'[j] # NoRow /\ UNCHANGED follows
        /\ container'[k] = container[k] \/ (container[k] = "running" /\ container'[k] = "gone")
        /\ record'[k] = record[k]
             \/ (record[k] # NoRecord /\ record'[k] # NoRecord /\ record'[k].stage = record[k].stage)
        /\ \A i \in Jobs \ {j} : row'[i] = row[i] /\ worker'[i] = worker[i]
    BY <1>6 DEF Expires, Moves, Concludes
  <2>2. k # j => worker'[k] = worker[k] /\ row'[k] = row[k]
    BY <2>1
  <2> QED BY <1>0, <2>1, <2>2 DEF FitsAt
<1>7. ASSUME NEW j \in Jobs, WorkerDies(j) PROVE FitsAt(k)'
  <2>1. /\ worker'[k] = worker[k] \/ (worker'[k] = "dead" /\ worker[k] \in {"submitting", "polling"})
        /\ UNCHANGED <<row, follows, record, container>>
    BY <1>1, <1>7 DEF WorkerDies, rvars
  <2> QED BY <1>0, <2>1 DEF FitsAt
<1>8. ASSUME NEW j \in Jobs, JobMoves(j) PROVE FitsAt(k)'
  <2>1. CASE k # j
    BY <1>1, <1>2, <1>8, <2>1 DEF JobMoves, Moves
  <2>2. CASE k = j
    <3>1. /\ UNCHANGED <<worker, row, follows>> /\ record[k] # NoRecord
          /\ \/ record'[k].stage \in {"preparing", "gaveup", "ended"} /\ UNCHANGED container
                /\ record[k].stage \in {"queued", "preparing", "watching"}
                /\ (record'[k].stage = "preparing" => record[k].stage = "queued")
             \/ record'[k].stage = "watching" /\ container'[k] = "running"
             \/ record'[k].stage = "ended" /\ container'[k] = "gone"
      BY <1>1, <1>8, <2>2 DEF JobMoves, Moves
    <3> QED BY <1>0, <3>1 DEF FitsAt
  <2> QED BY <2>1, <2>2
<1>9. ASSUME NEW j \in Jobs, SweepBegin(j) PROVE FitsAt(k)'
  BY <1>2, <1>9 DEF SweepBegin, wvars, rvars
<1>10. ASSUME SweepEnds PROVE FitsAt(k)'
  <2>1. UNCHANGED <<worker, follows, record, container>>
        /\ (row'[k] = row[k] \/ (row'[k] # NoRow /\ row[k].status = "running"))
    BY <1>10 DEF SweepEnds
  <2>2. row[k].status = "running" => row[k] # NoRow
    BY Shapes
  <2> QED BY <1>0, <2>1, <2>2 DEF FitsAt
<1>11. ASSUME Stops PROVE FitsAt(k)'
  BY <1>2, <1>11 DEF Stops
<1>12. ASSUME Start PROVE FitsAt(k)'
  <2>1. /\ UNCHANGED <<worker, row, follows, record>>
        /\ container'[k] = IF container[k] = "none" THEN "none" ELSE "gone"
    BY <1>12 DEF Start, wvars
  <2> QED BY <1>2, <2>1
<1>13. ASSUME Tick \/ UNCHANGED vars PROVE FitsAt(k)'
  BY <1>2, <1>13 DEF Tick, vars, wvars, rvars
<1> QED BY <1>3, <1>4, <1>5, <1>6, <1>7, <1>8, <1>9, <1>10, <1>11, <1>12, <1>13, StepDoes

\* A row that runs is not marked otherwise than by the loss of its runner.
LEMMA CodedKept ==
  ASSUME Base, [Next]_vars
  PROVE  Coded'
<1> SUFFICES ASSUME NEW k \in Jobs, row'[k].status = "running"
             PROVE  row'[k].code \in {"none", "runner_error"}
  BY DEF Coded
<1>0. TypeOK /\ (row[k].status = "running" => row[k].code \in {"none", "runner_error"})
  BY DEF Base, Coded
<1>1. row'[k] = row[k] \/ row'[k].code \in {"none", "runner_error"} \/ row'[k].status # "running"
  <2>1. ASSUME NEW j \in Jobs, Dispatch(j) PROVE row'[k] = row[k] \/ row'[k].code = "none"
    BY <1>0, <2>1, DispatchDoes
  <2>2. ASSUME NEW j \in Jobs, Submits(j) \/ Polls(j) \/ Expires(j)
        PROVE  row'[k] = row[k] \/ row'[k].code = "runner_error" \/ row'[k].status = "closed"
    BY <2>2 DEF Submits, Polls, Expires, Concludes, Follows
  <2>3. ASSUME NEW j \in Jobs, WorkerDies(j) \/ JobMoves(j) \/ SweepBegin(j) PROVE row' = row
    BY <2>3 DEF WorkerDies, JobMoves, SweepBegin, wvars
  <2>4. ASSUME SweepEnds PROVE row'[k] = row[k] \/ row'[k].status = "closed"
    BY <2>4 DEF SweepEnds
  <2>5. ASSUME Stops \/ Start \/ Tick \/ UNCHANGED vars PROVE row' = row
    BY <2>5 DEF Stops, Start, Tick, vars, wvars
  <2> QED BY <2>1, <2>2, <2>3, <2>4, <2>5, StepDoes
<1> QED BY <1>0, <1>1

\* The clock goes by ones, and a runner that starts reads it.
LEMMA ClockMoves ==
  ASSUME Base, [Next]_vars
  PROVE  (now' = now \/ now' = now + 1) /\ since' \in {since, now'}
<1>1. ASSUME NEW j \in Jobs, Dispatch(j) \/ Submits(j) \/ Polls(j) \/ Expires(j)
      PROVE  UNCHANGED <<now, since>>
  BY <1>1 DEF Dispatch, Submits, Polls, Expires, rvars
<1>2. ASSUME NEW j \in Jobs, WorkerDies(j) \/ JobMoves(j) \/ SweepBegin(j) PROVE UNCHANGED <<now, since>>
  BY <1>2 DEF WorkerDies, JobMoves, SweepBegin, rvars
<1>3. ASSUME SweepEnds \/ Stops \/ Start \/ Tick \/ UNCHANGED vars
      PROVE  (now' = now \/ now' = now + 1) /\ since' \in {since, now'}
  BY <1>3 DEF SweepEnds, Stops, Start, Tick, vars, rvars
<1> QED BY <1>1, <1>2, <1>3, StepDoes

\* What a step does to a row and to a record, in time.
LEMMA Timing ==
  ASSUME Base, [Next]_vars, NEW k \in Jobs
  PROVE  /\ row'[k].at = row[k].at \/ row'[k].at = now' + Ahead
         /\ worker[k] # "none" => row'[k].at = row[k].at
         /\ row[k] # NoRow => row'[k] # NoRow
         /\ row'[k] # NoRow => row[k] # NoRow \/ row'[k].at = now' + Ahead
         /\ \/ record'[k] = NoRecord
            \/ record[k] # NoRecord /\ record'[k].at = record[k].at
            \/ row[k] # NoRow /\ worker[k] = "submitting" /\ record'[k].at = now'
<1>0. TypeOK /\ FitsAt(k) /\ now \in 0..MaxTime
  BY DEF Base, Fits, TypeOK
<1>1. ASSUME NEW j \in Jobs, Dispatch(j)
      PROVE  /\ worker[j] = "none" /\ UNCHANGED <<now, since, record>>
             /\ \A i \in Jobs \ {j} : row'[i] = row[i]
             /\ row'[j] = row[j] \/ (row'[j] # NoRow /\ row'[j].at = now + Ahead)
  BY <1>0, <1>1, DispatchDoes DEF Dispatch, rvars
<1>2. ASSUME NEW j \in Jobs, Submits(j)
      PROVE  /\ UNCHANGED <<now, since>> /\ worker[j] = "submitting"
             /\ row'[k] = row[k] \/ (k = j /\ row'[k] # NoRow /\ row'[k].at = row[k].at)
             /\ \/ record'[k] \in {record[k], NoRecord}
                \/ k = j /\ record'[k].at = now
  BY <1>0, <1>2, ForgetDoes DEF Submits, Concludes, Follows
<1>3. ASSUME NEW j \in Jobs, Polls(j) \/ Expires(j)
      PROVE  /\ UNCHANGED <<now, since>>
             /\ row'[k] = row[k] \/ (row'[k] # NoRow /\ row'[k].at = row[k].at /\ worker[k] = "polling")
             /\ record'[k] = record[k] \/ (record[k] # NoRecord /\ record'[k].at = record[k].at)
  BY <1>3 DEF Polls, Expires, Concludes, Moves
<1>4. ASSUME NEW j \in Jobs, WorkerDies(j) \/ JobMoves(j) \/ SweepBegin(j)
      PROVE  /\ UNCHANGED <<now, since, row>>
             /\ record'[k] = record[k] \/ (record[k] # NoRecord /\ record'[k].at = record[k].at)
  <2>1. CASE WorkerDies(j) \/ SweepBegin(j)
    BY <2>1 DEF WorkerDies, SweepBegin, wvars, rvars
  <2>2. CASE JobMoves(j)
    BY <2>2 DEF JobMoves, Moves
  <2> QED BY <1>4, <2>1, <2>2
<1>5. ASSUME SweepEnds
      PROVE  /\ UNCHANGED <<now, since, record>>
             /\ row'[k] = row[k] \/ (row'[k] # NoRow /\ row'[k].at = row[k].at /\ row[k].status = "running")
  BY <1>5 DEF SweepEnds
<1>6. ASSUME Stops PROVE UNCHANGED <<now, since, row>> /\ record'[k] = NoRecord
  BY <1>6 DEF Stops
<1>7. ASSUME Start PROVE UNCHANGED <<now, row, record>> /\ since' = now
  BY <1>7 DEF Start, wvars
<1>8. ASSUME Tick \/ UNCHANGED vars
      PROVE  UNCHANGED <<since, row, record>> /\ (now' = now + 1 \/ now' = now)
  BY <1>8 DEF Tick, vars, wvars, rvars
<1>9. /\ row[k].status = "running" => row[k] # NoRow
      /\ worker[k] \in {"submitting", "polling"} => row[k] # NoRow
  BY <1>0, Shapes DEF FitsAt
<1>10. ASSUME NEW j \in Jobs, Dispatch(j) PROVE
         /\ UNCHANGED <<now, since, record>>
         /\ row'[k] = row[k] \/ (worker[k] = "none" /\ row'[k] # NoRow /\ row'[k].at = now + Ahead)
  BY <1>1, <1>10
<1> QED BY <1>2, <1>3, <1>4, <1>5, <1>6, <1>7, <1>8, <1>9, <1>10, StepDoes

\* Stamps stay in the past.
LEMMA StampsKept ==
  ASSUME Base, [Next]_vars
  PROVE  Stamps'
<1>0. TypeOK /\ Stamps /\ now \in Nat /\ Ahead \in Nat /\ since \in Nat
  BY Bounds DEF Base, TypeOK
<1>1. now' \in Nat /\ now <= now'
  BY <1>0, ClockMoves
<1>2. ASSUME NEW k \in Jobs, row'[k] # NoRow PROVE row'[k].at <= now' + Ahead
  <2>1. row[k].at \in Nat
    BY <1>0, Shapes DEF TypeOK
  <2>2. \/ row'[k].at = now' + Ahead
        \/ row[k] # NoRow /\ row'[k].at = row[k].at
    BY <1>2, Timing
  <2>3. CASE row'[k].at = now' + Ahead
    <3>1. PICK n \in Nat : n = now'
      BY <1>1
    <3>2. n + Ahead <= n + Ahead
      BY <1>0
    <3> QED BY <2>3, <3>1, <3>2
  <2>4. CASE row[k] # NoRow /\ row'[k].at = row[k].at
    <3>1. row[k].at <= now + Ahead
      BY <1>0, <2>4 DEF Stamps
    <3> QED BY <1>0, <1>1, <2>1, <2>4, <3>1
  <2> QED BY <2>2, <2>3, <2>4
<1>3. ASSUME NEW k \in Jobs, record'[k] # NoRecord
      PROVE  record'[k].at <= now' /\ row'[k].at <= record'[k].at + Ahead
  <2>1. /\ row[k].at \in Nat /\ (record[k] # NoRecord => record[k].at \in Nat)
        /\ FitsAt(k)
    BY <1>0, Shapes, Bounds DEF TypeOK, Base, Fits
  <2>2. CASE record[k] # NoRecord /\ record'[k].at = record[k].at
    <3>1. record[k].at <= now /\ row[k].at <= record[k].at + Ahead
      BY <1>0, <2>2 DEF Stamps
    <3>2. row'[k].at = row[k].at
      BY <2>1, <2>2, Timing DEF FitsAt
    <3> QED BY <1>0, <1>1, <2>1, <2>2, <3>1, <3>2
  <2>3. CASE row[k] # NoRow /\ worker[k] = "submitting" /\ record'[k].at = now'
    <3>1. row[k].at <= now + Ahead /\ row'[k].at = row[k].at
      BY <1>0, <2>3, Timing DEF Stamps
    <3> QED BY <1>0, <1>1, <2>1, <2>3, <3>1
  <2> QED BY <1>3, <2>2, <2>3, Timing
<1>4. since' <= now'
  <2>1. since' \in {since, now'} /\ since <= now
    BY <1>0, ClockMoves DEF Stamps
  <2> QED BY <1>0, <1>1, <2>1
<1> QED BY <1>2, <1>3, <1>4 DEF Stamps

\* Base holds at first.
LEMMA BaseFirst == Init => Base
<1> SUFFICES ASSUME Init PROVE Base
  OBVIOUS
<1>1. TypeOK
  <2>1. /\ NoRow \in Rows /\ NoRecord \in Records /\ NoSweep \in Sweeps /\ 0 \in Times /\ 0 \in 0..MaxTime
        /\ 0 \in 0..Restarts
    BY Shapes, Bounds DEF Sweeps
  <2> QED BY <2>1 DEF Init, TypeOK, WorkerStages
<1>2. Fits
  BY Shapes DEF Init, Fits, FitsAt
<1>3. Coded
  BY Shapes DEF Init, Coded
<1>4. Stamps
  BY Bounds DEF Init, Stamps
<1> QED BY <1>1, <1>2, <1>3, <1>4 DEF Base

\* And every step keeps it.
LEMMA BaseKept ==
  ASSUME Base, [Next]_vars
  PROVE  Base'
BY TypesKept, FitsKept, CodedKept, StampsKept DEF Base

\* Types are right in every reachable state.
THEOREM TypeCorrect == Spec => []TypeOK
<1>1. Spec => []Base
  BY BaseFirst, BaseKept, PTL DEF Spec
<1>2. Base => TypeOK
  BY DEF Base
<1> QED BY <1>1, <1>2, PTL

-----------------------------------------------------------------------------
(* The ledger and the records have one lifetime.                           *)

\* The runner still knows of the job, and did not give up on it in the queue.
Live(j) == record[j] # NoRecord /\ record[j].stage # "gaveup"

Memory ==
  /\ \A c \in Calls : ledger[c] # None => Live(ledger[c])
  /\ \A j \in Jobs : Live(j) => ledger[j[1]] = j
  /\ ~serving => \A j \in Jobs : record[j] = NoRecord

\* Forgetting takes a record and its entry together.
LEMMA ForgetsBoth ==
  ASSUME Base, Memory
  PROVE  /\ \A c \in Calls : KeptLedger[c] # None =>
              /\ KeptLedger[c] = ledger[c] /\ KeptLedger[c] \in Jobs
              /\ Kept[KeptLedger[c]] = record[KeptLedger[c]]
         /\ \A j \in Jobs : Kept[j] # NoRecord /\ Kept[j].stage # "gaveup" =>
              Live(j) /\ KeptLedger[j[1]] = j /\ Kept[j] = record[j]
<1>1. /\ \A i \in Jobs : Kept[i] = IF i \in Dropped THEN NoRecord ELSE record[i]
      /\ \A c \in Calls : KeptLedger[c] = IF ledger[c] \in Dropped THEN None ELSE ledger[c]
      /\ KeptLedger \in [Calls -> Jobs \cup {None}] /\ \A j \in Jobs : j[1] \in Calls
  BY ForgetDoes DEF Base, Calls
<1>2. ASSUME NEW c \in Calls, KeptLedger[c] # None
      PROVE  /\ KeptLedger[c] = ledger[c] /\ KeptLedger[c] \in Jobs
             /\ Kept[KeptLedger[c]] = record[KeptLedger[c]]
  BY <1>1, <1>2
<1>3. ASSUME NEW j \in Jobs, Kept[j] # NoRecord, Kept[j].stage # "gaveup"
      PROVE  Live(j) /\ KeptLedger[j[1]] = j /\ Kept[j] = record[j]
  BY <1>1, <1>3 DEF Memory, Live
<1> QED BY <1>2, <1>3

\* Every step keeps the two together.
LEMMA MemoryKept ==
  ASSUME Base, Memory, [Next]_vars
  PROVE  Memory'
<1>0. /\ TypeOK /\ ledger \in [Calls -> Jobs \cup {None}] /\ None \notin Jobs
      /\ \A j \in Jobs : j[1] \in Calls
  BY JobsAssumption DEF Base, TypeOK, Calls
<1>1. ASSUME UNCHANGED <<record, ledger, serving>> PROVE Memory'
  BY <1>1 DEF Memory, Live
<1>9. ledger' \in [Calls -> Jobs \cup {None}]
  BY TypesKept DEF TypeOK
<1>10. ASSUME \A c \in Calls, i \in Jobs : ledger'[c] = i => Live(i)',
              \A i \in Jobs : Live(i)' => ledger'[i[1]] = i, serving'
       PROVE  Memory'
  BY <1>9, <1>10 DEF Memory, Live
<1>2. ASSUME NEW j \in Jobs, Submits(j) PROVE Memory'
  <2>1. CASE UNCHANGED <<record, ledger, serving>>
    BY <1>1, <2>1
  <2>2. CASE serving /\ serving' = serving /\ record' = Kept /\ ledger' = KeptLedger
    <3>1. ASSUME NEW c \in Calls, NEW i \in Jobs, ledger'[c] = i PROVE Live(i)'
      BY <1>0, <2>2, <3>1, ForgetsBoth DEF Memory, Live
    <3>2. ASSUME NEW i \in Jobs, Live(i)' PROVE ledger'[i[1]] = i
      BY <2>2, <3>2, ForgetsBoth DEF Live
    <3> QED BY <1>10, <2>2, <3>1, <3>2
  <2>3. CASE /\ serving /\ serving' = serving /\ KeptLedger[j[1]] = None
             /\ record'[j] # NoRecord /\ record'[j].stage = "queued"
             /\ \A k \in Jobs \ {j} : record'[k] = Kept[k]
             /\ ledger' = [KeptLedger EXCEPT ![j[1]] = j]
    <3>0. KeptLedger \in [Calls -> Jobs \cup {None}]
      BY <1>0, ForgetDoes
    <3>1. ASSUME NEW c \in Calls, NEW i \in Jobs, ledger'[c] = i PROVE Live(i)'
      <4>1. CASE c = j[1]
        BY <1>0, <2>3, <3>0, <3>1, <4>1 DEF Live
      <4>2. CASE c # j[1]
        <5>1. KeptLedger[c] = i /\ i # None
          BY <1>0, <2>3, <3>0, <3>1, <4>2
        <5>2. Live(i) /\ Kept[i] = record[i]
          BY <5>1, ForgetsBoth DEF Memory
        <5> QED BY <2>3, <5>2 DEF Live
      <4> QED BY <4>1, <4>2
    <3>2. ASSUME NEW i \in Jobs, Live(i)' PROVE ledger'[i[1]] = i
      <4>1. CASE i = j
        BY <1>0, <2>3, <3>0, <4>1
      <4>2. CASE i # j
        <5>1. KeptLedger[i[1]] = i
          BY <2>3, <3>2, <4>2, ForgetsBoth DEF Live
        <5>2. i[1] # j[1]
          BY <1>0, <2>3, <5>1
        <5> QED BY <1>0, <2>3, <3>0, <5>1, <5>2
      <4> QED BY <4>1, <4>2
    <3> QED BY <1>10, <2>3, <3>1, <3>2
  <2> QED BY <1>2, <2>1, <2>2, <2>3 DEF Submits
<1>3. ASSUME NEW j \in Jobs, Expires(j) PROVE Memory'
  <2>1. UNCHANGED <<ledger, serving>> /\ serving /\ \A i \in Jobs : Live(i)' <=> Live(i)
    BY <1>3 DEF Expires, Moves, Live
  <2> QED BY <1>0, <2>1 DEF Memory
<1>4. ASSUME NEW j \in Jobs, JobMoves(j) PROVE Memory'
  <2>0. serving /\ serving' = serving /\ Live(j) /\ \A i \in Jobs \ {j} : Live(i)' <=> Live(i)
    BY <1>4 DEF JobMoves, Moves, Live
  <2>1. CASE ledger' = ledger /\ Live(j)'
    BY <1>0, <2>0, <2>1 DEF Memory
  <2>2. CASE ledger' = WithoutDispatch(j) /\ ~Live(j)'
    <3>1. \A c \in Calls : ledger'[c] = IF ledger[c] = j THEN None ELSE ledger[c]
      BY <2>2 DEF WithoutDispatch
    <3>2. ASSUME NEW c \in Calls, NEW i \in Jobs, ledger'[c] = i PROVE Live(i)'
      BY <1>0, <2>0, <3>1, <3>2 DEF Memory
    <3>3. ASSUME NEW i \in Jobs, Live(i)' PROVE ledger'[i[1]] = i
      BY <1>0, <2>0, <2>2, <3>1, <3>3 DEF Memory
    <3> QED BY <1>10, <2>0, <3>2, <3>3
  <2> QED BY <1>4, <2>1, <2>2 DEF JobMoves, Moves, Live
<1>5. ASSUME Stops PROVE Memory'
  BY <1>0, <1>5 DEF Stops, Memory, Live
<1>6. ASSUME Start PROVE Memory'
  BY <1>0, <1>6 DEF Start, Memory, Live
<1>7. ASSUME NEW j \in Jobs, Dispatch(j) \/ Polls(j) \/ WorkerDies(j) \/ SweepBegin(j) PROVE Memory'
  BY <1>1, <1>7 DEF Dispatch, Polls, WorkerDies, SweepBegin, rvars
<1>8. ASSUME SweepEnds \/ Tick \/ UNCHANGED vars PROVE Memory'
  BY <1>1, <1>8 DEF SweepEnds, Tick, vars, rvars
<1> QED BY <1>2, <1>3, <1>4, <1>5, <1>6, <1>7, <1>8, StepDoes

\* LedgerIsMemory, for any jobs and however often the runner restarts: an entry
\* names a job the runner still holds, and such a job answers for its call
\* (_invocations; _forget_expired and _forget_dispatch take both away).
THEOREM OneLifetime == Spec => []LedgerIsMemory
<1>1. Init => Memory
  BY Shapes DEF Init, Memory, Live
<1>2. Base /\ Memory /\ [Next]_vars => (Base /\ Memory)'
  BY BaseKept, MemoryKept
<1>3. Memory => LedgerIsMemory
  BY DEF Memory, Live, LedgerIsMemory
<1> QED BY <1>1, <1>2, <1>3, BaseFirst, PTL DEF Spec

-----------------------------------------------------------------------------
(* One container on the disk, and closed rows that are over: when Docker   *)
(* does what it is told.                                                   *)

\* A job that prepares or runs has the workspace, a container that runs has a
\* job that watches it, and there is one of them.
Disk ==
  /\ \A j \in Jobs : record[j].stage \in {"preparing", "watching"} => holder = j
  /\ \A j \in Jobs : serving /\ container[j] = "running" => record[j].stage = "watching"
  /\ \A j, k \in Jobs : container[j] = "running" /\ container[k] = "running" => j = k

\* A runner task keeps the disk to one container.
LEMMA DiskMoves ==
  ASSUME "docker" \notin Faults, Base, Disk, NEW j \in Jobs, JobMoves(j)
  PROVE  Disk'
<1>0. /\ TypeOK /\ None \notin Jobs /\ NoRecord.stage = "none"
      /\ container \in [Jobs -> {"none", "running", "gone"}]
  BY JobsAssumption, Shapes DEF Base, TypeOK
<1>1. serving /\ serving' = serving /\ \A k \in Jobs \ {j} : record'[k] = record[k]
  BY DEF JobMoves, Moves
<1>2. CASE /\ record[j].stage = "queued" /\ record'[j].stage = "preparing"
           /\ holder \in {None, j} /\ holder' = j /\ UNCHANGED container
  BY <1>0, <1>1, <1>2 DEF Disk
<1>3. CASE /\ record[j].stage = "queued" /\ record'[j].stage = "gaveup" /\ UNCHANGED <<holder, container>>
  BY <1>0, <1>1, <1>3 DEF Disk
<1>4. CASE /\ record[j].stage = "preparing" /\ record'[j].stage = "ended"
           /\ LetGo(j) /\ UNCHANGED container
  BY <1>0, <1>1, <1>4 DEF Disk, LetGo
<1>5. CASE /\ record[j].stage = "preparing" /\ record'[j].stage = "watching"
           /\ container' = [container EXCEPT ![j] = "running"] /\ UNCHANGED holder
  <2>1. \A k \in Jobs : container[k] # "running"
    BY <1>1, <1>5 DEF Disk
  <2> QED BY <1>0, <1>1, <1>5, <2>1 DEF Disk
<1>6. CASE /\ record[j].stage = "watching" /\ record'[j].stage = "ended"
           /\ container' = [container EXCEPT ![j] = "gone"] /\ LetGo(j)
  BY <1>0, <1>1, <1>6 DEF Disk, LetGo
<1> QED BY <1>2, <1>3, <1>4, <1>5, <1>6 DEF JobMoves, Moves

\* So does every step.
LEMMA DiskKept ==
  ASSUME "docker" \notin Faults, Base, Memory, Disk, [Next]_vars
  PROVE  Disk'
<1>0. TypeOK /\ NoRecord.stage = "none"
  BY Shapes DEF Base
<1>1. ASSUME UNCHANGED <<holder, serving>>,
             \A k \in Jobs : record'[k].stage # record[k].stage =>
               /\ record'[k].stage \in {"none", "queued", "ended", "gaveup"}
               /\ record[k].stage # "watching",
             \A k \in Jobs : container'[k] = "running" => container[k] = "running"
      PROVE  Disk'
  BY <1>1 DEF Disk
<1>2. ASSUME NEW j \in Jobs, Submits(j) PROVE Disk'
  <2>1. UNCHANGED <<holder, serving, container>>
    BY <1>2 DEF Submits
  <2>2. ASSUME NEW k \in Jobs, record'[k].stage # record[k].stage
        PROVE  record'[k].stage \in {"none", "queued"} /\ record[k].stage # "watching"
    <3>1. worker[j] = "submitting" /\ record[j] = NoRecord
      BY <1>2 DEF Submits, Base, Fits, FitsAt
    <3>2. record'[k] = record[k] \/ (record'[k] = NoRecord /\ k \in Dropped) \/ (k = j /\ record'[j].stage = "queued")
      BY <1>0, <1>2, ForgetDoes DEF Submits
    <3> QED BY <1>0, <2>2, <3>1, <3>2, ForgetDoes DEF Ended
  <2> QED BY <1>1, <2>1, <2>2
<1>3. ASSUME NEW j \in Jobs, Expires(j) PROVE Disk'
  <2>1. UNCHANGED <<holder, serving>>
    BY <1>3 DEF Expires
  <2>2. \A k \in Jobs : record'[k].stage = record[k].stage /\ (container'[k] = "running" => container[k] = "running")
    BY <1>3 DEF Expires, Moves
  <2> QED BY <1>1, <2>1, <2>2
<1>4. ASSUME NEW j \in Jobs, JobMoves(j) PROVE Disk'
  BY <1>4, DiskMoves
<1>5. ASSUME Stops PROVE Disk'
  BY <1>0, <1>5 DEF Stops, Disk
<1>6. ASSUME Start PROVE Disk'
  <2>1. \A k \in Jobs : container'[k] # "running"
    BY <1>6 DEF Start
  <2>2. UNCHANGED <<record, holder>>
    BY <1>6 DEF Start
  <2> QED BY <2>1, <2>2 DEF Disk
<1>7. ASSUME UNCHANGED <<record, holder, serving, container>> PROVE Disk'
  BY <1>7 DEF Disk
<1>8. ASSUME NEW j \in Jobs, Dispatch(j) \/ Polls(j) \/ WorkerDies(j) \/ SweepBegin(j) PROVE Disk'
  BY <1>7, <1>8 DEF Dispatch, Polls, WorkerDies, SweepBegin, rvars
<1>9. ASSUME SweepEnds \/ Tick \/ UNCHANGED vars PROVE Disk'
  BY <1>7, <1>9 DEF SweepEnds, Tick, vars, rvars
<1> QED BY <1>2, <1>3, <1>4, <1>5, <1>6, <1>8, <1>9, StepDoes

\* Equal members make at most one.
LEMMA AtMostOne ==
  ASSUME NEW S, \A x, y \in S : x = y
  PROVE  Cardinality(S) <= 1
<1>1. CASE S = {}
  <2>1. Cardinality(S) = 0
    BY <1>1, FS_EmptySet
  <2> QED BY <2>1
<1>2. CASE S # {}
  <2>1. PICK x \in S : TRUE
    BY <1>2
  <2>2. S = {x}
    BY <2>1
  <2>3. Cardinality({x}) = 1
    BY FS_Singleton
  <2> QED BY <2>2, <2>3
<1> QED BY <1>1, <1>2

\* The disk's invariant at first.
LEMMA DiskFirst == Init => Disk /\ Memory
BY Shapes DEF Init, Disk, Memory, Live

\* OneContainer, for any jobs and restarts: where every removal that Docker is
\* asked for succeeds, two containers are never on the workspace's disk at once
\* (_run holds the workspace until the container is gone, start reaps first).
THEOREM OneContainerRuns == "docker" \notin Faults => (Spec => []OneContainer)
<1> SUFFICES ASSUME "docker" \notin Faults PROVE Spec => []OneContainer
  OBVIOUS
<1> DEFINE I == Base /\ Memory /\ Disk
<1>1. Init => I
  BY BaseFirst, DiskFirst
<1>2. I /\ [Next]_vars => I'
  BY BaseKept, MemoryKept, DiskKept
<1>3. I => OneContainer
  <2> SUFFICES ASSUME Disk PROVE OneContainer
    OBVIOUS
  <2> DEFINE S == {j \in Jobs : container[j] = "running"}
  <2>1. \A x, y \in S : x = y
    BY DEF Disk
  <2> HIDE DEF S
  <2>2. Cardinality(S) <= 1
    BY <2>1, AtMostOne
  <2> QED BY <2>2 DEF S, OneContainer
<1> HIDE DEF I
<1> QED BY <1>1, <1>2, <1>3, PTL DEF Spec

\* A row that is closed is over: its worker has let go of it, its job is not at
\* work and its container does not run.
ClosedAt(j) ==
  row[j].status = "closed" =>
    /\ worker[j] \notin {"none", "submitting"}
    /\ record[j] = NoRecord \/ Ended(j)
    /\ container[j] # "running"

\* A submission comes within the grace, and a row is swept only when overdue.
InTime ==
  /\ \A j \in Jobs : worker[j] = "submitting" => now + Ahead <= row[j].at + Grace
  /\ sweep # NoSweep => row[sweep.job] # NoRow /\ row[sweep.job].at + Timeout + Grace <= now + Ahead

Closed == InTime /\ \A j \in Jobs : ClosedAt(j)

\* The sweep and the submission keep to their times.
LEMMA InTimeKept ==
  ASSUME Base, InTime, [Next]_vars
  PROVE  InTime'
<1>0. /\ TypeOK /\ now \in Nat /\ Ahead \in Nat /\ Grace \in Nat /\ Timeout \in Nat
      /\ \A j \in Jobs : row[j].at \in Nat /\ FitsAt(j)
      /\ worker \in [Jobs -> WorkerStages]
  BY Bounds, Shapes DEF Base, TypeOK, Fits
<1>1. now' = now \/ (Tick /\ now' = now + 1)
  <2>1. ASSUME NEW j \in Jobs, Dispatch(j) \/ Submits(j) \/ Polls(j) \/ Expires(j) PROVE now' = now
    BY <2>1 DEF Dispatch, Submits, Polls, Expires
  <2>2. ASSUME NEW j \in Jobs, WorkerDies(j) \/ JobMoves(j) \/ SweepBegin(j) PROVE now' = now
    BY <2>2 DEF WorkerDies, JobMoves, SweepBegin
  <2>3. ASSUME SweepEnds \/ Stops \/ Start \/ Tick \/ UNCHANGED vars
        PROVE  now' = now \/ (Tick /\ now' = now + 1)
    BY <2>3 DEF SweepEnds, Stops, Start, Tick, vars
  <2> QED BY <2>1, <2>2, <2>3, StepDoes
<1>2. ASSUME NEW k \in Jobs, worker'[k] = "submitting"
      PROVE  worker[k] = "submitting" \/ (row'[k].at = now + Ahead /\ now' = now)
  <2>1. ASSUME NEW j \in Jobs, Dispatch(j)
        PROVE  worker[k] = "submitting" \/ (row'[k].at = now + Ahead /\ now' = now)
    BY <1>0, <1>2, <2>1, DispatchDoes DEF Dispatch
  <2>2. ASSUME NEW j \in Jobs, Submits(j) \/ Polls(j) \/ Expires(j) PROVE worker[k] = "submitting"
    BY <1>2, <2>2 DEF Submits, Polls, Expires, Concludes, Follows
  <2>3. ASSUME NEW j \in Jobs, WorkerDies(j) PROVE worker[k] = "submitting"
    BY <1>0, <1>2, <2>3 DEF WorkerDies
  <2>4. ASSUME NEW j \in Jobs, JobMoves(j) \/ SweepBegin(j) PROVE worker[k] = "submitting"
    BY <1>2, <2>4 DEF JobMoves, SweepBegin, wvars
  <2>5. ASSUME SweepEnds \/ Stops \/ Start \/ Tick \/ UNCHANGED vars PROVE worker[k] = "submitting"
    BY <1>2, <2>5 DEF SweepEnds, Stops, Start, Tick, vars, wvars
  <2> QED BY <2>1, <2>2, <2>3, <2>4, <2>5, StepDoes
<1>3. ASSUME NEW k \in Jobs, worker'[k] = "submitting" PROVE now' + Ahead <= row'[k].at + Grace
  <2>1. CASE worker[k] = "submitting"
    <3>1. row'[k].at = row[k].at /\ now + Ahead <= row[k].at + Grace
      BY <2>1, Timing DEF InTime
    <3>2. Tick => now + Ahead < row[k].at + Grace
      BY <2>1 DEF Tick
    <3> QED BY <1>0, <1>1, <3>1, <3>2
  <2>2. CASE row'[k].at = now + Ahead /\ now' = now
    <3>1. PICK n \in Nat : n = now
      BY <1>0
    <3>2. n + Ahead <= (n + Ahead) + Grace
      BY <1>0
    <3> QED BY <2>2, <3>1, <3>2
  <2> QED BY <1>2, <1>3, <2>1, <2>2
<1>4. sweep' = sweep \/ sweep' = NoSweep \/ \E j \in Jobs : SweepBegin(j)
  <2>1. ASSUME NEW j \in Jobs, Dispatch(j) \/ Submits(j) \/ Polls(j) \/ Expires(j) PROVE sweep' = sweep
    BY <2>1 DEF Dispatch, Submits, Polls, Expires
  <2>2. ASSUME NEW j \in Jobs, WorkerDies(j) \/ JobMoves(j) PROVE sweep' = sweep
    BY <2>2 DEF WorkerDies, JobMoves
  <2>3. ASSUME SweepEnds \/ Stops \/ Start \/ Tick \/ UNCHANGED vars PROVE sweep' \in {sweep, NoSweep}
    BY <2>3 DEF SweepEnds, Stops, Start, Tick, vars
  <2> QED BY <2>1, <2>2, <2>3, StepDoes
<1>5. ASSUME NEW k \in Jobs, row[k] # NoRow, row[k].at + Timeout + Grace <= now + Ahead
      PROVE  row'[k] # NoRow /\ row'[k].at + Timeout + Grace <= now' + Ahead
  <2>1. row'[k] # NoRow /\ row'[k].at = row[k].at
    BY <1>0, <1>5, Timing DEF FitsAt
  <2> QED BY <1>0, <1>1, <1>5, <2>1
<1>6. sweep' # NoSweep => row'[sweep'.job] # NoRow /\ row'[sweep'.job].at + Timeout + Grace <= now' + Ahead
  <2>1. CASE sweep' = sweep /\ sweep' # NoSweep
    <3>1. PICK k \in Jobs : k = sweep.job
      BY <1>0, <2>1 DEF TypeOK, Sweeps
    <3>2. row[k] # NoRow /\ row[k].at + Timeout + Grace <= now + Ahead
      BY <2>1, <3>1 DEF InTime
    <3> QED BY <1>5, <2>1, <3>1, <3>2
  <2>2. ASSUME NEW k \in Jobs, SweepBegin(k)
        PROVE  row'[sweep'.job] # NoRow /\ row'[sweep'.job].at + Timeout + Grace <= now' + Ahead
    <3>1. sweep'.job = k /\ row[k].status = "running" /\ row[k].at + Timeout + Grace <= now + Ahead
      BY <2>2 DEF SweepBegin, Overdue
    <3>2. row[k] # NoRow
      BY <3>1, Shapes
    <3> QED BY <1>5, <3>1, <3>2
  <2> QED BY <1>4, <2>1, <2>2
<1> QED BY <1>3, <1>6 DEF InTime

\* Nothing closes the row of a job that is at work, and no closed row's job
\* goes to work again.
LEMMA ClosedKept ==
  ASSUME "docker" \notin Faults, Base, Disk, Closed, [Next]_vars
  PROVE  Closed'
<1> SUFFICES ASSUME NEW k \in Jobs PROVE ClosedAt(k)'
  BY InTimeKept DEF Closed
<1>0. /\ TypeOK /\ FitsAt(k) /\ ClosedAt(k) /\ NoRecord.stage = "none" /\ NoRow.status = "none"
      /\ worker \in [Jobs -> WorkerStages]
      /\ container \in [Jobs -> {"none", "running", "gone"}]
  BY Shapes DEF Base, TypeOK, Fits, Closed
<1>1. ASSUME worker'[k] \notin {"none", "submitting"} \/ worker'[k] = worker[k],
             row'[k].status # "closed" \/ row'[k] = row[k],
             record'[k] \in {record[k], NoRecord} \/ (record[k] # NoRecord /\ record'[k].stage = record[k].stage),
             container'[k] = "running" => container[k] = "running"
      PROVE  ClosedAt(k)'
  BY <1>0, <1>1 DEF ClosedAt, Ended
<1>2. ASSUME NEW j \in Jobs, Dispatch(j) PROVE ClosedAt(k)'
  <2>1. /\ worker[j] = "none" /\ UNCHANGED <<record, container>>
        /\ \A i \in Jobs \ {j} : row'[i] = row[i] /\ worker'[i] = worker[i]
        /\ \/ row'[j].status = "running"
           \/ worker'[j] = "answered" /\ row'[j] = row[j]
    BY <1>0, <1>2, DispatchDoes DEF Dispatch, rvars
  <2>2. CASE k = j
    BY <1>0, <2>1, <2>2 DEF ClosedAt, FitsAt
  <2>3. CASE k # j
    BY <1>1, <2>1, <2>3
  <2> QED BY <2>2, <2>3
<1>3. ASSUME NEW j \in Jobs, Submits(j) PROVE ClosedAt(k)'
  <2>0. worker[j] = "submitting" /\ FitsAt(j) /\ ClosedAt(j) /\ UNCHANGED container
    BY <1>3 DEF Submits, Base, Fits, Closed
  <2>1. CASE k = j
    <3>1. row'[k].status # "closed" \/ row'[k] = row[k] \/ (worker'[k] = "answered" /\ record' = Kept)
      BY <1>3, <2>1 DEF Submits, Concludes, Follows
    <3>2. row[k].status # "closed" /\ record[k] = NoRecord /\ container[k] = "none"
      BY <2>0, <2>1 DEF FitsAt, ClosedAt
    <3>3. Kept[k] = NoRecord
      BY <1>0, <3>2, ForgetDoes
    <3> QED BY <2>0, <3>1, <3>2, <3>3 DEF ClosedAt
  <2>2. CASE k # j
    <3>1. /\ row'[k] = row[k] /\ worker'[k] = worker[k]
          /\ record'[k] = record[k] \/ record'[k] = NoRecord
      BY <1>0, <1>3, <2>2, ForgetDoes DEF Submits, Concludes, Follows
    <3> QED BY <1>1, <2>0, <3>1
  <2> QED BY <2>1, <2>2
<1>4. ASSUME NEW j \in Jobs, Polls(j) PROVE ClosedAt(k)'
  <2>0. /\ worker'[j] = "answered" /\ UNCHANGED <<follows, record, container>>
        /\ \A i \in Jobs \ {j} : row'[i] = row[i] /\ worker'[i] = worker[i]
        /\ row'[j].status = "running" \/ (serving /\ Ended(follows[j]))
    BY <1>4 DEF Polls, Concludes
  <2>1. CASE k = j
    <3>1. CASE row'[j].status = "running"
      BY <2>1, <3>1 DEF ClosedAt
    <3>2. CASE serving /\ Ended(follows[j]) /\ follows[j] = j
      <4>1. container[j] # "running"
        BY <3>2 DEF Disk, Ended
      <4> QED BY <2>0, <2>1, <3>2, <4>1 DEF ClosedAt, Ended
    <3>3. CASE follows[j] # j
      BY <1>0, <2>0, <2>1, <3>3 DEF ClosedAt, FitsAt
    <3> QED BY <2>0, <3>1, <3>2, <3>3
  <2>2. CASE k # j
    BY <1>1, <2>0, <2>2
  <2> QED BY <2>1, <2>2
<1>5. ASSUME NEW j \in Jobs, Expires(j) PROVE ClosedAt(k)'
  <2>1. /\ worker'[j] = "answered" /\ row'[j].status = "running"
        /\ \A i \in Jobs \ {j} : row'[i] = row[i] /\ worker'[i] = worker[i]
        /\ record'[k] = record[k] \/ (record[k] # NoRecord /\ record'[k].stage = record[k].stage)
        /\ container'[k] = "running" => container[k] = "running"
    BY <1>5 DEF Expires, Moves, Concludes
  <2>2. /\ worker'[k] = "answered" \/ worker'[k] = worker[k]
        /\ row'[k].status = "running" \/ row'[k] = row[k]
    BY <2>1
  <2> QED BY <1>1, <2>1, <2>2
<1>6. ASSUME NEW j \in Jobs, WorkerDies(j) PROVE ClosedAt(k)'
  <2>1. /\ worker'[k] = worker[k] \/ worker'[k] = "dead"
        /\ UNCHANGED <<row, record, container>>
    BY <1>0, <1>6 DEF WorkerDies, rvars
  <2> QED BY <1>1, <2>1
<1>7. ASSUME NEW j \in Jobs, JobMoves(j) PROVE ClosedAt(k)'
  <2>1. UNCHANGED <<worker, row>> /\ \A i \in Jobs \ {j} : record'[i] = record[i] /\ container'[i] = container[i]
    BY <1>0, <1>7 DEF JobMoves, Moves
  <2>2. CASE k = j
    <3>1. record[j] # NoRecord /\ record[j].stage \in {"queued", "preparing", "watching"}
      BY <1>7 DEF JobMoves, Moves
    <3>2. row[j].status # "closed"
      BY <1>0, <2>2, <3>1 DEF ClosedAt, Ended
    <3> QED BY <2>1, <2>2, <3>2 DEF ClosedAt
  <2>3. CASE k # j
    BY <1>1, <2>1, <2>3
  <2> QED BY <2>2, <2>3
<1>8. ASSUME NEW j \in Jobs, SweepBegin(j) PROVE ClosedAt(k)'
  BY <1>1, <1>8 DEF SweepBegin, wvars, rvars
<1>9. ASSUME SweepEnds PROVE ClosedAt(k)'
  <2>0. UNCHANGED <<worker, record, container>>
    BY <1>9 DEF SweepEnds
  <2>1. CASE row'[k] = row[k]
    BY <1>1, <2>0, <2>1
  <2>2. CASE /\ k = sweep.job /\ sweep # NoSweep /\ serving /\ (record[k] = NoRecord \/ Ended(k))
             /\ row[k].status = "running"
    <3>1. worker[k] # "none"
      BY <1>0, <2>2 DEF FitsAt
    <3>2. worker[k] # "submitting"
      <4>1. /\ row[k].at + Timeout + Grace <= now + Ahead
            /\ worker[k] = "submitting" => now + Ahead <= row[k].at + Grace
        BY <2>2 DEF Closed, InTime
      <4>2. /\ row[k].at \in Nat /\ now \in Nat /\ Ahead \in Nat /\ Grace \in Nat /\ Timeout \in Nat \ {0}
        BY <1>0, Bounds, Shapes DEF TypeOK
      <4> QED BY <4>1, <4>2
    <3>3. container[k] # "running"
      BY <1>0, <2>2 DEF Disk, Ended
    <3> QED BY <2>0, <2>2, <3>1, <3>2, <3>3 DEF ClosedAt, Ended
  <2> QED BY <1>9, <2>1, <2>2 DEF SweepEnds
<1>10. ASSUME Stops PROVE ClosedAt(k)'
  <2>1. UNCHANGED <<worker, row>> /\ record'[k] = NoRecord /\ (container'[k] = "running" => container[k] = "running")
    BY <1>10 DEF Stops
  <2> QED BY <1>1, <2>1
<1>11. ASSUME Start PROVE ClosedAt(k)'
  <2>1. UNCHANGED <<worker, row, record>> /\ container'[k] # "running"
    BY <1>11 DEF Start, wvars
  <2> QED BY <1>1, <2>1
<1>12. ASSUME Tick \/ UNCHANGED vars PROVE ClosedAt(k)'
  BY <1>1, <1>12 DEF Tick, vars, wvars, rvars
<1> QED BY <1>2, <1>3, <1>4, <1>5, <1>6, <1>7, <1>8, <1>9, <1>10, <1>11, <1>12, StepDoes

\* ClosedIsOver, for any jobs, restarts, graces and retentions: where Docker
\* does what it is asked, a row that says its job has ended is the row of a job
\* without a container at work, whether the worker or the sweep closed it
\* (sandbox_reconcile closes on a proof of absence or of an ending only).
THEOREM ClosedRowsAreOver == "docker" \notin Faults => (Spec => []ClosedIsOver)
<1> SUFFICES ASSUME "docker" \notin Faults PROVE Spec => []ClosedIsOver
  OBVIOUS
<1> DEFINE I == Base /\ Memory /\ Disk /\ Closed
<1>1. Init => I
  <2>1. Init => Closed
    BY Shapes DEF Init, Closed, InTime, ClosedAt
  <2> QED BY <2>1, BaseFirst, DiskFirst
<1>2. I /\ [Next]_vars => I'
  BY BaseKept, MemoryKept, DiskKept, ClosedKept
<1>3. I => ClosedIsOver
  BY DEF Closed, ClosedAt, ClosedIsOver
<1> HIDE DEF I
<1> QED BY <1>1, <1>2, <1>3, PTL DEF Spec

-----------------------------------------------------------------------------
(* One effect per call: when recovery dispatches a call again only once    *)
(* the worker that had it is gone.                                         *)

\* A later dispatch has begun only when the earlier are dead.
Order ==
  \A j, k \in Jobs : j[1] = k[1] /\ j[2] < k[2] /\ worker[k] # "none" => worker[j] = "dead"

\* What a submission brings as its history is as old as any row of its call.
HistoryRead ==
  \A j, k \in Jobs : j[1] = k[1] /\ j # k /\ worker[k] = "submitting" /\ row[j] # NoRow =>
    prior[k] # None /\ prior[k] <= row[j].at

\* A dispatch that had a container is still known, or is older than the memory
\* of the runner reaches.
Recalled(j) ==
  \/ ~serving
  \/ Live(j)
  \/ row[j].at <= since + Skew
  \/ forgotten # None /\ row[j].at <= forgotten + Skew

AllRecalled == \A j \in Jobs : container[j] # "none" => Recalled(j)

\* A dispatch that had a container is the only one of its call that has, and
\* that can come to have one.
Alone ==
  \A j, k \in Jobs : j[1] = k[1] /\ j # k /\ container[j] # "none" => ~Live(k) /\ container[k] = "none"

Effect == Order /\ HistoryRead /\ AllRecalled /\ Alone

\* Two dispatches of a call come one after the other.
LEMMA InOrder ==
  ASSUME NEW j \in Jobs, NEW k \in Jobs, j[1] = k[1], j # k
  PROVE  j[2] < k[2] \/ k[2] < j[2]
<1>1. j = <<j[1], j[2]>> /\ k = <<k[1], k[2]>>
  BY JobsAssumption
<1>2. j[2] \in Nat /\ k[2] \in Nat
  BY JobsAssumption
<1>3. j[2] # k[2]
  BY <1>1
<1> QED BY <1>2, <1>3

\* What a step does to the worker of a dispatch.
LEMMA WorkerMoves ==
  ASSUME Base, [Next]_vars, NEW k \in Jobs
  PROVE  \/ worker'[k] = worker[k] /\ (worker[k] = "submitting" => prior'[k] = prior[k])
         \/ worker[k] = "none" /\ Dispatch(k)
         \/ worker[k] \in {"submitting", "polling"} /\ worker'[k] \in {"polling", "answered", "dead"}
<1>0. TypeOK
  BY DEF Base
<1>1. ASSUME NEW j \in Jobs, Dispatch(j)
      PROVE  worker[j] = "none" /\ \A i \in Jobs \ {j} : worker'[i] = worker[i] /\ prior'[i] = prior[i]
  BY <1>0, <1>1, DispatchDoes DEF Dispatch
<1>2. ASSUME NEW j \in Jobs, Submits(j) \/ Polls(j) \/ Expires(j)
      PROVE  /\ worker[j] \in {"submitting", "polling"} /\ worker'[j] \in {"polling", "answered"}
             /\ \A i \in Jobs \ {j} : worker'[i] = worker[i] /\ prior'[i] = prior[i]
  BY <1>2 DEF Submits, Polls, Expires, Concludes, Follows
<1>3. ASSUME NEW j \in Jobs, WorkerDies(j)
      PROVE  /\ worker[j] \in {"submitting", "polling"} /\ worker'[j] = "dead"
             /\ \A i \in Jobs \ {j} : worker'[i] = worker[i] /\ prior'[i] = prior[i]
  BY <1>0, <1>3 DEF WorkerDies, TypeOK
<1>4. ASSUME NEW j \in Jobs, JobMoves(j) \/ SweepBegin(j) PROVE UNCHANGED <<worker, prior>>
  BY <1>4 DEF JobMoves, SweepBegin, wvars
<1>5. ASSUME SweepEnds \/ Stops \/ Start \/ Tick \/ UNCHANGED vars PROVE UNCHANGED <<worker, prior>>
  BY <1>5 DEF SweepEnds, Stops, Start, Tick, vars, wvars
<1>6. CASE \E j \in Jobs : Dispatch(j)
  BY <1>1, <1>6
<1>7. CASE \E j \in Jobs : Submits(j) \/ Polls(j) \/ Expires(j)
  BY <1>2, <1>7
<1>8. CASE \E j \in Jobs : WorkerDies(j)
  BY <1>3, <1>8
<1>9. CASE UNCHANGED <<worker, prior>>
  BY <1>9
<1> QED BY <1>4, <1>5, <1>6, <1>7, <1>8, <1>9, StepDoes

\* Dispatches of a call stay in their order.
LEMMA OrderKept ==
  ASSUME "overlap" \notin Faults, Base, Order, [Next]_vars
  PROVE  Order'
<1> SUFFICES ASSUME NEW j \in Jobs, NEW k \in Jobs, j[1] = k[1], j[2] < k[2], worker'[k] # "none"
             PROVE  worker'[j] = "dead"
  BY DEF Order
<1>1. worker[k] # "none" => worker[j] = "dead"
  BY DEF Order
<1>2. worker[j] = "dead" => worker'[j] = "dead"
  BY WorkerMoves
<1>3. ASSUME worker[k] = "none", Dispatch(k) PROVE worker[j] = "dead"
  BY <1>3 DEF Dispatch, Redispatchable, Siblings
<1> QED BY <1>1, <1>2, <1>3, WorkerMoves

\* A dispatch's row has its stamp from the dispatch on.
LEMMA RowMoves ==
  ASSUME Base, [Next]_vars, NEW j \in Jobs, row[j] # NoRow
  PROVE  row'[j] # NoRow /\ row'[j].at = row[j].at
<1>1. worker[j] # "none"
  BY DEF Base, Fits, FitsAt
<1> QED BY <1>1, Timing

\* The history a submission brings stays its call's oldest.
LEMMA HistoryKept ==
  ASSUME "overlap" \notin Faults, Base, Order, HistoryRead, [Next]_vars
  PROVE  HistoryRead'
<1> SUFFICES ASSUME NEW j \in Jobs, NEW k \in Jobs, j[1] = k[1], j # k,
                    worker'[k] = "submitting", row'[j] # NoRow
             PROVE  prior'[k] # None /\ prior'[k] <= row'[j].at
  BY DEF HistoryRead
<1>0. TypeOK
  BY DEF Base
<1>1. CASE row[j] = NoRow
  \* The row is new: it is j that is dispatched, while k submits.
  <2>1. \E i \in Jobs : Dispatch(i) /\ i = j
    <3>1. ASSUME NEW i \in Jobs, Dispatch(i) PROVE i = j
      BY <1>0, <1>1, <3>1, DispatchDoes
    <3>2. ASSUME NEW i \in Jobs, Submits(i) \/ Polls(i) \/ Expires(i) PROVE i = j
      BY <1>1, <3>2 DEF Submits, Polls, Expires, Concludes, Follows
    <3>3. ASSUME NEW i \in Jobs, Submits(i) \/ Polls(i) \/ Expires(i) PROVE worker[i] \in {"submitting", "polling"}
      BY <3>3 DEF Submits, Polls, Expires
    <3>4. worker[j] \notin {"submitting", "polling"}
      BY <1>1 DEF Base, Fits, FitsAt
    <3>5. ASSUME NEW i \in Jobs, WorkerDies(i) \/ JobMoves(i) \/ SweepBegin(i) PROVE row'[j] = row[j]
      BY <3>5 DEF WorkerDies, JobMoves, SweepBegin, wvars
    <3>6. ASSUME SweepEnds PROVE row'[j] = row[j] \/ row[j].status = "running"
      BY <3>6 DEF SweepEnds
    <3>7. ASSUME Stops \/ Start \/ Tick \/ UNCHANGED vars PROVE row'[j] = row[j]
      BY <3>7 DEF Stops, Start, Tick, vars, wvars
    <3>8. row[j].status # "running"
      BY <1>1, Shapes
    <3> QED BY <1>1, <3>1, <3>2, <3>3, <3>4, <3>5, <3>6, <3>7, <3>8, StepDoes
  <2>2. Dispatch(j) /\ worker[j] = "none" /\ worker'[k] = worker[k]
    BY <1>0, <2>1, DispatchDoes DEF Dispatch
  <2>3. k[2] < j[2] => worker[k] = "dead"
    BY <2>2 DEF Dispatch, Redispatchable, Siblings
  <2>4. j[2] < k[2] => worker[j] = "dead"
    BY <2>2 DEF Order
  <2> QED BY <2>2, <2>3, <2>4, InOrder
<1>2. CASE row[j] # NoRow /\ worker[k] = "submitting"
  <2>1. prior[k] # None /\ prior[k] <= row[j].at /\ row'[j].at = row[j].at /\ prior'[k] = prior[k]
    BY <1>2, RowMoves, WorkerMoves DEF HistoryRead
  <2> QED BY <2>1
<1>3. CASE row[j] # NoRow /\ worker[k] = "none" /\ Dispatch(k)
  <2>1. j \in Siblings(k)
    BY DEF Siblings
  <2>2. prior'[k] # None /\ prior'[k] <= row[j].at /\ row'[j] = row[j]
    BY <1>0, <1>3, <2>1, DispatchDoes
  <2> QED BY <2>2
<1> QED BY <1>1, <1>2, <1>3, WorkerMoves

\* A dispatch that the runner forgets is as old as its memory.
LEMMA ForgottenIsOld ==
  ASSUME Base, Memory, serving, NEW j \in Jobs, Recalled(j), row[j] # NoRow
  PROVE  \/ Live(j) /\ j \notin Dropped
         \/ row[j].at <= since + Skew
         \/ Watermark # None /\ row[j].at <= Watermark + Skew
<1>0. /\ TypeOK /\ row[j].at \in Nat /\ Skew \in Nat /\ Ahead \in Nat /\ Ahead <= Skew
      /\ forgotten \in Times \cup {None} /\ Watermark \in Times \cup {None} /\ Times \subseteq Nat
  BY Bounds, Shapes, ForgetDoes DEF Base, TypeOK
<1>1. CASE Live(j) /\ j \in Dropped
  <2>1. Watermark # None /\ record[j].at <= Watermark
    BY <1>0, <1>1, ForgetDoes DEF Memory
  <2>2. row[j].at <= record[j].at + Ahead /\ record[j].at \in Nat
    BY <1>0, <1>1, Shapes DEF Base, Stamps, Live, TypeOK
  <2>3. Watermark \in Nat
    BY <1>0, <2>1
  <2>4. row[j].at <= Watermark + Skew
    BY <1>0, <2>1, <2>2, <2>3
  <2> QED BY <2>1, <2>4
<1>2. CASE forgotten # None /\ row[j].at <= forgotten + Skew
  <2>1. Watermark # None /\ forgotten <= Watermark
    BY <1>0, <1>2, ForgetDoes
  <2>2. forgotten \in Nat /\ Watermark \in Nat
    BY <1>0, <1>2, <2>1
  <2>3. row[j].at <= Watermark + Skew
    BY <1>0, <1>2, <2>1, <2>2
  <2> QED BY <2>1, <2>3
<1> QED BY <1>1, <1>2 DEF Recalled

\* Nothing that had a container is lost to the memory.
LEMMA RecalledKept ==
  ASSUME Base, Memory, AllRecalled, [Next]_vars
  PROVE  AllRecalled'
<1> SUFFICES ASSUME NEW k \in Jobs, container'[k] # "none" PROVE Recalled(k)'
  BY DEF AllRecalled
<1>0. /\ TypeOK /\ FitsAt(k) /\ container \in [Jobs -> {"none", "running", "gone"}]
      /\ (container[k] # "none" => Recalled(k))
  BY DEF Base, Fits, TypeOK, AllRecalled
<1>1. row[k] # NoRow => row'[k].at = row[k].at
  BY RowMoves
<1>2. container[k] # "none" => row[k] # NoRow
  BY <1>0 DEF FitsAt
<1>3. ASSUME container[k] # "none", UNCHANGED <<serving, since, forgotten>>,
             record'[k] = record[k] \/ (record'[k] # NoRecord /\ record'[k].stage = record[k].stage)
      PROVE  Recalled(k)'
  BY <1>0, <1>1, <1>2, <1>3 DEF Recalled, Live
<1>4. ASSUME NEW j \in Jobs, Submits(j) PROVE Recalled(k)'
  <2>0. container[k] # "none" /\ row'[k].at = row[k].at /\ Recalled(k) /\ UNCHANGED <<serving, since>>
    BY <1>0, <1>1, <1>2, <1>4 DEF Submits
  <2>1. CASE UNCHANGED <<forgotten, record>>
    BY <1>3, <2>0, <2>1
  <2>2. CASE serving /\ forgotten' = Watermark
    <3>1. k # j
      BY <1>0, <1>4 DEF Submits, FitsAt
    <3>2. k \notin Dropped => record'[k] = record[k]
      BY <1>0, <1>4, <3>1, ForgetDoes DEF Submits
    <3>3. \/ Live(k) /\ k \notin Dropped
          \/ row[k].at <= since + Skew
          \/ Watermark # None /\ row[k].at <= Watermark + Skew
      BY <1>2, <2>0, <2>2, ForgottenIsOld
    <3> QED BY <2>0, <2>2, <3>2, <3>3 DEF Recalled, Live
  <2> QED BY <1>4, <2>1, <2>2 DEF Submits
<1>5. ASSUME NEW j \in Jobs, Expires(j) PROVE Recalled(k)'
  <2>1. container[k] # "none" /\ UNCHANGED <<serving, since, forgotten>>
    BY <1>5 DEF Expires
  <2>2. record'[k] = record[k] \/ (record'[k] # NoRecord /\ record'[k].stage = record[k].stage)
    BY <1>5 DEF Expires, Moves
  <2> QED BY <1>3, <2>1, <2>2
<1>6. ASSUME NEW j \in Jobs, JobMoves(j) PROVE Recalled(k)'
  <2>1. CASE k = j
    <3>1. container[k] = "none" => record'[k].stage = "watching" \/ record'[k].stage = "ended"
      BY <1>0, <1>6, <2>1 DEF JobMoves, Moves
    <3>2. container[k] # "none" => record'[k].stage = "ended" \/ record'[k].stage = "watching"
      BY <1>0, <1>6, <2>1 DEF JobMoves, Moves, FitsAt
    <3>3. record'[k] # NoRecord
      BY <1>6, <2>1 DEF JobMoves, Moves
    <3> QED BY <3>1, <3>2, <3>3 DEF Recalled, Live
  <2>2. CASE k # j
    <3>1. record'[k] = record[k] /\ container'[k] = container[k] /\ UNCHANGED <<serving, since, forgotten>>
      BY <1>0, <1>6, <2>2 DEF JobMoves, Moves
    <3> QED BY <1>3, <3>1
  <2> QED BY <2>1, <2>2
<1>7. ASSUME Stops PROVE Recalled(k)'
  BY <1>7 DEF Stops, Recalled
<1>8. ASSUME Start PROVE Recalled(k)'
  <2>1. row'[k] = row[k] /\ row[k] # NoRow /\ since' = now
    BY <1>0, <1>8 DEF Start, wvars, FitsAt
  <2>2. row[k].at <= now + Ahead
    BY <2>1 DEF Base, Stamps
  <2>3. row[k].at \in Nat /\ now \in Nat /\ Ahead \in Nat /\ Skew \in Nat /\ Ahead <= Skew
    BY <1>0, Bounds, Shapes DEF TypeOK
  <2>4. row[k].at <= now + Skew
    BY <2>2, <2>3
  <2> QED BY <2>1, <2>4 DEF Recalled
<1>9. ASSUME NEW j \in Jobs, Dispatch(j) \/ Polls(j) \/ WorkerDies(j) \/ SweepBegin(j) PROVE Recalled(k)'
  BY <1>3, <1>9 DEF Dispatch, Polls, WorkerDies, SweepBegin, rvars
<1>10. ASSUME SweepEnds \/ Tick \/ UNCHANGED vars PROVE Recalled(k)'
  BY <1>3, <1>10 DEF SweepEnds, Tick, vars, rvars
<1> QED BY <1>4, <1>5, <1>6, <1>7, <1>8, <1>9, <1>10, StepDoes

\* A new job of a call is taken in only when no other of it had a container:
\* the memory that cannot answer for the others refuses it.
LEMMA AcceptsAlone ==
  ASSUME Base, Memory, HistoryRead, AllRecalled, NEW k \in Jobs,
         worker[k] = "submitting", serving, KeptLedger[k[1]] = None, ~Unaccountable(k),
         NEW j \in Jobs, j[1] = k[1], j # k
  PROVE  container[j] = "none"
<1> SUFFICES ASSUME container[j] # "none" PROVE FALSE
  OBVIOUS
<1>0. /\ TypeOK /\ row[j].at \in Nat /\ Skew \in Nat /\ since \in Nat /\ row[j] # NoRow
      /\ Watermark \in Times \cup {None} /\ Times \subseteq Nat
      /\ prior[k] \in Times \cup {None} /\ j[1] \in Calls
  BY Bounds, Shapes, ForgetDoes DEF Base, TypeOK, Fits, FitsAt, Calls
<1>1. prior[k] # None /\ prior[k] <= row[j].at
  BY <1>0 DEF HistoryRead
<1>2. ~(Live(j) /\ j \notin Dropped)
  <2>1. Live(j) /\ j \notin Dropped => KeptLedger[j[1]] = j
    BY <1>0, ForgetDoes DEF Memory
  <2> QED BY <2>1, JobsAssumption
<1>3. \/ row[j].at <= since + Skew
      \/ Watermark # None /\ row[j].at <= Watermark + Skew
  <2>1. Recalled(j)
    BY DEF AllRecalled
  <2> QED BY <1>0, <1>2, <2>1, ForgottenIsOld
<1>4. /\ RememberingSince \in Nat /\ since <= RememberingSince
      /\ Watermark # None => Watermark <= RememberingSince
  BY <1>0, RememberingIs
<1>5. row[j].at <= RememberingSince + Skew
  <2>1. CASE row[j].at <= since + Skew
    BY <1>0, <1>4, <2>1
  <2>2. CASE Watermark # None /\ row[j].at <= Watermark + Skew
    <3>1. Watermark \in Nat
      BY <1>0, <2>2
    <3> QED BY <1>0, <1>4, <2>2, <3>1
  <2> QED BY <1>3, <2>1, <2>2
<1>6. prior[k] \in Nat
  BY <1>0, <1>1
<1>7. prior[k] <= RememberingSince + Skew
  BY <1>0, <1>1, <1>4, <1>5, <1>6
<1> QED BY <1>1, <1>7 DEF Unaccountable

\* So a call's containers stay one.
LEMMA AloneKept ==
  ASSUME Base, Memory, HistoryRead, AllRecalled, Alone, [Next]_vars
  PROVE  Alone'
<1> SUFFICES ASSUME NEW j \in Jobs, NEW k \in Jobs, j[1] = k[1], j # k, container'[j] # "none"
             PROVE  ~Live(k)' /\ container'[k] = "none"
  BY DEF Alone
<1>0. /\ TypeOK /\ FitsAt(k) /\ container \in [Jobs -> {"none", "running", "gone"}]
      /\ NoRecord.stage = "none" /\ None \notin Jobs
  BY Shapes, JobsAssumption DEF Base, Fits, TypeOK
<1>1. /\ container[j] # "none" => ~Live(k) /\ container[k] = "none"
      /\ container[k] # "none" => ~Live(j) /\ container[j] = "none"
  BY DEF Alone
<1>2. Live(j) => ~Live(k)
  BY <1>0 DEF Memory
<1>3. ASSUME container[j] # "none", Live(k)' => Live(k), container'[k] = container[k]
      PROVE  ~Live(k)' /\ container'[k] = "none"
  BY <1>1, <1>3
<1>4. ASSUME NEW i \in Jobs, Submits(i) PROVE ~Live(k)' /\ container'[k] = "none"
  <2>0. container[j] # "none" /\ container' = container
    BY <1>4 DEF Submits
  <2>1. CASE record'[k] = record[k] \/ record'[k] = NoRecord
    BY <1>3, <2>0, <2>1 DEF Live
  <2>2. CASE k = i /\ serving /\ KeptLedger[i[1]] = None /\ ~Unaccountable(i)
    <3>1. worker[k] = "submitting"
      BY <1>4, <2>2 DEF Submits
    <3> QED BY <2>0, <2>2, <3>1, AcceptsAlone
  <2> QED BY <1>0, <1>4, <2>1, <2>2, ForgetDoes DEF Submits
<1>5. ASSUME NEW i \in Jobs, Expires(i) PROVE ~Live(k)' /\ container'[k] = "none"
  <2>1. container[j] # "none" /\ (container[k] = "none" => container'[k] = "none") /\ (Live(k)' => Live(k))
    BY <1>5 DEF Expires, Moves, Live
  <2> QED BY <1>1, <2>1
<1>6. ASSUME NEW i \in Jobs, JobMoves(i) PROVE ~Live(k)' /\ container'[k] = "none"
  <2>0. /\ Live(i) /\ \A l \in Jobs \ {i} : record'[l] = record[l] /\ container'[l] = container[l]
        /\ Live(k)' => Live(k)
    BY <1>0, <1>6 DEF JobMoves, Moves, Live
  <2>1. CASE container[j] # "none"
    <3>1. k # i
      BY <1>1, <2>0, <2>1
    <3> QED BY <1>3, <2>0, <2>1, <3>1
  <2>2. CASE container[j] = "none"
    <3>1. j = i
      BY <2>0, <2>2
    <3>2. ~Live(k) /\ container'[k] = container[k]
      BY <1>2, <2>0, <3>1
    <3>3. container[k] = "none"
      BY <1>1, <2>0, <3>1
    <3> QED BY <2>0, <3>2, <3>3
  <2> QED BY <2>1, <2>2
<1>7. ASSUME Stops PROVE ~Live(k)' /\ container'[k] = "none"
  BY <1>1, <1>7 DEF Stops, Live
<1>8. ASSUME Start PROVE ~Live(k)' /\ container'[k] = "none"
  <2>1. container[j] # "none" /\ (container[k] = "none" => container'[k] = "none") /\ (Live(k)' => Live(k))
    BY <1>0, <1>8 DEF Start, Live
  <2> QED BY <1>1, <2>1
<1>9. ASSUME NEW i \in Jobs, Dispatch(i) \/ Polls(i) \/ WorkerDies(i) \/ SweepBegin(i)
      PROVE  ~Live(k)' /\ container'[k] = "none"
  <2>1. UNCHANGED <<record, container>>
    BY <1>9 DEF Dispatch, Polls, WorkerDies, SweepBegin, rvars
  <2> QED BY <1>3, <2>1 DEF Live
<1>10. ASSUME SweepEnds \/ Tick \/ UNCHANGED vars PROVE ~Live(k)' /\ container'[k] = "none"
  <2>1. UNCHANGED <<record, container>>
    BY <1>10 DEF SweepEnds, Tick, vars, rvars
  <2> QED BY <1>3, <2>1 DEF Live
<1> QED BY <1>4, <1>5, <1>6, <1>7, <1>8, <1>9, <1>10, StepDoes

\* EffectOnce, for any dispatches of any calls, restarts, retentions and clocks
\* within the skew: where a call is dispatched again only once the worker that
\* had it is gone, at most one of its jobs ever gets a container (submit refuses
\* what its memory cannot answer for, _remembering_since).
THEOREM OneEffect == "overlap" \notin Faults => (Spec => []EffectOnce)
<1> SUFFICES ASSUME "overlap" \notin Faults PROVE Spec => []EffectOnce
  OBVIOUS
<1> DEFINE I == Base /\ Memory /\ Effect
<1>1. Init => I
  <2>1. Init => Effect
    BY DEF Init, Effect, Order, HistoryRead, AllRecalled, Alone
  <2> QED BY <2>1, BaseFirst, DiskFirst
<1>2. I /\ [Next]_vars => I'
  BY BaseKept, MemoryKept, OrderKept, HistoryKept, RecalledKept, AloneKept DEF Effect
<1>3. I => EffectOnce
  <2> SUFFICES ASSUME Alone, NEW c \in Calls
               PROVE  Cardinality({j \in Jobs : j[1] = c /\ container[j] # "none"}) <= 1
    BY DEF EffectOnce, Effect
  <2> DEFINE S == {j \in Jobs : j[1] = c /\ container[j] # "none"}
  <2>1. \A x, y \in S : x = y
    BY DEF Alone
  <2> HIDE DEF S
  <2>2. Cardinality(S) <= 1
    BY <2>1, AtMostOne
  <2> QED BY <2>2 DEF S
<1> HIDE DEF I
<1> QED BY <1>1, <1>2, <1>3, PTL DEF Spec

=============================================================================
