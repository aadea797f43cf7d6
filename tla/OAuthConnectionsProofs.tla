----------------------- MODULE OAuthConnectionsProofs -----------------------
(***************************************************************************)
(* What OAuthConnections promises, for any number of tool calls and of     *)
(* deliveries of the handle: no rotated token is presented again, a new    *)
(* grant is not overwritten by an older one, and the answer a browser gets *)
(* is true.                                                                *)
(***************************************************************************)
EXTENDS OAuthConnections, TLAPS

(***************************************************************************)
(* The inductive invariant.                                                *)
(***************************************************************************)

Conn == [status : Statuses \cup {"none"}, tok : Tokens, stale : BOOLEAN, fails : 0..(GiveUp - 1)]
Renewal == [pc : {"idle", "found", "holding", "saving", "recovering", "using"}, new : Tokens]
Handle == [phase : {"pending", "expired", "spent", "gone"}, outcome : {"none", "connected", "refused"}]
Visit == [pc : {"idle", "peeked", "granted", "claimed", "exchanged", "loaded", "stored",
                "reassert", "done"},
          new : Tokens, seen : Statuses \cup {"none"}, connected : BOOLEAN]

\* The type invariant, by who writes what.
ConnOK == conn \in Conn /\ (conn.tok # 0 => conn.status # "none") /\ conn.tok <= issued
RenewersOK == lock \in Renewers \cup {None} /\ renewer \in [Renewers -> Renewal] /\ refresher \in BOOLEAN
ProviderOK ==
  /\ issued \in Tokens
  /\ rotated \subseteq 1..issued /\ lost \subseteq rotated /\ replayed \subseteq rotated
  /\ live \subseteq (1..issued) \ rotated
  /\ grant \subseteq 1..issued
  /\ code \in {"waiting", "good", "spent"}
HandleOK ==
  /\ flow \in Flows /\ handle \in Handle /\ claimant \in Visits \cup {None}
  /\ visit \in [Visits -> Visit] /\ kept \in BOOLEAN
AdminOK ==
  /\ test \in Statuses \cup {None} /\ deleting \in Tokens \cup {None}
  /\ decisions \in 0..Decisions /\ mishaps \in 0..Mishaps
Types == ConnOK /\ RenewersOK /\ ProviderOK /\ HandleOK /\ AdminOK

\* Who works on the row holds its lock.
Working == {"holding", "saving", "using"}
Mutex == \A r \in Renewers : renewer[r].pc \in Working => lock = r

\* The row of a renewal that is to be saved still has the token it replaces.
SavingParts ==
  \A r \in Renewers :
    At(r, "saving") =>
      /\ conn.tok \in rotated
      /\ renewer[r].new \in (1..issued) \ rotated
      /\ conn.tok \in grant => renewer[r].new \in grant

\* The token set a delivery carries is nobody else's.
CarriedParts ==
  \A v \in Visits :
    visit[v].new # 0 =>
      /\ visit[v].new \in grant \ rotated
      /\ visit[v].new # conn.tok
      /\ \A r \in Renewers : At(r, "saving") => renewer[r].new # visit[v].new
      /\ \A w \in Visits : w # v => visit[w].new # visit[v].new

\* A token the row holds is replaced only while its replacement is being saved,
\* or for good when the replacement was lost.
RowParts ==
  conn.tok \in rotated \ lost => \E r \in Renewers : At(r, "saving")

TokenParts == Mutex /\ SavingParts /\ CarriedParts /\ RowParts /\ NoReplay

\* A delivery that has the provider's answer, and is not answered itself.
Redeemed(v) == visit[v].pc \in {"exchanged", "loaded", "stored", "reassert"}

\* The claim is one visit's, until its grant is kept.
ClaimParts ==
  /\ \A v \in Visits :
       visit[v].pc \in {"claimed", "exchanged", "loaded"} => claimant = v /\ ~kept
  /\ kept => handle.phase # "pending"
  /\ \A v \in Visits : Is(v, "stored") => kept

\* A code is redeemed by one delivery, and a device's handle has no receipt.
CodeParts ==
  /\ flow = "code" =>
       /\ \A v \in Visits : Redeemed(v) => code = "spent"
       /\ \A v, w \in Visits : Redeemed(v) /\ Redeemed(w) => v = w
       /\ \A v \in Visits : visit[v].pc \notin {"peeked", "granted"}
  /\ flow # "code" =>
       /\ handle.outcome = "none"
       /\ \A v \in Visits : visit[v].pc \notin {"claimed", "reassert"}

\* Once "connected" is the answer, no delivery is left to say otherwise.
AnswerParts ==
  /\ \A v \in Visits : visit[v].connected => kept
  /\ handle.outcome = "connected" => kept
  /\ (handle.outcome = "connected" \/ \E v \in Visits : visit[v].connected) /\ flow = "code" =>
       \A w \in Visits : ~Redeemed(w)
  /\ \A v \in Visits : Is(v, "reassert") /\ kept => mishaps > 0

LandingParts == ClaimParts /\ CodeParts /\ AnswerParts /\ LandingIsTrue

-----------------------------------------------------------------------------
(* Types.                                                                  *)

USE BoundsAssumption, GiveUpAssumption

\* A renewal that goes somewhere keeps the others where they are.
LEMMA GoesTo ==
  ASSUME renewer \in [Renewers -> Renewal], NEW r \in Renewers,
         NEW pc \in {"idle", "found", "holding", "saving", "recovering", "using"}, GoTo(r, pc)
  PROVE  /\ renewer' \in [Renewers -> Renewal]
         /\ renewer'[r].pc = pc
         /\ \A s \in Renewers \ {r} : renewer'[s] = renewer[s]
<1>1. [pc |-> pc, new |-> 0] \in Renewal
  BY DEF Renewal, Tokens
<1> QED BY <1>1 DEF GoTo

\* Asking for a new sign-in, or counting a failure, leaves the token (mark_needs_reauth).
LEMMA Reauth ==
  ASSUME ConnOK, NeedsReauth \/ Count
  PROVE  conn' \in Conn /\ conn'.tok = conn.tok /\ conn'.status \in {"needs_reauth", conn.status}
<1> DEFINE c1 == [conn EXCEPT !.status = "needs_reauth"]
           c2 == [c1 EXCEPT !.fails = 0]
           c3 == [conn EXCEPT !.fails = conn.fails + 1]
<1>0. conn \in Conn
  BY DEF ConnOK
<1>1. c1 \in Conn /\ c1.tok = conn.tok /\ c1.status = "needs_reauth"
  BY <1>0 DEF Conn, Statuses
<1>2. CASE NeedsReauth
  <2>1. conn' = c2
    BY <1>2 DEF NeedsReauth
  <2> HIDE DEF c1
  <2>2. c2 \in Conn /\ c2.tok = c1.tok /\ c2.status = c1.status
    BY <1>1 DEF Conn
  <2> HIDE DEF c2
  <2> QED BY <1>1, <2>1, <2>2
<1>3. CASE conn' = c3 /\ conn.fails + 1 < GiveUp
  <2>1. conn.fails + 1 \in 0..(GiveUp - 1)
    BY <1>0, <1>3 DEF Conn
  <2>2. c3 \in Conn /\ c3.tok = conn.tok /\ c3.status = conn.status
    BY <1>0, <2>1 DEF Conn
  <2> QED BY <1>3, <2>2
<1>4. NeedsReauth \/ (conn' = c3 /\ conn.fails + 1 < GiveUp)
  <2>1. conn.fails \in Nat
    BY <1>0 DEF Conn
  <2>2. CASE conn.fails + 1 >= GiveUp
    BY <2>2, Zenon DEF Count
  <2>3. CASE ~(conn.fails + 1 >= GiveUp)
    <3>1. conn.fails + 1 < GiveUp
      BY <2>1, <2>3
    <3>2. NeedsReauth \/ conn' = c3
      BY <2>3, Zenon DEF Count
    <3> QED BY <3>1, <3>2
  <2> QED BY <2>2, <2>3
<1> QED BY <1>2, <1>3, <1>4

\* The row after an assignment that leaves its token alone, or clears it.
LEMMA RowTypes ==
  ASSUME ConnOK, issued' = issued, conn' \in Conn,
         (conn'.tok = conn.tok /\ (conn'.status # "none" \/ conn'.status = conn.status))
         \/ conn'.tok = 0, ProviderOK
  PROVE  ConnOK'
  BY DEF ConnOK, Conn, ProviderOK, Tokens

\* What the provider issues is new.
LEMMA IssueTypes ==
  ASSUME ProviderOK, Issue
  PROVE  issued' = issued + 1 /\ issued' \in Tokens /\ issued' # 0 /\ issued' \in 1..issued'
         /\ 1..issued \subseteq 1..issued' /\ issued' \notin 1..issued
  BY DEF ProviderOK, Issue, Tokens

\* A mishap is counted, or none happened.
LEMMA CountTypes ==
  ASSUME AdminOK, UNCHANGED adminVars, Mishap \/ UNCHANGED mishaps
  PROVE  AdminOK' /\ mishaps' >= mishaps
  BY DEF AdminOK, adminVars, Mishap

\* Renewing keeps the types (jhin_oauth/lifecycle.py).
LEMMA RenewingTypes ==
  ASSUME Types, TokenParts, Renewing
  PROVE  Types'
<1>0. ConnOK /\ RenewersOK /\ ProviderOK /\ HandleOK /\ AdminOK
  BY DEF Types
<1>c. conn \in Conn /\ renewer \in [Renewers -> Renewal]
  BY <1>0 DEF ConnOK, RenewersOK
<1>h. UNCHANGED <<flow, handle, claimant, visit, kept>> => HandleOK'
  BY <1>0 DEF HandleOK
<1>p. UNCHANGED <<issued, rotated, lost, replayed, live, grant, code>> => ProviderOK'
  BY <1>0 DEF ProviderOK
<1>n. UNCHANGED <<conn, issued>> => ConnOK'
  BY <1>0 DEF ConnOK
<1>1. ASSUME NEW r \in Renewers, Find(r) PROVE Types'
  <2>1. RenewersOK'
    BY <1>0, <1>1, GoesTo DEF Find, RenewersOK, rowVars
  <2> QED BY <1>0, <1>1, <1>h, <1>p, <1>n, <2>1, CountTypes
          DEF Find, Types, rowVars, providerVars, handleVars
<1>2. ASSUME NEW r \in Renewers, Lock(r) PROVE Types'
  <2>1. RenewersOK'
    <3>1. \E pc \in {"holding", "using", "idle"} : GoTo(r, pc)
      BY <1>2 DEF Lock, Locked
    <3>2. lock' \in {lock, r} /\ UNCHANGED refresher
      BY <1>2 DEF Lock, Locked
    <3> QED BY <1>0, <3>1, <3>2, GoesTo DEF RenewersOK
  <2> QED BY <1>0, <1>2, <1>h, <1>p, <1>n, <2>1, CountTypes
          DEF Lock, Locked, Types, providerVars, handleVars
<1>3. ASSUME NEW r \in Renewers, EndUse(r) \/ Refused(r) \/ Unreached(r) \/ Save(r) PROVE RenewersOK'
  <2>1. GoTo(r, "idle") /\ lock' = None /\ UNCHANGED refresher
    BY <1>3 DEF EndUse, Refused, Unreached, Save
  <2> QED BY <1>0, <2>1, GoesTo DEF RenewersOK
<1>4. ASSUME NEW r \in Renewers, EndUse(r) PROVE Types'
  BY <1>0, <1>3, <1>4, <1>h, <1>p, <1>n, CountTypes
     DEF EndUse, Types, rowVars, providerVars, handleVars
<1>t. conn.tok \in rotated \/ conn.tok \in live => conn.tok \in 1..issued
  BY <1>0 DEF ProviderOK
<1>5. ASSUME NEW r \in Renewers, Refused(r) PROVE Types'
  <2>1. ConnOK'
    BY <1>0, <1>5, Reauth, RowTypes DEF Refused
  <2>2. ProviderOK'
    BY <1>0, <1>5 DEF Refused, Present, ProviderOK, handleVars
  <2> QED BY <1>0, <1>3, <1>5, <1>h, <2>1, <2>2, CountTypes DEF Refused, Types, handleVars
<1>6. ASSUME NEW r \in Renewers, Renew(r) PROVE Types'
  <2>1. Issue /\ conn.tok \in live /\ conn.tok \in 1..issued
    BY <1>6, <1>t DEF Renew
  <2>2. RenewersOK'
    <3>1. [pc |-> "saving", new |-> issued'] \in Renewal
      BY <1>0, <2>1, IssueTypes DEF Renewal
    <3> QED BY <1>0, <1>6, <3>1 DEF Renew, RenewersOK, rowVars
  <2>3. ProviderOK'
    <3>1. /\ live' = (live \ {conn.tok}) \cup {issued'} /\ rotated' = rotated \cup {conn.tok}
          /\ grant' \in {grant, grant \cup {issued'}} /\ UNCHANGED <<lost, replayed, code>>
      BY <1>6 DEF Renew
    <3>2. issued' \in Tokens /\ issued' \in 1..issued' /\ issued' \notin 1..issued
          /\ 1..issued \subseteq 1..issued'
      BY <1>0, <2>1, IssueTypes
    <3> QED BY <1>0, <2>1, <3>1, <3>2 DEF ProviderOK
  <2>4. ConnOK'
    BY <1>0, <1>6, <2>1, IssueTypes DEF Renew, rowVars, ConnOK, Conn, ProviderOK, Tokens
  <2> QED BY <1>0, <1>6, <1>h, <2>2, <2>3, <2>4, CountTypes DEF Renew, Types
<1>7. ASSUME NEW r \in Renewers, Unreached(r) PROVE Types'
  <2>1. conn' \in Conn /\ conn'.tok = conn.tok /\ conn'.status \in {"needs_reauth", conn.status}
    BY <1>0, <1>7, Reauth DEF Unreached
  <2>2. CASE Rotates
    <3>1. issued' \in Tokens /\ issued' \in 1..issued' /\ issued' \notin 1..issued
          /\ 1..issued \subseteq 1..issued' /\ issued' = issued + 1
      BY <1>0, <2>2, IssueTypes DEF Rotates
    <3>2. /\ live' = (live \ {conn.tok}) \cup {issued'} /\ rotated' = rotated \cup {conn.tok}
          /\ lost' = lost \cup {conn.tok} /\ conn.tok \in 1..issued /\ UNCHANGED <<grant, code>>
          /\ replayed' = replayed \cup ({conn.tok} \cap (rotated \ lost))
      BY <1>7, <1>t, <2>2 DEF Rotates, Unreached, Present, handleVars
    <3>3. ProviderOK'
      BY <1>0, <3>1, <3>2 DEF ProviderOK
    <3>4. ConnOK'
      BY <1>0, <2>1, <3>1 DEF ConnOK, Conn, ProviderOK, Tokens
    <3> QED BY <1>0, <1>3, <1>7, <1>h, <2>2, <3>3, <3>4, CountTypes
            DEF Unreached, Rotates, Types, handleVars
  <2>3. CASE UNCHANGED <<live, issued, rotated, lost, mishaps>>
    <3>1. ConnOK'
      BY <1>0, <2>1, <2>3, RowTypes
    <3>2. ProviderOK'
      BY <1>0, <1>7, <2>3 DEF Unreached, Present, ProviderOK, handleVars
    <3> QED BY <1>0, <1>3, <1>7, <1>h, <2>3, <3>1, <3>2, CountTypes
            DEF Unreached, Types, handleVars
  <2> QED BY <1>7, <2>2, <2>3 DEF Unreached
<1>8. ASSUME NEW r \in Renewers, Save(r) PROVE Types'
  <2>1. renewer[r].new \in 1..issued
    BY <1>8 DEF Save, TokenParts, SavingParts
  <2>2. ConnOK'
    <3>1. conn'.tok = renewer[r].new /\ conn'.status \in {"disabled", "active"} /\ conn' \in Conn
      BY <1>0, <1>8, <2>1 DEF Save, Conn, Statuses, ProviderOK, Tokens
    <3> QED BY <1>0, <1>8, <2>1, <3>1 DEF ConnOK, Save, providerVars, ProviderOK, Tokens
  <2> QED BY <1>0, <1>3, <1>8, <1>h, <1>p, <2>2, CountTypes DEF Save, Types, providerVars, handleVars
<1>9. ASSUME NEW r \in Renewers, SaveFails(r) \/ Die(r) PROVE Types'
  <2>1. RenewersOK'
    <3>1. \E pc \in {"idle", "recovering"} : GoTo(r, pc)
      BY <1>9 DEF SaveFails, Die
    <3>2. lock' \in {lock, None} /\ UNCHANGED refresher
      BY <1>9 DEF SaveFails, Die
    <3> QED BY <1>0, <3>1, <3>2, GoesTo DEF RenewersOK
  <2>2. lost' = lost \/ (lost' = lost \cup {conn.tok} /\ conn.tok \in rotated)
    BY <1>9 DEF SaveFails, Die, TokenParts, SavingParts
  <2>3. ProviderOK'
    BY <1>0, <1>9, <2>2 DEF SaveFails, Die, ProviderOK, handleVars
  <2> QED BY <1>0, <1>9, <1>h, <1>n, <2>1, <2>3, CountTypes DEF SaveFails, Die, Types, handleVars
<1>10. ASSUME NEW r \in Renewers, Recover(r) PROVE Types'
  <2>1. RenewersOK'
    BY <1>0, <1>10, GoesTo DEF Recover, RenewersOK
  <2>2. ConnOK'
    BY <1>0, <1>10, <1>n, Reauth, RowTypes DEF Recover, providerVars
  <2> QED BY <1>0, <1>10, <1>h, <1>p, <2>1, <2>2, CountTypes
          DEF Recover, Types, providerVars, handleVars
<1>11. CASE Idle
  <2>1. RenewersOK'
    BY <1>0, <1>11 DEF Idle, RenewersOK, rowVars
  <2> QED BY <1>0, <1>11, <1>h, <1>p, <1>n, <2>1, CountTypes
          DEF Idle, Types, rowVars, providerVars, handleVars
<1>12. CASE Expire
  <2>1. ConnOK'
    BY <1>0, <1>12 DEF Expire, ConnOK, Conn, providerVars
  <2>2. RenewersOK'
    BY <1>0, <1>12 DEF Expire, RenewersOK
  <2> QED BY <1>0, <1>12, <1>h, <1>p, <2>1, <2>2, CountTypes
          DEF Expire, Types, providerVars, handleVars
<1>13. CASE Withdraw
  <2>1. RenewersOK'
    BY <1>0, <1>13 DEF Withdraw, RenewersOK, rowVars
  <2>2. ProviderOK'
    BY <1>0, <1>13 DEF Withdraw, ProviderOK, handleVars
  <2> QED BY <1>0, <1>13, <1>h, <1>n, <2>1, <2>2, CountTypes
          DEF Withdraw, Types, rowVars, handleVars
<1> QED BY <1>1, <1>2, <1>4, <1>5, <1>6, <1>7, <1>8, <1>9, <1>10, <1>11, <1>12, <1>13
        DEF Renewing, Proceed

\* The administrator's operations keep the types (jhin_api/connections/service.py).
LEMMA AdministeringTypes ==
  ASSUME Types, Administering
  PROVE  Types'
<1>0. ConnOK /\ RenewersOK /\ ProviderOK /\ HandleOK /\ AdminOK
  BY DEF Types
<1>c. conn \in Conn
  BY <1>0 DEF ConnOK
<1>h. UNCHANGED handleVars => HandleOK'
  BY <1>0 DEF HandleOK, handleVars
<1>p. UNCHANGED <<issued, rotated, lost, replayed, live, grant, code>> => ProviderOK'
  BY <1>0 DEF ProviderOK
<1>r. UNCHANGED <<lock, renewer, refresher>> => RenewersOK'
  BY <1>0 DEF RenewersOK
<1>n. UNCHANGED <<conn, issued>> => ConnOK'
  BY <1>0 DEF ConnOK
<1>1. ASSUME NEW status \in {"disabled", "active"}, SetStatus(status) PROVE Types'
  <2>1. conn' = [conn EXCEPT !.status = status]
    BY <1>1 DEF SetStatus
  <2>2. conn' \in Conn /\ conn'.tok = conn.tok /\ conn'.status # "none"
    BY <1>c, <2>1 DEF Conn, Statuses
  <2>3. ConnOK'
    BY <1>0, <1>1, <2>2, RowTypes DEF SetStatus, providerVars
  <2>4. AdminOK'
    BY <1>0, <1>1 DEF SetStatus, Decide, AdminOK
  <2> QED BY <1>1, <1>h, <1>p, <1>r, <2>3, <2>4 DEF SetStatus, Types, providerVars, handleVars
<1>2. CASE TestBegins
  <2>1. test' \in Statuses
    BY <1>0, <1>2 DEF TestBegins, ConnOK, Conn
  <2>2. AdminOK'
    BY <1>0, <1>2, <2>1 DEF TestBegins, Decide, AdminOK
  <2> QED BY <1>2, <1>h, <1>p, <1>r, <1>n, <2>2
          DEF TestBegins, Types, providerVars, handleVars, rowVars
<1>3. CASE TestEnds
  <2>1. PICK verdict \in Verdicts :
          conn' = IF test = "disabled" \/ conn.status = "none" THEN conn
                  ELSE [conn EXCEPT !.status = Written(test, verdict, conn.status)]
    BY <1>3, Zenon DEF TestEnds
  <2>2. Written(test, verdict, conn.status) \in {verdict, conn.status}
    BY DEF Written
  <2>3. conn' \in Conn /\ conn'.tok = conn.tok
        /\ (conn'.status # "none" \/ conn'.status = conn.status)
    BY <1>c, <2>1, <2>2 DEF Conn, Statuses, Verdicts
  <2>4. ConnOK'
    BY <1>0, <1>3, <2>3, RowTypes DEF TestEnds, providerVars
  <2>5. AdminOK'
    BY <1>0, <1>3 DEF TestEnds, AdminOK
  <2> QED BY <1>3, <1>h, <1>p, <1>r, <2>4, <2>5 DEF TestEnds, Types, providerVars, handleVars
<1>4. CASE DeleteBegins
  <2>1. AdminOK'
    BY <1>0, <1>4 DEF DeleteBegins, Decide, AdminOK, ConnOK, Conn
  <2>2. ProviderOK'
    BY <1>0, <1>4 DEF DeleteBegins, ProviderOK, handleVars
  <2> QED BY <1>4, <1>h, <1>r, <1>n, <2>1, <2>2
          DEF DeleteBegins, Types, providerVars, handleVars, rowVars
<1>5. CASE DeleteEnds
  <2>1. AdminOK'
    BY <1>0, <1>5 DEF DeleteEnds, Mishap, AdminOK
  <2>2. ConnOK'
    <3> DEFINE c1 == [conn EXCEPT !.tok = 0]
               c2 == [c1 EXCEPT !.stale = FALSE]
    <3>1. conn' \in {conn, c2, NoConn}
      BY <1>5 DEF DeleteEnds
    <3>2. c1 \in Conn /\ c1.tok = 0
      BY <1>c DEF Conn, Tokens
    <3> HIDE DEF c1
    <3>3. c2 \in Conn /\ c2.tok = 0
      BY <3>2 DEF Conn
    <3>4. NoConn \in Conn /\ NoConn.tok = 0
      BY DEF NoConn, Conn, Tokens
    <3>5. UNCHANGED issued
      BY <1>5 DEF DeleteEnds, providerVars
    <3> HIDE DEF c2
    <3> QED BY <1>0, <1>c, <3>1, <3>3, <3>4, <3>5, RowTypes
  <2>3. HandleOK'
    <3>1. handle' \in Handle
      BY <1>0, <1>5 DEF DeleteEnds, HandleOK, Handle
    <3> QED BY <1>0, <1>5, <3>1 DEF DeleteEnds, HandleOK
  <2> QED BY <1>5, <1>p, <1>r, <2>1, <2>2, <2>3 DEF DeleteEnds, Types, providerVars
<1> QED BY <1>1, <1>2, <1>3, <1>4, <1>5 DEF Administering, Disable, Enable

VisitPcs == {"idle", "peeked", "granted", "claimed", "exchanged", "loaded", "stored", "reassert", "done"}

\* The deliveries other than v are where they were.
Others(v) == \A w \in Visits \ {v} : visit'[w] = visit[w]

\* A delivery that moves keeps what it carries.
LEMMA MovesOne ==
  ASSUME visit \in [Visits -> Visit], NEW v \in Visits, NEW pc \in VisitPcs, Moves(v, pc)
  PROVE  /\ visit' \in [Visits -> Visit] /\ Others(v)
         /\ visit'[v].pc = pc /\ visit'[v].new = visit[v].new
         /\ visit'[v].seen = visit[v].seen /\ visit'[v].connected = visit[v].connected
<1> DEFINE w1 == [visit[v] EXCEPT !.pc = pc]
<1>1. w1 \in Visit /\ w1.pc = pc /\ w1.new = visit[v].new
      /\ w1.seen = visit[v].seen /\ w1.connected = visit[v].connected
  BY DEF Visit, VisitPcs
<1>2. visit' = [visit EXCEPT ![v] = w1]
  BY DEF Moves
<1> HIDE DEF w1
<1> QED BY <1>1, <1>2 DEF Others

\* A delivery that arrives carries nothing.
LEMMA ArrivesEmpty ==
  Arriving \in Visit /\ Arriving.new = 0 /\ Arriving.connected = FALSE
<1>1. 0 \in Tokens
  BY DEF Tokens
<1> QED BY <1>1 DEF Arriving, Visit

\* The fields of a delivery are assigned one by one.
LEMMA AssignsOne ==
  ASSUME NEW a \in Visit, NEW pc \in VisitPcs, NEW b \in BOOLEAN
  PROVE  /\ [a EXCEPT !.pc = pc] \in Visit
         /\ [a EXCEPT !.pc = pc].pc = pc
         /\ [a EXCEPT !.pc = pc].new = a.new
         /\ [a EXCEPT !.pc = pc].connected = a.connected
         /\ [a EXCEPT !.connected = b] \in Visit
         /\ [a EXCEPT !.connected = b].pc = a.pc
         /\ [a EXCEPT !.connected = b].new = a.new
         /\ [a EXCEPT !.connected = b].connected = b
  BY DEF Visit, VisitPcs

\* A delivery that is to write its refusal again.
Resettles(v) == visit' = [visit EXCEPT ![v] = [Arriving EXCEPT !.pc = "reassert"]]

\* A delivery that lands, or is to refuse again, carries nothing.
LEMMA LandsOne ==
  ASSUME visit \in [Visits -> Visit], NEW v \in Visits, NEW b \in BOOLEAN,
         Lands(v, b) \/ (Resettles(v) /\ ~b)
  PROVE  /\ visit' \in [Visits -> Visit] /\ Others(v)
         /\ visit'[v].pc \in {"done", "reassert"} /\ visit'[v].new = 0
         /\ Lands(v, b) => visit'[v].pc = "done"
         /\ Resettles(v) => visit'[v].pc = "reassert"
         /\ visit'[v].connected = b
<1> DEFINE a == Arriving
           w1 == [a EXCEPT !.pc = "done"]
           w2 == [w1 EXCEPT !.connected = b]
           w3 == [a EXCEPT !.pc = "reassert"]
<1>1. a \in Visit /\ a.new = 0 /\ a.connected = FALSE
  BY ArrivesEmpty
<1>3. Lands(v, b) => visit' = [visit EXCEPT ![v] = w2]
  BY DEF Lands
<1>4. Resettles(v) => visit' = [visit EXCEPT ![v] = w3]
  BY DEF Resettles
<1> HIDE DEF a
<1>5. w1 \in Visit /\ w1.pc = "done" /\ w1.new = 0
  BY <1>1, AssignsOne DEF VisitPcs
<1>6. w3 \in Visit /\ w3.pc = "reassert" /\ w3.new = 0 /\ w3.connected = FALSE
  BY <1>1, AssignsOne DEF VisitPcs
<1> HIDE DEF w1, w3
<1>7. w2 \in Visit /\ w2.pc = "done" /\ w2.new = 0 /\ w2.connected = b
  BY <1>5 DEF Visit
<1> HIDE DEF w2
<1> QED BY <1>3, <1>4, <1>6, <1>7 DEF Others

\* A delivery that redeems the code carries the token set the provider issued.
LEMMA RedeemsOne ==
  ASSUME Types, NEW v \in Visits, NEW pc \in VisitPcs, Redeem(v, pc)
  PROVE  /\ visit' \in [Visits -> Visit] /\ Others(v)
         /\ visit'[v].pc = pc /\ visit'[v].new = issued'
         /\ visit'[v].connected = visit[v].connected
         /\ Issue /\ live' = live \cup {issued'} /\ grant' = grant \cup {issued'}
         /\ code = "good" /\ code' = "spent"
<1> DEFINE w1 == [visit[v] EXCEPT !.pc = pc]
           w2 == [w1 EXCEPT !.new = issued']
<1>0. visit \in [Visits -> Visit] /\ ProviderOK
  BY DEF Types, HandleOK
<1>1. Issue /\ live' = live \cup {issued'} /\ grant' = grant \cup {issued'}
      /\ code = "good" /\ code' = "spent"
  BY DEF Redeem
<1>2. issued' \in Tokens
  BY <1>0, <1>1, IssueTypes
<1>3. w1 \in Visit /\ w1.pc = pc /\ w1.connected = visit[v].connected
  BY <1>0 DEF Visit, VisitPcs
<1>4. visit' = [visit EXCEPT ![v] = w2]
  BY DEF Redeem
<1> HIDE DEF w1
<1>5. w2 \in Visit /\ w2.pc = pc /\ w2.new = issued' /\ w2.connected = visit[v].connected
  BY <1>2, <1>3 DEF Visit
<1> HIDE DEF w2
<1> QED BY <1>0, <1>1, <1>4, <1>5 DEF Others

\* A refusal writes a receipt, or leaves the handle as it was; the claim is
\* released.
LEMMA SettlesOne ==
  ASSUME Types, NEW v \in Visits, Settle(v)
  PROVE  /\ visit' \in [Visits -> Visit] /\ Others(v)
         /\ visit'[v].pc = "done" /\ visit'[v].new = 0 /\ ~visit'[v].connected
         /\ handle' \in {handle, Receipt("refused")} /\ handle' \in Handle
         /\ claimant' \in {claimant, None} /\ claimant' # v
         /\ claimant # v => claimant' = claimant
         /\ Mishap \/ UNCHANGED mishaps
<1>1. Lands(v, FALSE) /\ Release(v)
  BY DEF Settle
<1>2. visit \in [Visits -> Visit] /\ handle \in Handle
  BY DEF Types, HandleOK
<1>3. v # None
  BY NoneAssumption
<1>4. handle' \in {handle, Receipt("refused")} /\ (Mishap \/ UNCHANGED mishaps)
  BY DEF Settle
<1>5. Receipt("refused") \in Handle
  BY DEF Receipt, Handle
<1>6. /\ claimant' \in {claimant, None} /\ claimant' # v
      /\ claimant # v => claimant' = claimant
  BY <1>1, <1>3 DEF Release
<1> QED BY <1>1, <1>2, <1>4, <1>5, <1>6, LandsOne

\* What the commit of a grant makes of the row (store_tokens).
LEMMA StoresRow ==
  ASSUME Types, CarriedParts, NEW v \in Visits, StoreGrant(v)
  PROVE  /\ conn' \in Conn /\ conn'.tok = visit[v].new /\ conn'.status # "none"
         /\ visit[v].new \in 0..issued
<1>0. conn \in Conn /\ visit \in [Visits -> Visit] /\ ProviderOK
  BY DEF Types, ConnOK, HandleOK
<1>1. visit[v].new \in 0..issued /\ visit[v].new \in Tokens
  BY <1>0 DEF CarriedParts, ProviderOK, Visit, Tokens
<1> DEFINE s == Written(visit[v].seen, Kept(visit[v].seen), conn.status)
<1>2. s \in Statuses
  <2>1. (visit[v].seen = "none") = (conn.status = "none")
    BY DEF StoreGrant, Committed
  <2>2. conn.status \in Statuses \cup {"none"} /\ visit[v].seen \in Statuses \cup {"none"}
    BY <1>0 DEF Conn, Visit
  <2>3. Kept(visit[v].seen) \in Statuses /\ Kept(visit[v].seen) # "none"
    BY DEF Kept, Statuses
  <2> QED BY <2>1, <2>2, <2>3 DEF Written
<1>3. conn' = [status |-> s, tok |-> visit[v].new, stale |-> FALSE, fails |-> 0]
  BY DEF StoreGrant, Committed
<1> HIDE DEF s
<1> QED BY <1>1, <1>2, <1>3 DEF Conn, Statuses

\* The delivery whose grant is committed has nothing left to carry.
LEMMA StoresOne ==
  ASSUME Types, NEW v \in Visits, StoreGrant(v)
  PROVE  /\ visit' \in [Visits -> Visit] /\ Others(v)
         /\ visit'[v].pc = "stored" /\ visit'[v].new = 0
         /\ visit'[v].connected = visit[v].connected
<1> DEFINE w1 == [visit[v] EXCEPT !.pc = "stored"]
           w2 == [w1 EXCEPT !.new = 0]
<1>0. visit \in [Visits -> Visit]
  BY DEF Types, HandleOK
<1>1. visit' = [visit EXCEPT ![v] = w2]
  BY DEF StoreGrant, Committed
<1>2. w1 \in Visit /\ w1.pc = "stored" /\ w1.connected = visit[v].connected
  BY <1>0 DEF Visit
<1> HIDE DEF w1
<1>3. w2 \in Visit /\ w2.pc = "stored" /\ w2.new = 0 /\ w2.connected = visit[v].connected
  BY <1>2 DEF Visit, Tokens
<1> HIDE DEF w2
<1> QED BY <1>0, <1>1, <1>3 DEF Others

\* The delivery that loads the row notes its status.
LEMMA LoadsOne ==
  ASSUME Types, NEW v \in Visits, Load(v)
  PROVE  /\ visit' \in [Visits -> Visit] /\ Others(v)
         /\ visit'[v].pc = "loaded" /\ visit'[v].new = visit[v].new
         /\ visit'[v].connected = visit[v].connected
<1> DEFINE w1 == [visit[v] EXCEPT !.pc = "loaded"]
           w2 == [w1 EXCEPT !.seen = conn.status]
<1>0. visit \in [Visits -> Visit] /\ conn.status \in Statuses \cup {"none"}
  BY DEF Types, HandleOK, ConnOK, Conn
<1>1. visit' = [visit EXCEPT ![v] = w2]
  BY DEF Load
<1>2. w1 \in Visit /\ w1.pc = "loaded" /\ w1.new = visit[v].new /\ w1.connected = visit[v].connected
  BY <1>0 DEF Visit
<1> HIDE DEF w1
<1>3. w2 \in Visit /\ w2.pc = "loaded" /\ w2.new = w1.new /\ w2.connected = w1.connected
  BY <1>0, <1>2 DEF Visit
<1> HIDE DEF w2
<1> QED BY <1>0, <1>1, <1>2, <1>3 DEF Others

\* The end of a delivery that is kept: the row's token stays, the handle has a
\* receipt or is gone.
LEMMA FinishesOne ==
  ASSUME Types, NEW v \in Visits, Finish(v)
  PROVE  /\ conn' \in Conn /\ conn'.tok = conn.tok
         /\ (conn'.status # "none" \/ conn'.status = conn.status)
         /\ handle' \in Handle
         /\ \/ handle' = Receipt("connected") /\ flow = "code"
            \/ handle' = [phase |-> "gone", outcome |-> "none"]
         /\ visit' \in [Visits -> Visit] /\ Others(v)
         /\ visit'[v].pc = "done" /\ visit'[v].new = 0
<1>0. conn \in Conn /\ visit \in [Visits -> Visit]
  BY DEF Types, ConnOK, HandleOK
<1>1. PICK verdict \in Verdicts :
        conn' = IF Kept(visit[v].seen) = "disabled" \/ conn.status = "none" THEN conn
                ELSE [conn EXCEPT !.status = Written("active", verdict, conn.status)]
  BY Zenon DEF Finish
<1>2. Written("active", verdict, conn.status) \in {verdict, conn.status}
  BY DEF Written
<1>3. conn' \in Conn /\ conn'.tok = conn.tok
      /\ (conn'.status # "none" \/ conn'.status = conn.status)
  BY <1>0, <1>1, <1>2 DEF Conn, Statuses, Verdicts
<1>4. (handle' = Receipt("connected") /\ flow = "code")
      \/ handle' = [phase |-> "gone", outcome |-> "none"]
  BY DEF Finish
<1>5. handle' \in Handle
  BY <1>4 DEF Handle, Receipt
<1>6. (flow = "device" \/ handle.phase = "spent") \in BOOLEAN
  OBVIOUS
<1>7. Lands(v, flow = "device" \/ handle.phase = "spent")
  BY DEF Finish
<1> QED BY <1>0, <1>3, <1>4, <1>5, <1>6, <1>7, LandsOne

\* A delivery of the handle keeps the types (jhin_api/oauth/service.py).
LEMMA AuthorizingTypes ==
  ASSUME Types, TokenParts, Authorizing
  PROVE  Types'
<1>0. ConnOK /\ RenewersOK /\ ProviderOK /\ HandleOK /\ AdminOK
  BY DEF Types
<1>c. conn \in Conn /\ visit \in [Visits -> Visit] /\ handle \in Handle /\ claimant \in Visits \cup {None}
  BY <1>0 DEF ConnOK, HandleOK
<1>h. ASSUME UNCHANGED <<flow, kept>>, visit' \in [Visits -> Visit], handle' \in Handle,
             claimant' \in Visits \cup {None}
      PROVE  HandleOK'
  BY <1>0, <1>h DEF HandleOK
<1>p. UNCHANGED <<issued, rotated, lost, replayed, live, grant>> /\ code' \in {code, "good", "spent"}
      => ProviderOK'
  BY <1>0 DEF ProviderOK
<1>r. UNCHANGED <<lock, renewer>> /\ refresher' \in {refresher, TRUE} => RenewersOK'
  BY <1>0 DEF RenewersOK
<1>n. UNCHANGED <<conn, issued>> => ConnOK'
  BY <1>0 DEF ConnOK
<1>a. UNCHANGED adminVars /\ (Mishap \/ UNCHANGED mishaps) => AdminOK'
  BY <1>0, CountTypes
\* Redeeming: the provider issues a token, and nothing else is written.
<1>d. ASSUME NEW v \in Visits, NEW pc \in VisitPcs, Redeem(v, pc), UNCHANGED <<conn, rotated, lost, replayed>>
      PROVE  ConnOK' /\ ProviderOK' /\ visit' \in [Visits -> Visit]
  <2>1. /\ Issue /\ live' = live \cup {issued'} /\ grant' = grant \cup {issued'} /\ code' = "spent"
        /\ visit' \in [Visits -> Visit]
    BY <1>d, RedeemsOne
  <2>2. /\ issued' = issued + 1 /\ issued' \in Tokens /\ issued' \in 1..issued'
        /\ 1..issued \subseteq 1..issued' /\ issued' \notin 1..issued
    BY <1>0, <2>1, IssueTypes
  <2>3. ProviderOK'
    BY <1>0, <1>d, <2>1, <2>2 DEF ProviderOK
  <2>4. ConnOK'
    BY <1>0, <1>d, <2>2 DEF ConnOK, Conn, ProviderOK, Tokens
  <2> QED BY <2>1, <2>3, <2>4
\* What leaves the row, the provider and the administrator as they were.
<1>u. ASSUME UNCHANGED <<rowVars, renewer, refresher, providerVars, grant, adminVars>>,
             Mishap \/ UNCHANGED mishaps
      PROVE  ConnOK' /\ RenewersOK' /\ ProviderOK' /\ AdminOK'
  <2>1. UNCHANGED <<conn, lock, renewer, refresher, live, issued, rotated, lost, replayed, code>>
    BY <1>u DEF rowVars, providerVars
  <2>2. UNCHANGED grant
    BY <1>u
  <2>3. UNCHANGED adminVars
    BY <1>u
  <2> QED BY <1>n, <1>p, <1>r, <1>a, <1>u, <2>1, <2>2, <2>3
<1>1. ASSUME NEW v \in Visits, Claim(v) PROVE Types'
  <2>1. visit' \in [Visits -> Visit]
    BY <1>1, <1>c, MovesOne DEF Claim, VisitPcs
  <2> QED BY <1>1, <1>c, <1>h, <1>u, <2>1 DEF Claim, Types
<1>2. ASSUME NEW v \in Visits, Replay(v) PROVE Types'
  <2>1. Lands(v, handle = Receipt("connected")) /\ (handle = Receipt("connected")) \in BOOLEAN
    BY <1>2 DEF Replay
  <2>2. visit' \in [Visits -> Visit]
    BY <1>c, <2>1, LandsOne
  <2> QED BY <1>2, <1>c, <1>h, <1>u, <2>2 DEF Replay, Types
<1>3. ASSUME NEW v \in Visits, Refuse(v) PROVE Types'
  BY <1>3, <1>c, <1>h, <1>u, SettlesOne DEF Refuse, Types
<1>4. ASSUME NEW v \in Visits, Exchange(v) \/ PollGrants(v) PROVE Types'
  <2>1. \E pc \in VisitPcs : Redeem(v, pc)
    BY <1>4 DEF Exchange, PollGrants, VisitPcs
  <2>2. UNCHANGED <<rowVars, renewer, refresher, rotated, lost, replayed, flow, kept, handle,
                    claimant, adminVars, mishaps>>
    BY <1>4 DEF Exchange, PollGrants
  <2>3. ConnOK' /\ ProviderOK' /\ visit' \in [Visits -> Visit]
    BY <1>d, <2>1, <2>2 DEF rowVars
  <2> QED BY <1>c, <1>h, <1>r, <1>a, <2>2, <2>3 DEF Types, rowVars
<1>5. ASSUME NEW v \in Visits, ExchangeLost(v) PROVE Types'
  <2>1. Lands(v, FALSE) /\ Release(v) /\ handle' = Receipt("refused") /\ Mishap /\ code' = "spent"
    BY <1>5 DEF ExchangeLost
  <2>2. visit' \in [Visits -> Visit]
    BY <1>c, <2>1, LandsOne
  <2>3. handle' \in Handle /\ claimant' \in Visits \cup {None}
    BY <1>c, <2>1 DEF Handle, Receipt, Release
  <2> QED BY <1>5, <1>h, <1>p, <1>r, <1>n, <1>a, <2>1, <2>2, <2>3 DEF ExchangeLost, Types, rowVars
<1>6. ASSUME NEW v \in Visits, Peek(v) PROVE Types'
  <2>1. visit' \in [Visits -> Visit]
    BY <1>6, <1>c, MovesOne, LandsOne DEF Peek, VisitPcs
  <2> QED BY <1>6, <1>c, <1>h, <1>u, <2>1 DEF Peek, Types
<1>7. ASSUME NEW v \in Visits, PollAgain(v) PROVE Types'
  <2>1. visit' \in [Visits -> Visit]
    BY <1>7, <1>c, MovesOne DEF PollAgain, VisitPcs
  <2> QED BY <1>7, <1>c, <1>h, <1>u, <2>1 DEF PollAgain, Types
<1>8. ASSUME NEW v \in Visits, PollLost(v) PROVE Types'
  <2>1. visit' \in [Visits -> Visit]
    BY <1>8, <1>c, MovesOne DEF PollLost, VisitPcs
  <2> QED BY <1>8, <1>c, <1>h, <1>p, <1>r, <1>n, <1>a, <2>1 DEF PollLost, Types, rowVars
<1>9. ASSUME NEW v \in Visits, Abandon(v) PROVE Types'
  <2>1. visit' \in [Visits -> Visit]
    BY <1>9, <1>c, LandsOne DEF Abandon
  <2>2. handle' \in Handle
    BY <1>9 DEF Abandon, Handle
  <2> QED BY <1>9, <1>c, <1>h, <1>u, <2>1, <2>2 DEF Abandon, Types
<1>10. ASSUME NEW v \in Visits, ClaimDevice(v) PROVE Types'
  <2>1. visit' \in [Visits -> Visit]
    BY <1>10, <1>c, MovesOne, LandsOne DEF ClaimDevice, VisitPcs
  <2>2. claimant' \in Visits \cup {None}
    BY <1>10, <1>c DEF ClaimDevice
  <2> QED BY <1>10, <1>c, <1>h, <1>u, <2>1, <2>2 DEF ClaimDevice, Types
<1>11. ASSUME NEW v \in Visits, Load(v) PROVE Types'
  BY <1>11, <1>c, <1>h, <1>u, LoadsOne DEF Load, Types
<1>12. ASSUME NEW v \in Visits, StoreGrant(v) PROVE Types'
  <2>1. ConnOK'
    <3>1. /\ conn' \in Conn /\ conn'.tok = visit[v].new /\ conn'.status # "none"
          /\ visit[v].new \in 0..issued
      BY <1>12, StoresRow DEF TokenParts
    <3>2. UNCHANGED issued
      BY <1>12 DEF StoreGrant, Committed, providerVars
    <3> QED BY <1>0, <3>1, <3>2 DEF ConnOK, ProviderOK, Tokens
  <2>2. visit' \in [Visits -> Visit]
    BY <1>12, StoresOne
  <2>3. handle' \in Handle /\ claimant' \in Visits \cup {None} /\ kept' \in BOOLEAN
    BY <1>12 DEF StoreGrant, Committed, Receipt, Handle
  <2>4. HandleOK'
    BY <1>0, <1>12, <2>2, <2>3 DEF HandleOK, StoreGrant, Committed
  <2> QED BY <1>12, <1>p, <1>r, <1>a, <2>1, <2>4 DEF StoreGrant, Committed, Types, providerVars
<1>13. ASSUME NEW v \in Visits, StoreFails(v) PROVE Types'
  <2>1. Lands(v, FALSE) \/ Resettles(v)
    BY <1>13 DEF StoreFails, Resettles
  <2>2. visit' \in [Visits -> Visit]
    BY <1>c, <2>1, LandsOne
  <2>3. claimant' \in Visits \cup {None}
    BY <1>13, <1>c DEF StoreFails, Release
  <2> QED BY <1>13, <1>c, <1>h, <1>u, <2>2, <2>3 DEF StoreFails, Types
<1>14. ASSUME NEW v \in Visits, Reassert(v) PROVE Types'
  <2>1. CASE Settle(v)
    BY <1>14, <2>1, <1>c, <1>h, <1>u, SettlesOne DEF Reassert, Types
  <2>2. CASE Lands(v, FALSE) /\ UNCHANGED <<handle, claimant, mishaps>>
    <3>1. visit' \in [Visits -> Visit]
      BY <1>c, <2>2, LandsOne
    <3> QED BY <1>14, <2>2, <1>c, <1>h, <1>u, <3>1 DEF Reassert, Types
  <2> QED BY <1>14, <2>1, <2>2 DEF Reassert
<1>15. ASSUME NEW v \in Visits, Finish(v) PROVE Types'
  <2>1. ConnOK'
    BY <1>0, <1>15, FinishesOne, RowTypes DEF Finish, providerVars
  <2>2. HandleOK'
    BY <1>c, <1>h, <1>15, FinishesOne DEF Finish
  <2> QED BY <1>15, <1>p, <1>r, <1>a, <2>1, <2>2 DEF Finish, Types, providerVars
<1>16. ASSUME NEW v \in Visits, Drop(v) PROVE Types'
  <2>1. visit' \in [Visits -> Visit]
    BY <1>16, <1>c, LandsOne DEF Drop
  <2>2. claimant' \in Visits \cup {None}
    BY <1>16, <1>c DEF Drop, Release
  <2> QED BY <1>16, <1>c, <1>h, <1>u, <2>1, <2>2 DEF Drop, Types
<1>17. CASE Approve
  BY <1>17, <1>0, <1>c, <1>h, <1>p, <1>r, <1>n, <1>a DEF Approve, Types, rowVars, handleVars
<1>18. CASE HandleExpires
  <2>1. handle' \in Handle
    BY <1>18, <1>c DEF HandleExpires, Handle
  <2> QED BY <1>18, <1>c, <1>h, <1>u, <2>1 DEF HandleExpires, Types
<1> QED BY <1>1, <1>2, <1>3, <1>4, <1>5, <1>6, <1>7, <1>8, <1>9, <1>10, <1>11, <1>12, <1>13,
           <1>14, <1>15, <1>16, <1>17, <1>18 DEF Authorizing

-----------------------------------------------------------------------------
(* Tokens.                                                                 *)

\* Only one renewal works on the row.
LEMMA OneWorks ==
  ASSUME Mutex, NEW r \in Renewers, renewer[r].pc \in Working
  PROVE  \A s \in Renewers : renewer[s].pc \in Working => s = r
  BY DEF Mutex

\* The renewal that holds the row sees a token that is its own to present.
LEMMA HolderSeesFresh ==
  ASSUME TokenParts, NEW r \in Renewers, At(r, "holding")
  PROVE  conn.tok \notin rotated \ lost
  BY OneWorks DEF TokenParts, RowParts, At, Working

\* Without a lock nobody saves.
LEMMA UnlockedIsCalm ==
  ASSUME Mutex, lock = None
  PROVE  \A r \in Renewers : renewer[r].pc \notin Working
  BY NoneAssumption DEF Mutex

\* What neither renews nor redeems: the row keeps its token, or is cleared
\* while nobody holds it, and deliveries keep or drop what they carry.
LEMMA QuietTokens ==
  ASSUME Types, TokenParts,
         UNCHANGED <<renewer, lock, rotated, lost, replayed, issued, grant>>,
         conn'.tok = conn.tok \/ (conn'.tok = 0 /\ lock = None),
         \A v \in Visits : visit'[v].new \in {0, visit[v].new}
  PROVE  TokenParts'
<1>1. Mutex'
  BY DEF TokenParts, Mutex
<1>2. SavingParts'
  BY UnlockedIsCalm DEF TokenParts, SavingParts, At, Working
<1>3. CarriedParts'
  BY DEF TokenParts, CarriedParts, At
<1>4. RowParts'
  <2>1. 0 \notin rotated
    BY DEF Types, ProviderOK
  <2> QED BY <2>1 DEF TokenParts, RowParts, At
<1> QED BY <1>1, <1>2, <1>3, <1>4 DEF TokenParts, NoReplay

\* A renewal that was not saving, and goes elsewhere.
LEMMA PassingTokens ==
  ASSUME Types, TokenParts, NEW r \in Renewers, ~At(r, "saving"), Mutex',
         \E pc \in {"idle", "found", "holding", "recovering", "using"} : GoTo(r, pc),
         UNCHANGED <<rotated, lost, replayed, issued, grant, visit>>,
         conn'.tok = conn.tok
  PROVE  TokenParts'
<1>1. /\ \A s \in Renewers \ {r} : renewer'[s] = renewer[s]
      /\ renewer'[r].pc # "saving"
  BY GoesTo DEF Types, RenewersOK
<1>2. \A s \in Renewers : (renewer'[s].pc = "saving") = (renewer[s].pc = "saving")
  BY <1>1 DEF At
<1>3. \A s \in Renewers : renewer[s].pc = "saving" => renewer'[s].new = renewer[s].new
  BY <1>1 DEF At
<1>4. SavingParts'
  BY <1>2, <1>3 DEF TokenParts, SavingParts, At
<1>5. CarriedParts'
  BY <1>2, <1>3 DEF TokenParts, CarriedParts, At
<1>6. RowParts'
  BY <1>2 DEF TokenParts, RowParts, At
<1> QED BY <1>4, <1>5, <1>6 DEF TokenParts, NoReplay

\* Renewing keeps what the tokens promise (lifecycle.py).
LEMMA RenewingTokens ==
  ASSUME Types, TokenParts, Renewing
  PROVE  TokenParts'
<1>0. /\ conn \in Conn /\ renewer \in [Renewers -> Renewal] /\ ProviderOK
      /\ Mutex /\ SavingParts /\ CarriedParts /\ RowParts /\ replayed = {}
  BY DEF Types, ConnOK, RenewersOK, TokenParts, NoReplay
<1>n. None \notin Renewers
  BY NoneAssumption
<1>1. ASSUME NEW r \in Renewers, Find(r) PROVE TokenParts'
  <2>1. GoTo(r, "found") /\ At(r, "idle") /\ UNCHANGED <<conn, lock>>
    BY <1>1 DEF Find, rowVars
  <2>2. Mutex'
    BY <1>0, <2>1, GoesTo DEF Mutex, Working
  <2> QED BY <1>1, <2>1, <2>2, PassingTokens DEF Find, At, providerVars, handleVars
<1>2. ASSUME NEW r \in Renewers, Lock(r) PROVE TokenParts'
  <2>1. /\ \/ lock' = r /\ \E pc \in {"holding", "using"} : GoTo(r, pc)
           \/ lock' = lock /\ GoTo(r, "idle")
        /\ lock = None /\ At(r, "found") /\ UNCHANGED conn
    BY <1>2 DEF Lock, Locked
  <2>2. Mutex'
    <3>1. \A s \in Renewers : renewer[s].pc \notin Working
      BY <1>0, <2>1, UnlockedIsCalm
    <3>2. \A s \in Renewers \ {r} : renewer'[s] = renewer[s]
      BY <1>0, <2>1, GoesTo
    <3>3. lock' = r \/ renewer'[r].pc = "idle"
      BY <1>0, <2>1, GoesTo
    <3> QED BY <3>1, <3>2, <3>3 DEF Mutex, Working
  <2> QED BY <1>2, <2>1, <2>2, PassingTokens DEF Lock, Locked, At, providerVars, handleVars
\* The renewal that held the row lets go of it.
<1>l. ASSUME NEW r \in Renewers, renewer[r].pc \in Working, GoTo(r, "idle") \/ GoTo(r, "recovering")
      PROVE  Mutex' /\ \A s \in Renewers : renewer'[s].pc # "saving"
  <2>1. \A s \in Renewers \ {r} : renewer'[s] = renewer[s] /\ renewer[s].pc \notin Working
    BY <1>0, <1>l, GoesTo, OneWorks
  <2>2. renewer'[r].pc \in {"idle", "recovering"}
    BY <1>0, <1>l, GoesTo
  <2> QED BY <2>1, <2>2 DEF Mutex, Working
\* With nobody saving, a row whose token is not replaced is all there is to show.
<1>e. ASSUME Mutex', \A s \in Renewers : renewer'[s].pc # "saving",
             conn'.tok \notin rotated' \ lost', replayed' = {},
             UNCHANGED visit,
             grant \subseteq grant', rotated' \subseteq rotated \cup {conn.tok},
             conn'.tok = conn.tok \/ \E r \in Renewers : At(r, "saving") /\ conn'.tok = renewer[r].new
      PROVE  TokenParts'
  <2>1. SavingParts' /\ RowParts'
    BY <1>e DEF SavingParts, RowParts, At
  <2>2. CarriedParts'
    <3>1. UNCHANGED visit
      BY <1>e
    <3>2. \A v \in Visits : visit[v].new # 0 => visit[v].new \in grant' \ rotated' /\ visit[v].new # conn'.tok
      BY <1>0, <1>e DEF CarriedParts
    <3> QED BY <1>0, <1>e, <3>1, <3>2 DEF CarriedParts, At
  <2> QED BY <1>e, <2>1, <2>2 DEF TokenParts, NoReplay
<1>3. ASSUME NEW r \in Renewers, EndUse(r) PROVE TokenParts'
  <2>1. At(r, "using") /\ GoTo(r, "idle") /\ UNCHANGED conn
    BY <1>3 DEF EndUse
  <2>2. Mutex'
    BY <1>l, <2>1 DEF At, Working
  <2> QED BY <1>3, <2>1, <2>2, PassingTokens DEF EndUse, At, providerVars, handleVars
<1>p. ASSUME NEW r \in Renewers, At(r, "holding"), Present PROVE replayed' = {}
  BY <1>0, <1>p, HolderSeesFresh DEF Present
<1>4. ASSUME NEW r \in Renewers, Refused(r) PROVE TokenParts'
  <2>1. At(r, "holding") /\ GoTo(r, "idle") /\ Present /\ conn'.tok = conn.tok
    BY <1>4, Reauth DEF Refused, Types
  <2>2. Mutex'
    BY <1>l, <2>1 DEF At, Working
  <2>3. UNCHANGED replayed
    BY <1>0, <1>p, <2>1
  <2> QED BY <1>4, <2>1, <2>2, <2>3, PassingTokens DEF Refused, At, handleVars
<1>5. ASSUME NEW r \in Renewers, Renew(r) PROVE TokenParts'
  <2>1. /\ At(r, "holding") /\ conn.tok \in live /\ Issue /\ rotated' = rotated \cup {conn.tok}
        /\ grant' = IF conn.tok \in grant THEN grant \cup {issued'} ELSE grant
        /\ UNCHANGED <<conn, lock, lost, replayed, visit>>
    BY <1>5 DEF Renew, rowVars
  <2>2. /\ issued' \notin 1..issued /\ issued' \in 1..issued' /\ issued' # 0
    BY <1>0, <2>1, IssueTypes
  <2>3. /\ renewer'[r].pc = "saving" /\ renewer'[r].new = issued'
        /\ \A s \in Renewers \ {r} : renewer'[s] = renewer[s]
    BY <1>0, <1>5 DEF Renew
  <2>4. \A s \in Renewers : renewer'[s].pc \in Working => s = r
    BY <1>0, <2>1, <2>3, OneWorks DEF At, Working
  <2>5. Mutex'
    BY <1>0, <2>1, <2>4 DEF Mutex, At, Working
  <2>6. conn.tok \in 1..issued /\ conn.tok # issued'
    BY <1>0, <2>1, <2>2 DEF ProviderOK
  <2>7. SavingParts'
    <3>1. issued' \notin rotated'
      BY <1>0, <2>1, <2>2, <2>6 DEF ProviderOK
    <3>2. conn.tok \in grant' => issued' \in grant'
      BY <2>1, <2>6
    <3>3. conn.tok \in rotated'
      BY <2>1
    <3> QED BY <2>1, <2>2, <2>3, <2>4, <3>1, <3>2, <3>3 DEF SavingParts, At, Working
  <2>8. CarriedParts'
    <3>1. \A v \in Visits : visit[v].new # 0 =>
            visit[v].new \in grant' \ rotated' /\ visit[v].new # issued'
      BY <1>0, <2>1, <2>2 DEF CarriedParts, ProviderOK
    <3>2. \A s \in Renewers : renewer'[s].pc = "saving" => renewer'[s].new = issued'
      BY <2>3, <2>4 DEF Working
    <3> QED BY <1>0, <2>1, <3>1, <3>2 DEF CarriedParts, At
  <2>9. RowParts'
    BY <2>3 DEF RowParts, At
  <2> QED BY <1>0, <2>1, <2>5, <2>7, <2>8, <2>9 DEF TokenParts, NoReplay
<1>6. ASSUME NEW r \in Renewers, Unreached(r) PROVE TokenParts'
  <2>1. At(r, "holding") /\ GoTo(r, "idle") /\ Present /\ conn'.tok = conn.tok /\ UNCHANGED <<grant, visit>>
    BY <1>6, Reauth DEF Unreached, Types, handleVars
  <2>2. Mutex' /\ (\A s \in Renewers : renewer'[s].pc # "saving")
    BY <1>l, <2>1 DEF At, Working
  <2>3. replayed' = {}
    BY <1>p, <2>1
  <2>4. CASE Rotates
    <3>1. issued' = issued + 1 /\ rotated' = rotated \cup {conn.tok} /\ lost' = lost \cup {conn.tok}
      BY <2>4 DEF Rotates, Issue
    <3> QED BY <1>e, <2>1, <2>2, <2>3, <3>1
  <2>5. CASE UNCHANGED <<live, issued, rotated, lost, mishaps>>
    BY <1>0, <2>1, <2>2, <2>3, <2>5, PassingTokens DEF At
  <2> QED BY <1>6, <2>4, <2>5 DEF Unreached
<1>7. ASSUME NEW r \in Renewers, Save(r) PROVE TokenParts'
  <2>1. /\ At(r, "saving") /\ GoTo(r, "idle") /\ conn'.tok = renewer[r].new
        /\ UNCHANGED <<rotated, lost, replayed, issued, grant, visit>>
    BY <1>7 DEF Save, providerVars, handleVars
  <2>2. Mutex' /\ (\A s \in Renewers : renewer'[s].pc # "saving")
    BY <1>l, <2>1 DEF At, Working
  <2>3. conn'.tok \notin rotated
    BY <1>0, <2>1 DEF SavingParts
  <2> QED BY <1>0, <1>e, <2>1, <2>2, <2>3
<1>8. ASSUME NEW r \in Renewers, SaveFails(r) \/ Die(r), At(r, "saving") PROVE TokenParts'
  <2>1. /\ GoTo(r, "idle") \/ GoTo(r, "recovering")
        /\ lost' = lost \cup {conn.tok} /\ UNCHANGED <<conn, rotated, replayed, issued, grant, visit>>
    BY <1>8 DEF SaveFails, Die, handleVars
  <2>2. Mutex' /\ (\A s \in Renewers : renewer'[s].pc # "saving")
    BY <1>l, <1>8, <2>1 DEF At, Working
  <2> QED BY <1>0, <1>e, <2>1, <2>2
<1>9. ASSUME NEW r \in Renewers, Die(r), ~At(r, "saving") PROVE TokenParts'
  <2>1. /\ GoTo(r, "idle") /\ lock' = IF lock = r THEN None ELSE lock
        /\ UNCHANGED <<conn, rotated, lost, replayed, issued, grant, visit>>
    BY <1>9 DEF Die, handleVars
  <2>2. Mutex'
    BY <1>0, <2>1, GoesTo DEF Mutex, Working
  <2> QED BY <1>9, <2>1, <2>2, PassingTokens
<1>10. ASSUME NEW r \in Renewers, Recover(r) PROVE TokenParts'
  <2>1. At(r, "recovering") /\ GoTo(r, "idle") /\ conn'.tok = conn.tok /\ UNCHANGED lock
    BY <1>10, Reauth DEF Recover, Types
  <2>2. Mutex'
    BY <1>0, <2>1, GoesTo DEF Mutex, Working
  <2> QED BY <1>10, <2>1, <2>2, PassingTokens DEF Recover, At, providerVars, handleVars
<1>11. ASSUME Idle \/ Expire \/ Withdraw PROVE TokenParts'
  <2>1. conn'.tok = conn.tok
    BY <1>0, <1>11 DEF Idle, Expire, Withdraw, rowVars, Conn
  <2>2. UNCHANGED <<renewer, lock, rotated, lost, replayed, issued, grant, visit>>
    BY <1>11 DEF Idle, Expire, Withdraw, rowVars, providerVars, handleVars
  <2> QED BY <2>1, <2>2, QuietTokens
<1> QED BY <1>1, <1>2, <1>3, <1>4, <1>5, <1>6, <1>7, <1>8, <1>9, <1>10, <1>11 DEF Renewing, Proceed, SaveFails

\* The administrator's operations leave the row's token, or clear it unlocked.
LEMMA AdministeringRow ==
  ASSUME Types, Administering
  PROVE  conn'.tok = conn.tok \/ (conn'.tok = 0 /\ lock = None)
<1>c. conn \in Conn
  BY DEF Types, ConnOK
<1>1. ASSUME NEW status \in {"disabled", "active"}, SetStatus(status) PROVE conn'.tok = conn.tok
  BY <1>c, <1>1 DEF SetStatus, Conn
<1>2. CASE TestBegins \/ DeleteBegins
  BY <1>2 DEF TestBegins, DeleteBegins, rowVars
<1>3. CASE TestEnds
  <2>1. \E verdict \in Verdicts : conn' \in {conn, [conn EXCEPT !.status = Written(test, verdict, conn.status)]}
    BY <1>3, Zenon DEF TestEnds
  <2> QED BY <1>c, <2>1 DEF Conn
<1>4. CASE DeleteEnds
  <2> DEFINE c1 == [conn EXCEPT !.tok = 0]
             c2 == [c1 EXCEPT !.stale = FALSE]
  <2>1. lock = None /\ conn' \in {conn, c2, NoConn}
    BY <1>4 DEF DeleteEnds
  <2>2. c1 \in Conn /\ c1.tok = 0
    BY <1>c DEF Conn, Tokens
  <2> HIDE DEF c1
  <2>3. c2.tok = 0
    BY <2>2 DEF Conn
  <2> HIDE DEF c2
  <2> QED BY <2>1, <2>3 DEF NoConn
<1> QED BY <1>1, <1>2, <1>3, <1>4 DEF Administering, Disable, Enable

\* The administrator's operations keep what the tokens promise.
LEMMA AdministeringTokens ==
  ASSUME Types, TokenParts, Administering
  PROVE  TokenParts'
<1>1. conn'.tok = conn.tok \/ (conn'.tok = 0 /\ lock = None)
  BY AdministeringRow
<1>2. UNCHANGED <<renewer, lock, rotated, lost, replayed, issued, grant, visit>>
  BY DEF Administering, Disable, Enable, SetStatus, TestBegins, TestEnds, DeleteBegins, DeleteEnds,
         rowVars, providerVars, handleVars
<1> QED BY <1>1, <1>2, QuietTokens

\* The deliveries of the handle keep what the tokens promise.
LEMMA AuthorizingTokens ==
  ASSUME Types, TokenParts, Authorizing
  PROVE  TokenParts'
<1>0. /\ conn \in Conn /\ conn.tok <= issued /\ renewer \in [Renewers -> Renewal]
      /\ visit \in [Visits -> Visit] /\ ProviderOK
      /\ Mutex /\ SavingParts /\ CarriedParts /\ RowParts /\ replayed = {}
  BY DEF Types, ConnOK, RenewersOK, HandleOK, TokenParts, NoReplay
<1>1. ASSUME NEW v \in Visits, NEW pc \in VisitPcs, Redeem(v, pc),
             UNCHANGED <<rowVars, renewer, rotated, lost, replayed>>
      PROVE  TokenParts'
  <2>1. /\ visit' \in [Visits -> Visit] /\ Others(v) /\ visit'[v].new = issued'
        /\ Issue /\ grant' = grant \cup {issued'}
    BY <1>1, RedeemsOne
  <2>2. issued' \notin 1..issued /\ issued' \in 1..issued' /\ issued' # 0 /\ issued' = issued + 1
        /\ 1..issued \subseteq 1..issued'
    BY <1>0, <2>1, IssueTypes
  <2>3. issued' # conn.tok
    BY <1>0, <2>2 DEF Conn, Tokens, ProviderOK
  <2>4. UNCHANGED <<conn, lock, renewer, rotated, lost, replayed>>
    BY <1>1 DEF rowVars
  <2>5. Mutex' /\ RowParts'
    BY <1>0, <2>4 DEF Mutex, RowParts, At
  <2>6. SavingParts'
    BY <1>0, <2>1, <2>2, <2>3, <2>4 DEF SavingParts, At
  <2>7. CarriedParts'
    <3>1. \A r \in Renewers : At(r, "saving") => renewer[r].new # issued'
      BY <1>0, <2>2 DEF SavingParts
    <3>2. \A w \in Visits : visit[w].new # 0 => visit[w].new \in 1..issued
      BY <1>0 DEF CarriedParts, ProviderOK
    <3>3. \A w \in Visits \ {v} : visit'[w].new = visit[w].new
      BY <2>1 DEF Others
    <3>4. issued' \in grant' \ rotated'
      BY <1>0, <2>1, <2>2, <2>4 DEF ProviderOK
    <3>5. \A w \in Visits : visit[w].new # issued'
      BY <2>2, <3>2
    <3> SUFFICES ASSUME NEW w \in Visits, visit'[w].new # 0
                 PROVE  /\ visit'[w].new \in grant' \ rotated'
                        /\ visit'[w].new # conn'.tok
                        /\ \A r \in Renewers : At(r, "saving")' => renewer'[r].new # visit'[w].new
                        /\ \A u \in Visits : u # w => visit'[u].new # visit'[w].new
      BY DEF CarriedParts
    <3>6. CASE w = v
      BY <2>1, <2>3, <2>4, <3>1, <3>3, <3>4, <3>5, <3>6 DEF At
    <3>7. CASE w # v
      BY <1>0, <2>1, <2>4, <3>3, <3>5, <3>7 DEF CarriedParts, At
    <3> QED BY <3>6, <3>7
  <2> QED BY <1>0, <2>4, <2>5, <2>6, <2>7 DEF TokenParts, NoReplay
<1>2. ASSUME NEW v \in Visits, StoreGrant(v) PROVE TokenParts'
  <2>1. /\ visit' \in [Visits -> Visit] /\ Others(v) /\ visit'[v].new = 0
    BY <1>2, StoresOne
  <2>2. conn'.tok = visit[v].new
    BY <1>0, <1>2, StoresRow
  <2>3. lock = None /\ UNCHANGED <<lock, renewer, rotated, lost, replayed, issued, grant>>
    BY <1>2 DEF StoreGrant, Committed, providerVars
  <2>4. \A r \in Renewers : renewer'[r].pc \notin Working
    BY <1>0, <2>3, UnlockedIsCalm
  <2>5. Mutex' /\ SavingParts'
    BY <2>4 DEF Mutex, SavingParts, At, Working
  <2>6. CarriedParts'
    <3>1. \A w \in Visits : visit'[w].new # 0 => w # v /\ visit'[w].new = visit[w].new
      BY <2>1 DEF Others
    <3> QED BY <1>0, <2>1, <2>2, <2>3, <2>4, <3>1 DEF CarriedParts, At, Working
  <2>7. RowParts'
    <3>1. visit[v].new \notin rotated
      BY <1>0 DEF CarriedParts, ProviderOK
    <3> QED BY <2>2, <2>3, <3>1 DEF RowParts
  <2> QED BY <1>0, <2>3, <2>5, <2>6, <2>7 DEF TokenParts, NoReplay
\* The others carry nothing new and write no token.
<1>3. ASSUME NEW v \in Visits, Lands(v, FALSE) \/ Lands(v, TRUE) \/ Resettles(v)
             \/ (\E pc \in VisitPcs : Moves(v, pc)) \/ Load(v)
      PROVE  \A w \in Visits : visit'[w].new \in {0, visit[w].new}
  <2>1. CASE \E pc \in VisitPcs : Moves(v, pc)
    BY <1>0, <2>1, MovesOne DEF Others
  <2>2. CASE Load(v)
    BY <1>0, <2>2, LoadsOne DEF Others
  <2>3. CASE \E b \in BOOLEAN : Lands(v, b) \/ (Resettles(v) /\ ~b)
    BY <1>0, <2>3, LandsOne DEF Others
  <2> QED BY <1>3, <2>1, <2>2, <2>3
<1>q. ASSUME UNCHANGED <<rowVars, renewer, rotated, lost, replayed, issued, grant>>,
             \A w \in Visits : visit'[w].new \in {0, visit[w].new}
      PROVE  TokenParts'
  BY <1>q, QuietTokens DEF rowVars
<1>4. ASSUME NEW v \in Visits,
             Claim(v) \/ Peek(v) \/ PollAgain(v) \/ PollLost(v) \/ Abandon(v)
               \/ ClaimDevice(v) \/ Load(v)
      PROVE  TokenParts'
  <2>1. Lands(v, FALSE) \/ (\E pc \in VisitPcs : Moves(v, pc)) \/ Load(v)
    BY <1>4 DEF Claim, Peek, PollAgain, PollLost, Abandon, ClaimDevice, VisitPcs
  <2>2. UNCHANGED <<rowVars, renewer, rotated, lost, replayed, issued, grant>>
    BY <1>4 DEF Claim, Peek, PollAgain, PollLost, Abandon, ClaimDevice, Load, providerVars
  <2> QED BY <1>3, <1>q, <2>1, <2>2
<1>5. ASSUME NEW v \in Visits,
             Replay(v) \/ Refuse(v) \/ ExchangeLost(v) \/ StoreFails(v) \/ Reassert(v) \/ Drop(v)
      PROVE  TokenParts'
  <2>1. Lands(v, FALSE) \/ Lands(v, TRUE) \/ Resettles(v)
    <3>1. CASE Replay(v)
      <4>1. Lands(v, handle = Receipt("connected"))
        BY <3>1 DEF Replay
      <4>2. CASE handle = Receipt("connected")
        BY <4>1, <4>2
      <4>3. CASE handle # Receipt("connected")
        BY <4>1, <4>3
      <4> QED BY <4>2, <4>3
    <3> QED BY <1>5, <3>1 DEF Refuse, ExchangeLost, StoreFails, Reassert, Drop, Settle, Resettles
  <2>2. UNCHANGED <<rowVars, renewer, rotated, lost, replayed, issued, grant>>
    BY <1>5 DEF Replay, Refuse, ExchangeLost, StoreFails, Reassert, Drop, providerVars
  <2> QED BY <1>3, <1>q, <2>1, <2>2
<1>6. ASSUME NEW v \in Visits, Exchange(v) \/ PollGrants(v) PROVE TokenParts'
  <2>1. \E pc \in VisitPcs : Redeem(v, pc)
    BY <1>6 DEF Exchange, PollGrants, VisitPcs
  <2>2. UNCHANGED <<rowVars, renewer, rotated, lost, replayed>>
    BY <1>6 DEF Exchange, PollGrants
  <2> QED BY <1>1, <2>1, <2>2
<1>7. ASSUME NEW v \in Visits, Finish(v) PROVE TokenParts'
  <2>1. conn'.tok = conn.tok /\ \A w \in Visits : visit'[w].new \in {0, visit[w].new}
    BY <1>7, FinishesOne DEF Others
  <2>2. UNCHANGED <<lock, renewer, rotated, lost, replayed, issued, grant>>
    BY <1>7 DEF Finish, providerVars
  <2> QED BY <2>1, <2>2, QuietTokens
<1>8. CASE Approve \/ HandleExpires
  <2>1. UNCHANGED <<rowVars, renewer, rotated, lost, replayed, issued, grant, visit>>
    BY <1>8 DEF Approve, HandleExpires, providerVars, handleVars
  <2> QED BY <1>q, <2>1
<1> QED BY <1>2, <1>4, <1>5, <1>6, <1>7, <1>8 DEF Authorizing

\* Initially the row holds the only token there is, and nobody works on it.
LEMMA InitTokens ==
  Init => Types /\ TokenParts
<1> SUFFICES ASSUME Init PROVE Types /\ TokenParts
  OBVIOUS
<1>1. 0 \in Tokens /\ 1 \in Tokens /\ 0 \in 0..(GiveUp - 1)
  BY DEF Tokens
<1> DEFINE c1 == [NoConn EXCEPT !.status = "active"]
           c2 == [c1 EXCEPT !.tok = 1]
<1>2. /\ \/ conn = c2 /\ issued = 1 /\ refresher = TRUE
         \/ conn = NoConn /\ issued = 0 /\ refresher = FALSE
      /\ lock = None /\ renewer = [r \in Renewers |-> Resting]
      /\ live = 1..issued /\ rotated = {} /\ lost = {} /\ replayed = {} /\ grant = {}
      /\ code \in {"waiting", "good"}
  BY DEF Init
<1>3. NoConn \in Conn /\ NoConn.tok = 0
  BY <1>1 DEF NoConn, Conn
<1>4. c1 \in Conn /\ c1.status = "active"
  BY <1>1 DEF NoConn, Conn, Statuses
<1> HIDE DEF c1
<1>5. c2 \in Conn /\ c2.status = "active" /\ c2.tok = 1
  BY <1>1, <1>4 DEF Conn
<1> HIDE DEF c2
<1>6. ConnOK
  BY <1>2, <1>3, <1>5 DEF ConnOK
<1>7. Resting \in Renewal /\ Resting.pc = "idle"
  BY <1>1 DEF Resting, Renewal
<1>8. RenewersOK /\ \A r \in Renewers : renewer[r].pc = "idle"
  BY <1>2, <1>7 DEF RenewersOK
<1>9. ProviderOK
  BY <1>1, <1>2 DEF ProviderOK
<1>10. HandleOK /\ \A v \in Visits : visit[v].new = 0
  <2>1. handle \in Handle
    BY DEF Init, Handle
  <2>2. visit \in [Visits -> Visit] /\ \A v \in Visits : visit[v].new = 0
    BY ArrivesEmpty DEF Init
  <2> QED BY <2>1, <2>2 DEF Init, HandleOK
<1>11. AdminOK
  BY DEF Init, AdminOK
<1>12. TokenParts
  BY <1>2, <1>8, <1>10 DEF TokenParts, Mutex, SavingParts, CarriedParts, RowParts, NoReplay, At, Working
<1> QED BY <1>6, <1>8, <1>9, <1>10, <1>11, <1>12 DEF Types

\* Types and tokens are kept together: each is needed for the other.
LEMMA TokensStep ==
  ASSUME Types, TokenParts, [Next]_vars
  PROVE  Types' /\ TokenParts'
<1>1. CASE Next
  BY <1>1, RenewingTypes, AdministeringTypes, AuthorizingTypes,
     RenewingTokens, AdministeringTokens, AuthorizingTokens DEF Next
<1>2. CASE UNCHANGED vars
  <2>1. Types'
    BY <1>2 DEF vars, rowVars, providerVars, handleVars, adminVars, Types, ConnOK, RenewersOK,
                ProviderOK, HandleOK, AdminOK
  <2>2. TokenParts'
    BY <1>2, QuietTokens DEF vars, rowVars, providerVars, handleVars
  <2> QED BY <2>1, <2>2
<1> QED BY <1>1, <1>2

\* The invariant that carries the types and the tokens of every execution.
LEMMA TokensAlways == Spec => [](Types /\ TokenParts)
<1>1. Init => Types /\ TokenParts
  BY InitTokens
<1>2. Types /\ TokenParts /\ [Next]_vars => (Types /\ TokenParts)'
  BY TokensStep
<1> QED BY <1>1, <1>2, PTL DEF Spec

\* TYPE CORRECTNESS of the connection's life cycle (OAuthConnections.TypeOK).
THEOREM TypeCorrect == Spec => []TypeOK
<1>1. Types => TypeOK
  BY DEF Types, ConnOK, RenewersOK, ProviderOK, HandleOK, AdminOK, TypeOK, Conn, Renewal, Handle, Visit
<1> QED BY <1>1, TokensAlways, PTL

\* NO REPLAY: whoever renews, a tool call (_refresh_locked) or the sweep,
\* presents the token that the last renewal stored.  The row lock is held from
\* the read to the commit, so a token that was replaced and is still in the row
\* has its replacement lost.
THEOREM NoTokenIsReplayed == Spec => []NoReplay
<1>1. TokenParts => NoReplay
  BY DEF TokenParts
<1> QED BY <1>1, TokensAlways, PTL

\* Only a renewal that saves, or a delivery that stores its grant, gives the
\* row another token; a grant only grows.
LEMMA TokenMoves ==
  ASSUME Types, TokenParts, Next
  PROVE  /\ \/ conn'.tok \in {conn.tok, 0}
            \/ \E r \in Renewers : Save(r)
            \/ \E v \in Visits : StoreGrant(v)
         /\ grant \subseteq grant'
<1>c. conn \in Conn
  BY DEF Types, ConnOK
<1>1. CASE Administering
  <2>1. UNCHANGED grant
    BY <1>1 DEF Administering, Disable, Enable, SetStatus, TestBegins, TestEnds, DeleteBegins,
                DeleteEnds, handleVars
  <2> QED BY <1>1, <2>1, AdministeringRow
<1>2. CASE Renewing
  <2>1. ASSUME NEW r \in Renewers, Find(r) \/ Lock(r) \/ EndUse(r) \/ Renew(r) \/ SaveFails(r) \/ Die(r)
        PROVE  conn'.tok = conn.tok /\ grant \subseteq grant'
    BY <2>1 DEF Find, Lock, Locked, EndUse, Renew, SaveFails, Die, rowVars, handleVars
  <2>2. ASSUME NEW r \in Renewers, Refused(r) \/ Unreached(r) \/ Recover(r)
        PROVE  conn'.tok = conn.tok /\ grant \subseteq grant'
    <3>1. UNCHANGED grant /\ (NeedsReauth \/ Count \/ UNCHANGED conn)
      BY <2>2 DEF Refused, Unreached, Recover, handleVars
    <3> QED BY <3>1, Reauth DEF Types
  <2>3. ASSUME NEW r \in Renewers, Save(r) PROVE grant \subseteq grant'
    BY <2>3 DEF Save, handleVars
  <2>4. CASE Idle \/ Expire \/ Withdraw
    BY <1>c, <2>4 DEF Idle, Expire, Withdraw, rowVars, handleVars, Conn
  <2> QED BY <1>2, <2>1, <2>2, <2>3, <2>4 DEF Renewing, Proceed
<1>3. CASE Authorizing
  <2>1. ASSUME NEW v \in Visits, Exchange(v) \/ PollGrants(v)
        PROVE  conn'.tok = conn.tok /\ grant \subseteq grant'
    BY <2>1 DEF Exchange, PollGrants, Redeem, rowVars
  <2>2. ASSUME NEW v \in Visits, StoreGrant(v) PROVE grant \subseteq grant'
    BY <2>2 DEF StoreGrant, Committed
  <2>3. ASSUME NEW v \in Visits, Finish(v) PROVE conn'.tok = conn.tok /\ grant \subseteq grant'
    BY <2>3, FinishesOne DEF Finish
  <2>4. ASSUME NEW v \in Visits,
               Claim(v) \/ Replay(v) \/ Refuse(v) \/ ExchangeLost(v) \/ Peek(v) \/ PollAgain(v)
               \/ PollLost(v) \/ Abandon(v) \/ ClaimDevice(v) \/ Load(v) \/ StoreFails(v)
               \/ Reassert(v) \/ Drop(v)
        PROVE  conn'.tok = conn.tok /\ grant \subseteq grant'
    BY <2>4 DEF Claim, Replay, Refuse, ExchangeLost, Peek, PollAgain, PollLost, Abandon,
                ClaimDevice, Load, StoreFails, Reassert, Drop, rowVars
  <2>5. CASE Approve \/ HandleExpires
    BY <2>5 DEF Approve, HandleExpires, rowVars, handleVars
  <2> QED BY <1>3, <2>1, <2>2, <2>3, <2>4, <2>5 DEF Authorizing
<1> QED BY <1>1, <1>2, <1>3 DEF Next

\* A renewal that began under the new grant saves a descendant of it, and the
\* row is locked until it has; a delivery stores the grant itself.
LEMMA GrantStep ==
  ASSUME Types, TokenParts, Next
  PROVE  conn.tok \in grant /\ conn'.tok # 0 => conn'.tok \in grant'
<1> SUFFICES ASSUME conn.tok \in grant, conn'.tok # 0 PROVE conn'.tok \in grant'
  OBVIOUS
<1>1. grant \subseteq grant'
  BY TokenMoves
<1>2. CASE conn'.tok \in {conn.tok, 0}
  BY <1>1, <1>2
<1>3. ASSUME NEW r \in Renewers, Save(r) PROVE conn'.tok \in grant'
  <2>1. At(r, "saving") /\ conn'.tok = renewer[r].new
    BY <1>3 DEF Save
  <2> QED BY <1>1, <2>1 DEF TokenParts, SavingParts
<1>4. ASSUME NEW v \in Visits, StoreGrant(v) PROVE conn'.tok \in grant'
  <2>1. conn'.tok = visit[v].new
    BY <1>4, StoresRow DEF TokenParts
  <2> QED BY <1>1, <2>1 DEF TokenParts, CarriedParts
<1> QED BY <1>2, <1>3, <1>4, TokenMoves

\* THE NEW GRANT STAYS: whatever was under way when the person signed in again,
\* the row that holds a token of the new grant is given no older one
\* (store_tokens under the row's lock).
THEOREM NewGrantIsKept == Spec => NewGrantStays
<1>1. Types /\ TokenParts /\ [Next]_vars
        => [conn.tok \in grant /\ conn'.tok # 0 => conn'.tok \in grant']_vars
  <2> SUFFICES ASSUME Types, TokenParts, [Next]_vars, ~UNCHANGED vars
               PROVE  conn.tok \in grant /\ conn'.tok # 0 => conn'.tok \in grant'
    OBVIOUS
  <2> QED BY GrantStep
<1> QED BY <1>1, TokensAlways, PTL DEF Spec, NewGrantStays

-----------------------------------------------------------------------------
(* Landing.                                                                *)

\* What touches no delivery: the handle may expire or go.
LEMMA SteadyLanding ==
  ASSUME Types, LandingParts, UNCHANGED <<visit, flow, kept, claimant>>,
         code' = code \/ (code = "waiting"),
         handle'.outcome \in {handle.outcome, "none"},
         handle'.phase # "pending" \/ handle'.phase = handle.phase,
         mishaps' \in Nat, mishaps' >= mishaps
  PROVE  LandingParts'
<1>0. mishaps \in Nat
  BY DEF Types, AdminOK
<1>1. ClaimParts'
  BY DEF LandingParts, ClaimParts, Is
<1>2. CodeParts'
  BY DEF LandingParts, CodeParts, Redeemed
<1>3. AnswerParts'
  BY <1>0 DEF LandingParts, AnswerParts, Redeemed, Is
<1>4. LandingIsTrue'
  BY <1>0 DEF LandingParts, LandingIsTrue
<1> QED BY <1>1, <1>2, <1>3, <1>4 DEF LandingParts

\* A delivery that steps aside, or is answered otherwise than "connected"; it
\* may leave a refusal, when no delivery was told otherwise.
LEMMA LeavingLanding ==
  ASSUME Types, LandingParts, NEW v \in Visits, Others(v), UNCHANGED <<flow, kept>>,
         visit'[v].pc \in {"idle", "peeked", "granted", "done"},
         visit'[v].pc \in {"peeked", "granted"} => flow # "code",
         visit'[v].connected => visit[v].connected,
         \A w \in Visits \ {v} : claimant = w => claimant' = w,
         code' \in {code, "spent"},
         handle'.phase # "pending" \/ handle'.phase = handle.phase,
         \/ handle'.outcome \in {handle.outcome, "none"}
         \/ /\ handle'.outcome = "refused" /\ flow = "code"
            /\ \A w \in Visits : ~visit[w].connected
            /\ kept => mishaps > 0,
         mishaps' \in Nat, mishaps' >= mishaps
  PROVE  LandingParts'
<1>0. mishaps \in Nat
  BY DEF Types, AdminOK
<1>o. /\ \A w \in Visits : visit'[w] = visit[w] \/ w = v
      /\ \A w \in Visits : visit'[w].connected => visit[w].connected
  BY DEF Others
<1>r. \A w \in Visits : Redeemed(w)' => Redeemed(w) /\ w # v
  BY <1>o DEF Redeemed
<1>1. ClaimParts'
  BY <1>o DEF LandingParts, ClaimParts, Is
<1>2. CodeParts'
  <2>1. CASE flow = "code"
    BY <1>o, <1>r, <2>1 DEF LandingParts, CodeParts
  <2>2. CASE flow # "code"
    BY <1>o, <2>2 DEF LandingParts, CodeParts
  <2> QED BY <2>1, <2>2
<1>3. AnswerParts'
  <2>1. /\ \A w \in Visits : visit'[w].connected => kept'
        /\ handle'.outcome = "connected" => kept'
    BY <1>o DEF LandingParts, AnswerParts
  <2>2. (handle'.outcome = "connected" \/ \E w \in Visits : visit'[w].connected) /\ flow' = "code" =>
           \A w \in Visits : ~Redeemed(w)'
    BY <1>o, <1>r DEF LandingParts, AnswerParts
  <2>3. \A w \in Visits : Is(w, "reassert")' /\ kept' => mishaps' > 0
    BY <1>0, <1>o DEF LandingParts, AnswerParts, Is
  <2> QED BY <2>1, <2>2, <2>3 DEF AnswerParts
<1>4. LandingIsTrue'
  BY <1>0, <1>o DEF LandingParts, LandingIsTrue
<1> QED BY <1>1, <1>2, <1>3, <1>4 DEF LandingParts

\* A delivery goes on with the claim, on a grant that is not kept yet.
LEMMA ClaimedLanding ==
  ASSUME Types, LandingParts, NEW v \in Visits, Others(v), UNCHANGED <<flow, kept, handle, mishaps>>,
         visit'[v].pc \in {"claimed", "exchanged", "loaded"},
         visit'[v].connected = visit[v].connected,
         claimant' = v, ~kept, \A w \in Visits \ {v} : claimant # w,
         visit'[v].pc = "claimed" => flow = "code" /\ code' = code,
         visit'[v].pc \in {"exchanged", "loaded"} /\ flow = "code" =>
           code' = "spent" /\ (Redeemed(v) \/ code = "good"),
         code' \in {code, "spent"}
  PROVE  LandingParts'
<1>o. /\ \A w \in Visits : visit'[w] = visit[w] \/ w = v
      /\ \A w \in Visits : visit'[w].connected = visit[w].connected
  BY DEF Others
<1>r. \A w \in Visits \ {v} : Redeemed(w)' = Redeemed(w)
  BY <1>o DEF Redeemed
<1>1. ClaimParts'
  BY <1>o DEF LandingParts, ClaimParts, Is
<1>2. CodeParts'
  <2>1. CASE flow = "code" /\ visit'[v].pc = "claimed"
    BY <1>o, <1>r, <2>1 DEF LandingParts, CodeParts, Redeemed
  <2>2. CASE flow = "code" /\ visit'[v].pc # "claimed"
    <3>1. \A w \in Visits : Redeemed(w) => w = v
      BY <2>2 DEF LandingParts, CodeParts
    <3> QED BY <1>o, <1>r, <2>2, <3>1 DEF LandingParts, CodeParts
  <2>3. CASE flow # "code"
    BY <1>o, <2>3 DEF LandingParts, CodeParts
  <2> QED BY <2>1, <2>2, <2>3
<1>3. AnswerParts'
  BY <1>o DEF LandingParts, AnswerParts
<1>4. LandingIsTrue'
  BY <1>o DEF LandingParts, LandingIsTrue
<1> QED BY <1>1, <1>2, <1>3, <1>4 DEF LandingParts

\* Mishaps are only ever added.
LEMMA MishapsGrow ==
  ASSUME Types, Mishap \/ UNCHANGED mishaps
  PROVE  mishaps' \in Nat /\ mishaps' >= mishaps /\ (Mishap => mishaps' > 0)
  BY DEF Types, AdminOK, Mishap

\* The claim of a delivery that works on the handle is its own.
LEMMA ClaimIsOwn ==
  ASSUME LandingParts, NEW v \in Visits, visit[v].pc \in {"claimed", "exchanged", "loaded"}
  PROVE  /\ claimant = v /\ ~kept
         /\ \A w \in Visits : ~visit[w].connected
         /\ handle.outcome # "connected"
  BY DEF LandingParts, ClaimParts, AnswerParts

\* A released claim is another delivery's only if it was before.
LEMMA ReleaseIsOwn ==
  ASSUME NEW v \in Visits, Release(v)
  PROVE  \A w \in Visits \ {v} : claimant = w => claimant' = w
  BY DEF Release

\* The steps of a delivery before its grant is stored (complete_callback,
\* poll_device_flow).
LEMMA EarlyLanding ==
  ASSUME Types, LandingParts, NEW v \in Visits,
         \/ Claim(v) \/ Replay(v) \/ Refuse(v) \/ Exchange(v) \/ ExchangeLost(v)
         \/ Peek(v) \/ PollAgain(v) \/ PollLost(v) \/ PollGrants(v) \/ Abandon(v)
         \/ ClaimDevice(v) \/ Load(v)
  PROVE  LandingParts'
<1>0. visit \in [Visits -> Visit] /\ flow \in {"code", "device"} /\ None \notin Visits
  BY FlowsAssumption, NoneAssumption DEF Types, HandleOK
<1>m. Mishap \/ UNCHANGED mishaps => mishaps' \in Nat /\ mishaps' >= mishaps /\ (Mishap => mishaps' > 0)
  BY MishapsGrow
<1>k. handle.phase = "pending" => ~kept
  BY DEF LandingParts, ClaimParts
<1>c. flow = "code" => \A w \in Visits : visit[w].pc \notin {"peeked", "granted"}
  BY DEF LandingParts, CodeParts
<1>d. flow # "code" => \A w \in Visits : visit[w].pc \notin {"claimed", "reassert"}
  BY DEF LandingParts, CodeParts
<1>1. CASE Claim(v)
  <2>1. /\ Others(v) /\ visit'[v].pc = "claimed" /\ visit'[v].connected = visit[v].connected
    BY <1>0, <1>1, MovesOne DEF Claim, VisitPcs
  <2> QED BY <1>0, <1>1, <1>k, <2>1, ClaimedLanding DEF Claim, providerVars
<1>2. CASE Replay(v)
  <2>0. Lands(v, handle = Receipt("connected")) /\ (handle = Receipt("connected")) \in BOOLEAN
    BY <1>2 DEF Replay
  <2>1. Others(v) /\ visit'[v].pc = "done" /\ visit'[v].connected = (handle = Receipt("connected"))
    BY <1>0, <2>0, LandsOne
  <2>2. UNCHANGED <<flow, kept, handle, claimant, code, mishaps>> /\ flow = "code"
    BY <1>2 DEF Replay, providerVars
  <2>3. CASE handle # Receipt("connected")
    BY <1>m, <2>1, <2>2, <2>3, LeavingLanding
  <2>4. CASE handle = Receipt("connected")
    <3>1. handle.outcome = "connected"
      BY <2>4 DEF Receipt
    <3>2. kept /\ \A w \in Visits : ~Redeemed(w)
      BY <2>2, <3>1 DEF LandingParts, AnswerParts
    <3>3. \A w \in Visits : visit'[w] = visit[w] \/ w = v
      BY <2>1 DEF Others
    <3>4. \A w \in Visits : ~Redeemed(w)'
      BY <2>1, <3>2, <3>3 DEF Redeemed
    <3>5. ClaimParts'
      BY <2>1, <2>2, <3>3 DEF LandingParts, ClaimParts, Is
    <3>6. CodeParts'
      BY <2>1, <2>2, <3>3, <3>4 DEF LandingParts, CodeParts
    <3>7. AnswerParts'
      BY <2>2, <3>2, <3>4 DEF AnswerParts, Redeemed, Is
    <3>8. LandingIsTrue'
      BY <2>2, <3>1, <3>2 DEF LandingIsTrue
    <3> QED BY <3>5, <3>6, <3>7, <3>8 DEF LandingParts
  <2> QED BY <2>3, <2>4
<1>3. CASE Refuse(v)
  <2>1. /\ Others(v) /\ visit'[v].pc = "done" /\ ~visit'[v].connected
        /\ handle' \in {handle, Receipt("refused")} /\ (Mishap \/ UNCHANGED mishaps)
        /\ \A w \in Visits \ {v} : claimant = w => claimant' = w
    BY <1>3, SettlesOne, ReleaseIsOwn DEF Refuse, Settle
  <2>2. ~kept /\ (\A w \in Visits : ~visit[w].connected) /\ flow = "code"
    BY <1>3, ClaimIsOwn DEF Refuse, Is
  <2>3. UNCHANGED <<flow, kept, code>>
    BY <1>3 DEF Refuse, providerVars
  <2> QED BY <1>m, <2>1, <2>2, <2>3, LeavingLanding DEF Receipt
<1>4. CASE Exchange(v)
  <2>1. /\ Others(v) /\ visit'[v].pc = "exchanged" /\ visit'[v].connected = visit[v].connected
        /\ code = "good" /\ code' = "spent"
    BY <1>4, RedeemsOne DEF Exchange, VisitPcs
  <2>2. claimant = v /\ ~kept
    BY <1>4, ClaimIsOwn DEF Exchange, Is
  <2> QED BY <1>4, <2>1, <2>2, ClaimedLanding DEF Exchange
<1>5. CASE ExchangeLost(v)
  <2>1. Lands(v, FALSE) /\ Release(v) /\ handle' = Receipt("refused") /\ Mishap /\ code' = "spent"
        /\ Is(v, "claimed") /\ flow = "code" /\ UNCHANGED <<flow, kept>>
    BY <1>5 DEF ExchangeLost
  <2>2. Others(v) /\ visit'[v].pc = "done" /\ ~visit'[v].connected
    BY <1>0, <2>1, LandsOne
  <2>3. ~kept /\ (\A w \in Visits : ~visit[w].connected)
    BY <2>1, ClaimIsOwn DEF Is
  <2> QED BY <1>m, <2>1, <2>2, <2>3, ReleaseIsOwn, LeavingLanding DEF Receipt
<1>6. CASE Peek(v)
  <2>1. flow = "device" /\ (Moves(v, "peeked") \/ Lands(v, FALSE))
        /\ UNCHANGED <<flow, kept, handle, claimant, code, mishaps>>
    BY <1>6 DEF Peek, providerVars
  <2>2. Others(v) /\ visit'[v].pc \in {"peeked", "done"} /\ (visit'[v].connected => visit[v].connected)
    BY <1>0, <2>1, MovesOne, LandsOne DEF VisitPcs
  <2> QED BY <1>m, <2>1, <2>2, LeavingLanding
<1>7. CASE PollAgain(v) \/ PollLost(v)
  <2>1. Moves(v, "idle") /\ UNCHANGED <<flow, kept, handle, claimant>> /\ code' \in {code, "spent"}
        /\ (Mishap \/ UNCHANGED mishaps)
    BY <1>7 DEF PollAgain, PollLost, providerVars
  <2>2. Others(v) /\ visit'[v].pc = "idle" /\ (visit'[v].connected => visit[v].connected)
    BY <1>0, <2>1, MovesOne DEF VisitPcs
  <2> QED BY <1>m, <2>1, <2>2, LeavingLanding
<1>8. CASE PollGrants(v)
  <2>1. /\ Others(v) /\ visit'[v].pc = "granted" /\ visit'[v].connected = visit[v].connected
        /\ code' = "spent"
    BY <1>8, RedeemsOne DEF PollGrants, VisitPcs
  <2>2. flow # "code"
    BY <1>8, <1>c DEF PollGrants, Is
  <2> QED BY <1>8, <1>m, <2>1, <2>2, LeavingLanding DEF PollGrants
<1>9. CASE Abandon(v)
  <2>1. Lands(v, FALSE) /\ handle'.phase = "gone" /\ handle'.outcome = "none"
        /\ UNCHANGED <<flow, kept, claimant, code, mishaps>>
    BY <1>9 DEF Abandon, providerVars
  <2>2. Others(v) /\ visit'[v].pc = "done" /\ ~visit'[v].connected
    BY <1>0, <2>1, LandsOne
  <2> QED BY <1>m, <2>1, <2>2, LeavingLanding
<1>10. CASE ClaimDevice(v)
  <2>1. Is(v, "granted") /\ claimant = None /\ UNCHANGED <<flow, kept, handle, code, mishaps>>
    BY <1>10 DEF ClaimDevice, providerVars
  <2>2. flow # "code"
    BY <1>c, <2>1 DEF Is
  <2>3. CASE handle.phase = "pending"
    <3>1. claimant' = v /\ Others(v) /\ visit'[v].pc = "exchanged" /\ visit'[v].connected = visit[v].connected
      BY <1>0, <1>10, <2>3, MovesOne DEF ClaimDevice, VisitPcs
    <3> QED BY <1>0, <1>k, <2>1, <2>2, <2>3, <3>1, ClaimedLanding
  <2>4. CASE handle.phase # "pending"
    <3>1. Others(v) /\ visit'[v].pc = "done" /\ ~visit'[v].connected /\ UNCHANGED claimant
      BY <1>0, <1>10, <2>4, LandsOne DEF ClaimDevice
    <3> QED BY <1>m, <2>1, <3>1, LeavingLanding
  <2> QED BY <2>3, <2>4
<1>11. CASE Load(v)
  <2>1. /\ Others(v) /\ visit'[v].pc = "loaded" /\ visit'[v].connected = visit[v].connected
    BY <1>11, LoadsOne
  <2>2. claimant = v /\ ~kept /\ Redeemed(v)
    BY <1>11, ClaimIsOwn DEF Load, Is, Redeemed
  <2>3. flow = "code" => code = "spent"
    BY <2>2 DEF LandingParts, CodeParts
  <2> QED BY <1>11, <2>1, <2>2, <2>3, ClaimedLanding DEF Load, providerVars
<1> QED BY <1>1, <1>2, <1>3, <1>4, <1>5, <1>6, <1>7, <1>8, <1>9, <1>10, <1>11

\* The steps that store a delivery's grant and answer for it
\* (create_connection_from_oauth, _settle_refusal).
LEMMA LateLanding ==
  ASSUME Types, LandingParts, NEW v \in Visits,
         StoreGrant(v) \/ StoreFails(v) \/ Reassert(v) \/ Finish(v) \/ Drop(v)
  PROVE  LandingParts'
<1>0. visit \in [Visits -> Visit] /\ flow \in {"code", "device"}
  BY FlowsAssumption DEF Types, HandleOK
<1>m. Mishap \/ UNCHANGED mishaps => mishaps' \in Nat /\ mishaps' >= mishaps /\ (Mishap => mishaps' > 0)
  BY MishapsGrow
<1>1. CASE StoreGrant(v)
  <2>1. /\ Others(v) /\ visit'[v].pc = "stored" /\ visit'[v].connected = visit[v].connected
    BY <1>1, StoresOne
  <2>2. /\ Is(v, "loaded") /\ kept' /\ handle'.phase = "spent" /\ handle'.outcome = "none"
        /\ UNCHANGED <<flow, code, mishaps>>
    BY <1>1 DEF StoreGrant, Committed, Receipt, providerVars
  <2>3. claimant = v /\ ~kept /\ (\A w \in Visits : ~visit[w].connected) /\ Redeemed(v)
    BY <2>2, ClaimIsOwn DEF Is, Redeemed
  <2>4. /\ \A w \in Visits : visit'[w] = visit[w] \/ w = v
        /\ \A w \in Visits : visit'[w].connected = visit[w].connected
    BY <2>1 DEF Others
  <2>5. \A w \in Visits : Redeemed(w)' = Redeemed(w)
    BY <2>1, <2>3, <2>4 DEF Redeemed
  <2>6. ClaimParts'
    <3>1. \A w \in Visits : visit'[w].pc \notin {"claimed", "exchanged", "loaded"}
      BY <2>1, <2>3, <2>4 DEF LandingParts, ClaimParts
    <3> QED BY <2>2, <3>1 DEF ClaimParts
  <2>7. CodeParts'
    <3>1. CASE flow = "code"
      BY <2>1, <2>2, <2>4, <2>5, <3>1 DEF LandingParts, CodeParts
    <3>2. CASE flow # "code"
      BY <2>1, <2>2, <2>4, <3>2 DEF LandingParts, CodeParts
    <3> QED BY <3>1, <3>2
  <2>8. AnswerParts'
    <3>1. \A w \in Visits : ~Is(w, "reassert")'
      <4>1. CASE flow = "code"
        <5>1. \A w \in Visits : Redeemed(w) => w = v
          BY <2>3, <4>1 DEF LandingParts, CodeParts
        <5> QED BY <2>1, <2>4, <5>1 DEF Redeemed, Is
      <4>2. CASE flow # "code"
        BY <2>1, <2>4, <4>2 DEF LandingParts, CodeParts, Is
      <4> QED BY <4>1, <4>2
    <3> QED BY <2>2, <2>3, <2>4, <3>1 DEF AnswerParts
  <2>9. LandingIsTrue'
    BY <2>2, <2>3, <2>4 DEF LandingIsTrue
  <2> QED BY <2>6, <2>7, <2>8, <2>9 DEF LandingParts
<1>2. CASE StoreFails(v)
  <2>1. /\ visit[v].pc \in {"loaded", "stored"} /\ (Mishap \/ UNCHANGED mishaps)
        /\ (Is(v, "stored") => Mishap) /\ Release(v) /\ UNCHANGED <<flow, kept, handle, code>>
        /\ IF flow = "code" THEN Resettles(v) ELSE Lands(v, FALSE)
    BY <1>2 DEF StoreFails, providerVars, Resettles, Is
  <2>2. \A w \in Visits \ {v} : claimant = w => claimant' = w
    BY <2>1, ReleaseIsOwn
  <2>3. CASE flow # "code"
    <3>1. Others(v) /\ visit'[v].pc = "done" /\ ~visit'[v].connected
      BY <1>0, <2>1, <2>3, LandsOne
    <3> QED BY <1>m, <2>1, <2>2, <3>1, LeavingLanding
  <2>4. CASE flow = "code"
    <3>1. Others(v) /\ ~visit'[v].connected
      BY <1>0, <2>1, <2>4, LandsOne
    <3>2. visit'[v].pc = "reassert"
      BY <1>0, <2>1, <2>4, LandsOne
    <3>3. /\ \A w \in Visits : visit'[w] = visit[w] \/ w = v
          /\ \A w \in Visits : visit'[w].connected => visit[w].connected
      BY <3>1 DEF Others
    <3>4. \A w \in Visits : Redeemed(w)' = Redeemed(w)
      BY <2>1, <3>2, <3>3 DEF Redeemed
    <3>5. ClaimParts'
      BY <2>1, <2>2, <3>2, <3>3 DEF LandingParts, ClaimParts, Is
    <3>6. CodeParts'
      BY <2>1, <2>4, <3>2, <3>3, <3>4 DEF LandingParts, CodeParts
    <3>7. AnswerParts'
      <4>1. Is(v, "reassert")' /\ kept' => mishaps' > 0
        <5>1. Is(v, "loaded") => ~kept
          BY ClaimIsOwn DEF Is
        <5> QED BY <1>m, <2>1, <5>1 DEF Is
      <4>2. \A w \in Visits \ {v} : Is(w, "reassert")' /\ kept' => mishaps' > 0
        <5>1. mishaps \in Nat
          BY DEF Types, AdminOK
        <5> QED BY <1>m, <2>1, <3>3, <5>1 DEF LandingParts, AnswerParts, Is
      <4>3. \A w \in Visits : Is(w, "reassert")' /\ kept' => mishaps' > 0
        BY <4>1, <4>2
      <4> QED BY <2>1, <2>4, <3>3, <3>4, <4>3 DEF LandingParts, AnswerParts
    <3>8. LandingIsTrue'
      <4>1. mishaps \in Nat
        BY DEF Types, AdminOK
      <4> QED BY <1>m, <2>1, <3>3, <4>1 DEF LandingParts, LandingIsTrue
    <3> QED BY <3>5, <3>6, <3>7, <3>8 DEF LandingParts
  <2> QED BY <2>3, <2>4
<1>3. CASE Reassert(v)
  <2>1. Is(v, "reassert") /\ UNCHANGED <<flow, kept, code>>
    BY <1>3 DEF Reassert, providerVars
  <2>2. flow = "code" /\ Redeemed(v)
    BY <2>1 DEF LandingParts, CodeParts, Is, Redeemed
  <2>3. (\A w \in Visits : ~visit[w].connected) /\ (kept => mishaps > 0)
    BY <2>1, <2>2 DEF LandingParts, AnswerParts
  <2>4. CASE Settle(v)
    <3>1. /\ Others(v) /\ visit'[v].pc = "done" /\ ~visit'[v].connected
          /\ handle' \in {handle, Receipt("refused")} /\ (Mishap \/ UNCHANGED mishaps)
          /\ \A w \in Visits \ {v} : claimant = w => claimant' = w
      BY <2>4, SettlesOne, ReleaseIsOwn DEF Settle
    <3> QED BY <1>m, <2>1, <2>2, <2>3, <3>1, LeavingLanding DEF Receipt
  <2>5. CASE Lands(v, FALSE) /\ UNCHANGED <<handle, claimant, mishaps>>
    <3>1. Others(v) /\ visit'[v].pc = "done" /\ ~visit'[v].connected
      BY <1>0, <2>5, LandsOne
    <3> QED BY <1>m, <2>1, <2>5, <3>1, LeavingLanding
  <2> QED BY <1>3, <2>4, <2>5 DEF Reassert
<1>4. CASE Finish(v)
  <2>1. /\ Others(v) /\ visit'[v].pc = "done"
        /\ \/ handle' = Receipt("connected") /\ flow = "code"
           \/ handle' = [phase |-> "gone", outcome |-> "none"]
    BY <1>4, FinishesOne
  <2>2. Is(v, "stored") /\ UNCHANGED <<flow, kept, claimant, code, mishaps>>
    BY <1>4 DEF Finish, providerVars
  <2>3. kept /\ Redeemed(v)
    BY <2>2 DEF LandingParts, ClaimParts, Is, Redeemed
  <2>4. handle'.outcome \in {"connected", "none"} /\ handle'.phase # "pending"
        /\ (flow # "code" => handle'.outcome = "none")
    BY <2>1 DEF Receipt
  <2>5. \A w \in Visits : visit'[w] = visit[w] \/ w = v
    BY <2>1 DEF Others
  <2>6. flow = "code" => \A w \in Visits : ~Redeemed(w)'
    BY <2>1, <2>3, <2>5 DEF LandingParts, CodeParts, Redeemed
  <2>7. ClaimParts'
    BY <2>1, <2>2, <2>4, <2>5 DEF LandingParts, ClaimParts, Is
  <2>8. CodeParts'
    <3>1. CASE flow = "code"
      BY <2>1, <2>2, <2>5, <2>6, <3>1 DEF LandingParts, CodeParts
    <3>2. CASE flow # "code"
      BY <2>1, <2>2, <2>4, <2>5, <3>2 DEF LandingParts, CodeParts
    <3> QED BY <3>1, <3>2
  <2>9. AnswerParts'
    <3>1. \A w \in Visits : Is(w, "reassert")' => Is(w, "reassert")
      BY <2>1, <2>5 DEF Is
    <3> QED BY <2>2, <2>3, <2>6, <3>1 DEF LandingParts, AnswerParts
  <2>10. LandingIsTrue'
    BY <2>2, <2>3, <2>4 DEF LandingIsTrue
  <2> QED BY <2>7, <2>8, <2>9, <2>10 DEF LandingParts
<1>5. CASE Drop(v)
  <2>1. Lands(v, FALSE) /\ Release(v) /\ Mishap /\ UNCHANGED <<flow, kept, handle, code>>
    BY <1>5 DEF Drop, providerVars
  <2>2. Others(v) /\ visit'[v].pc = "done" /\ ~visit'[v].connected
    BY <1>0, <2>1, LandsOne
  <2> QED BY <1>m, <2>1, <2>2, ReleaseIsOwn, LeavingLanding
<1> QED BY <1>1, <1>2, <1>3, <1>4, <1>5

\* Renewals and the administrator touch no delivery and write no receipt.
LEMMA LandingStep ==
  ASSUME Types, LandingParts, [Next]_vars
  PROVE  LandingParts'
<1>0. mishaps \in Nat /\ handle \in Handle
  BY DEF Types, AdminOK, HandleOK
<1>m. Mishap \/ UNCHANGED mishaps => mishaps' \in Nat /\ mishaps' >= mishaps
  BY MishapsGrow
<1>1. CASE Renewing
  <2>1. UNCHANGED <<visit, flow, kept, claimant, code, handle>> /\ (Mishap \/ UNCHANGED mishaps)
    <3>1. ASSUME NEW r \in Renewers, Find(r) \/ Lock(r) \/ SaveFails(r) \/ Die(r)
          PROVE  UNCHANGED <<visit, flow, kept, claimant, code, handle>> /\ (Mishap \/ UNCHANGED mishaps)
      BY <3>1 DEF Find, Lock, Locked, SaveFails, Die, handleVars, providerVars
    <3>2. ASSUME NEW r \in Renewers, Proceed(r)
          PROVE  UNCHANGED <<visit, flow, kept, claimant, code, handle>> /\ (Mishap \/ UNCHANGED mishaps)
      BY <3>2 DEF Proceed, EndUse, Refused, Renew, Unreached, Rotates, Save, Recover, handleVars, providerVars
    <3> QED BY <1>1, <3>1, <3>2 DEF Renewing, Idle, Expire, Withdraw, handleVars, providerVars
  <2> QED BY <1>m, <2>1, SteadyLanding
<1>2. CASE Administering
  <2>1. UNCHANGED <<visit, flow, kept, claimant, code>> /\ (Mishap \/ UNCHANGED mishaps)
    BY <1>2 DEF Administering, Disable, Enable, SetStatus, TestBegins, TestEnds, DeleteBegins, DeleteEnds,
                handleVars, providerVars
  <2>2. handle'.outcome = handle.outcome /\ (handle'.phase = "gone" \/ handle'.phase = handle.phase)
    <3>1. handle' = handle \/ handle' = [handle EXCEPT !.phase = "gone"]
      <4>1. CASE DeleteEnds
        BY <4>1, Zenon DEF DeleteEnds
      <4>2. CASE ~DeleteEnds
        BY <1>2, <4>2 DEF Administering, Disable, Enable, SetStatus, TestBegins, TestEnds, DeleteBegins,
                          handleVars
      <4> QED BY <4>1, <4>2
    <3> QED BY <1>0, <3>1 DEF Handle
  <2> QED BY <1>m, <2>1, <2>2, SteadyLanding
<1>3. CASE Authorizing
  <2>1. CASE Approve
    BY <2>1, <1>m, SteadyLanding DEF Approve, handleVars
  <2>2. CASE HandleExpires
    <3>1. handle'.outcome \in {handle.outcome, "none"} /\ handle'.phase # "pending"
      BY <1>0, <2>2 DEF HandleExpires, Handle
    <3> QED BY <1>m, <2>2, <3>1, SteadyLanding DEF HandleExpires, providerVars
  <2> QED BY <1>3, <2>1, <2>2, EarlyLanding, LateLanding DEF Authorizing
<1>4. CASE UNCHANGED vars
  BY <1>4, <1>m, SteadyLanding DEF vars, handleVars, providerVars
<1> QED BY <1>1, <1>2, <1>3, <1>4 DEF Next

\* THE LANDING IS TRUE: a browser or a poll is told "connected", and a receipt
\* says so, only of a grant that is in the database; no receipt denies it after
\* that, and only a mishap makes one deny a grant that was kept.  The claim is
\* one delivery's from its conditional UPDATE to the commit of the grant.
THEOREM LandingsAreTrue == Spec => []LandingIsTrue
<1>1. Init => LandingParts
  <2> SUFFICES ASSUME Init PROVE LandingParts
    OBVIOUS
  <2>1. /\ handle.outcome = "none" /\ kept = FALSE
        /\ \A v \in Visits : visit[v].pc = "idle" /\ ~visit[v].connected
    BY DEF Init, Arriving
  <2> QED BY <2>1 DEF LandingParts, ClaimParts, CodeParts, AnswerParts, LandingIsTrue, Redeemed, Is
<1>2. Types /\ LandingParts /\ [Next]_vars => LandingParts'
  BY LandingStep
<1>3. LandingParts => LandingIsTrue
  BY DEF LandingParts
<1> QED BY <1>1, <1>2, <1>3, TokensAlways, PTL DEF Spec

=============================================================================
