---------------------------- MODULE OAuthConnections ----------------------------
(***************************************************************************)
(* One OAuth connection of a workspace: the token set its row holds, the   *)
(* tool calls and the refresher that renew it (jhin_oauth/lifecycle.py),   *)
(* the authorization that (re)connects it, delivered more than once        *)
(* (jhin_api/oauth/service.py, jhin_oauth/persistence.py), and the         *)
(* administrator's controls (jhin_api/connections/service.py).             *)
(*                                                                         *)
(* A token set is the number of its refresh token, 0 being "no stored      *)
(* credential".  The provider rotates: a refresh token is honoured once.   *)
(* The session writes only the columns whose value differs from the value  *)
(* it loaded, which Written states.                                        *)
(***************************************************************************)
EXTENDS Integers, FiniteSets

CONSTANTS
  Callers,     \* the tool calls that use the connection
  Sweeper,     \* the workspace's refresher
  Visits,      \* the deliveries of the handle: callbacks, or device polls
  None,        \* the absent value
  Flows,       \* "code", "device": the flows the handle may have been minted for
  GiveUp,      \* MAX_CONSECUTIVE_REFRESH_FAILURES
  MaxIssued,   \* bound: the refresh tokens the provider issues
  Decisions,   \* bound: the administrator's operations
  Mishaps      \* bound: deaths, failed commits, lost answers, revocations

ASSUME BoundsAssumption == MaxIssued \in Nat \ {0} /\ {Decisions, Mishaps} \subseteq Nat
ASSUME GiveUpAssumption == GiveUp \in Nat \ {0}
ASSUME FlowsAssumption == Flows \subseteq {"code", "device"}

VARIABLES
  conn,        \* the connection row and the secret it owns
  lock,        \* who holds the row FOR UPDATE
  renewer,     \* the tool calls and the refresher
  refresher,   \* whether the refresh workflow runs
  live,        \* the refresh tokens the provider honours
  issued,      \* how many it has issued
  rotated,     \* those it has replaced
  lost,        \* those whose replacement never reached the database
  replayed,    \* rotated tokens presented although they were not lost
  flow,        \* the handle's flow
  handle,      \* the committed oauth_authorization row
  claimant,    \* the visit whose claim is not committed
  code,        \* the provider's code, or device code
  grant,       \* the token sets that descend from the handle's grant
  kept,        \* whether a session has committed the handle's grant
  visit,       \* the deliveries of the handle
  test,        \* the status a connection check has loaded
  deleting,    \* the token a deletion has revoked, None when none is under way
  decisions,   \* how many operations the administrator has made
  mishaps      \* how much has gone wrong

rowVars == <<conn, lock>>
providerVars == <<live, issued, rotated, lost, replayed, code>>
handleVars == <<flow, handle, claimant, grant, kept, visit>>
adminVars == <<test, deleting, decisions>>
vars == <<rowVars, renewer, refresher, providerVars, handleVars, adminVars,
          mishaps>>

Renewers == Callers \cup {Sweeper}
Tokens == 0..MaxIssued
Statuses == {"active", "disabled", "needs_reauth", "error"}

ASSUME NoneAssumption == None \notin Renewers /\ None \notin Visits

Verdicts == Statuses \ {"disabled"}

NoConn == [status |-> "none", tok |-> 0, stale |-> FALSE, fails |-> 0]
Resting == [pc |-> "idle", new |-> 0]
Arriving == [pc |-> "idle", new |-> 0, seen |-> "none", connected |-> FALSE]

TypeOK ==
  /\ conn \in [status : Statuses \cup {"none"}, tok : Tokens, stale : BOOLEAN,
               fails : 0..(GiveUp - 1)]
  /\ lock \in Renewers \cup {None}
  /\ renewer \in [Renewers -> [pc : {"idle", "found", "holding", "saving",
                                     "recovering", "using"}, new : Tokens]]
  /\ refresher \in BOOLEAN
  /\ issued \in Tokens
  /\ rotated \subseteq 1..issued /\ lost \subseteq rotated
  /\ live \subseteq (1..issued) \ rotated
  /\ replayed \subseteq rotated
  /\ flow \in Flows
  /\ handle \in [phase : {"pending", "expired", "spent", "gone"},
                 outcome : {"none", "connected", "refused"}]
  /\ claimant \in Visits \cup {None}
  /\ code \in {"waiting", "good", "spent"}
  /\ grant \subseteq 1..issued
  /\ visit \in [Visits -> [pc : {"idle", "peeked", "granted", "claimed",
                                 "exchanged", "loaded", "stored", "reassert",
                                 "done"},
                           new : Tokens, seen : Statuses \cup {"none"},
                           connected : BOOLEAN]]
  /\ kept \in BOOLEAN
  /\ test \in Statuses \cup {None}
  /\ deleting \in Tokens \cup {None}
  /\ decisions \in 0..Decisions
  /\ mishaps \in 0..Mishaps

\* Either the connection exists and the handle re-authorizes it, or the handle
\* is to create it.
Init ==
  /\ flow \in Flows
  /\ \/ /\ conn = [NoConn EXCEPT !.status = "active", !.tok = 1]
        /\ issued = 1
        /\ refresher = TRUE
     \/ conn = NoConn /\ issued = 0 /\ refresher = FALSE
  /\ lock = None
  /\ renewer = [r \in Renewers |-> Resting]
  /\ live = 1..issued
  /\ rotated = {} /\ lost = {} /\ replayed = {}
  /\ handle = [phase |-> "pending", outcome |-> "none"]
  /\ claimant = None
  /\ code = IF flow = "code" THEN "good" ELSE "waiting"
  /\ grant = {}
  /\ kept = FALSE
  /\ visit = [v \in Visits |-> Arriving]
  /\ test = None
  /\ deleting = None
  /\ decisions = 0
  /\ mishaps = 0

\* What a column holds after a session that loaded `seen' assigned `new'.
Written(seen, new, current) == IF seen = new THEN current ELSE new

Mishap == mishaps < Mishaps /\ mishaps' = mishaps + 1
Issue == issued < MaxIssued /\ issued' = issued + 1

(***************************************************************************)
(* Renewing: refresh on use, and the sweep.                                *)
(***************************************************************************)

At(r, pc) == renewer[r].pc = pc
GoTo(r, pc) == renewer' = [renewer EXCEPT ![r] = [pc |-> pc, new |-> 0]]

\* A tool call loads a connection it may use; the sweep lists those that are
\* active and about to expire.
Find(r) ==
  /\ At(r, "idle")
  /\ conn.tok # 0
  /\ IF r = Sweeper
     THEN refresher /\ conn.status = "active" /\ conn.stale
     ELSE conn.status \in {"active", "error"}
  /\ GoTo(r, "found")
  /\ UNCHANGED <<rowVars, refresher, providerVars, handleVars, adminVars, mishaps>>

\* The row is read again under FOR UPDATE.  The sweep looks at its status and
\* not at its expiry, a tool call at the expiry and not at the status.
Worth(r) == IF r = Sweeper THEN conn.status = "active"
            ELSE conn.tok # 0

Locked(r) ==
  /\ At(r, "found")
  /\ IF Worth(r)
     THEN /\ lock' = r
          /\ GoTo(r, IF r = Sweeper \/ conn.stale THEN "holding" ELSE "using")
     ELSE GoTo(r, "idle") /\ UNCHANGED lock
  /\ UNCHANGED <<conn, refresher, providerVars, handleVars, adminVars, mishaps>>

Lock(r) == lock = None /\ Locked(r)

\* The tool call's transaction, which holds the row since it found the token
\* fresh, ends.
EndUse(r) ==
  /\ At(r, "using")
  /\ GoTo(r, "idle")
  /\ lock' = None
  /\ UNCHANGED <<conn, refresher, providerVars, handleVars, adminVars, mishaps>>

\* mark_needs_reauth, whatever the status was.
NeedsReauth == conn' = [conn EXCEPT !.status = "needs_reauth", !.fails = 0]

Present == replayed' = replayed \cup ({conn.tok} \cap (rotated \ lost))

\* Wrong: a refused token is tried again.
RefusedAgain(r) ==
  /\ At(r, "holding")
  /\ IF conn.tok \in live THEN Mishap ELSE UNCHANGED mishaps
  /\ Present
  /\ lock' = None
  /\ GoTo(r, "idle")
  /\ UNCHANGED <<conn, refresher, live, issued, rotated, lost, code, handleVars,
                 adminVars>>

\* The provider refuses the token; or the row has none, or its client is gone.
Refused(r) ==
  /\ At(r, "holding")
  /\ IF conn.tok \in live THEN Mishap ELSE UNCHANGED mishaps
  /\ Present
  /\ NeedsReauth
  /\ lock' = None
  /\ GoTo(r, "idle")
  /\ UNCHANGED <<refresher, live, issued, rotated, lost, code, handleVars, adminVars>>

\* The provider answers with a new token set.
Renew(r) ==
  /\ At(r, "holding")
  /\ conn.tok \in live
  /\ Issue
  /\ live' = (live \ {conn.tok}) \cup {issued'}
  /\ rotated' = rotated \cup {conn.tok}
  /\ grant' = IF conn.tok \in grant THEN grant \cup {issued'} ELSE grant
  /\ renewer' = [renewer EXCEPT ![r] = [pc |-> "saving", new |-> issued']]
  /\ UNCHANGED <<rowVars, refresher, lost, replayed, code, flow, kept, handle, claimant,
                 visit, adminVars, mishaps>>

\* _record_transient: after enough failures in a row somebody must sign in.
Count ==
  IF conn.fails + 1 >= GiveUp THEN NeedsReauth
  ELSE conn' = [conn EXCEPT !.fails = @ + 1]

\* The provider is not reached, or rotates and its answer does not arrive.
Rotates ==
  /\ conn.tok \in live
  /\ Issue
  /\ Mishap
  /\ live' = (live \ {conn.tok}) \cup {issued'}
  /\ rotated' = rotated \cup {conn.tok}
  /\ lost' = lost \cup {conn.tok}

Unreached(r) ==
  /\ At(r, "holding")
  /\ conn.tok # 0
  /\ Present
  /\ Rotates \/ UNCHANGED <<live, issued, rotated, lost, mishaps>>
  /\ Count
  /\ lock' = None
  /\ GoTo(r, "idle")
  /\ UNCHANGED <<refresher, code, handleVars, adminVars>>

\* store_tokens under the lock: secret and columns in one commit.
Save(r) ==
  /\ At(r, "saving")
  /\ conn' = [status |-> IF conn.status = "disabled" THEN "disabled" ELSE "active",
              tok |-> renewer[r].new, stale |-> FALSE, fails |-> 0]
  /\ lock' = None
  /\ GoTo(r, "idle")
  /\ UNCHANGED <<refresher, providerVars, handleVars, adminVars, mishaps>>

\* The commit fails: the rollback releases the row.
SaveFails(r) ==
  /\ At(r, "saving")
  /\ Mishap
  /\ lost' = lost \cup {conn.tok}
  /\ lock' = None
  /\ GoTo(r, "recovering")
  /\ UNCHANGED <<conn, refresher, live, issued, rotated, replayed, code, handleVars,
                 adminVars>>

\* _recover_after_failed_save, in a transaction of its own.
Recover(r) ==
  /\ At(r, "recovering")
  /\ lock = None
  /\ IF conn.status = "none" THEN UNCHANGED conn ELSE NeedsReauth
  /\ GoTo(r, "idle")
  /\ UNCHANGED <<lock, refresher, providerVars, handleVars, adminVars, mishaps>>

\* The worker dies with the row locked, or what it does after a failed save
\* fails too.  (Dying earlier leaves nothing behind.)
Die(r) ==
  /\ renewer[r].pc \in {"holding", "saving", "recovering"}
  /\ Mishap
  /\ lost' = IF At(r, "saving") THEN lost \cup {conn.tok} ELSE lost
  /\ lock' = IF lock = r THEN None ELSE lock
  /\ GoTo(r, "idle")
  /\ UNCHANGED <<conn, refresher, live, issued, rotated, replayed, code, handleVars,
                 adminVars>>

\* Windows without an active connection end the refresh workflow.
Idle ==
  /\ refresher
  /\ At(Sweeper, "idle")
  /\ conn.status # "active" \/ conn.tok = 0
  /\ refresher' = FALSE
  /\ UNCHANGED <<rowVars, renewer, providerVars, handleVars, adminVars, mishaps>>

\* The access token comes near its expiry.
Expire ==
  /\ conn.tok # 0 /\ ~conn.stale
  /\ issued < MaxIssued \/ conn.tok \notin live
  /\ conn' = [conn EXCEPT !.stale = TRUE]
  /\ UNCHANGED <<lock, renewer, refresher, providerVars, handleVars, adminVars,
                 mishaps>>

\* The person withdraws the grant at the provider.
Withdraw ==
  /\ live # {}
  /\ Mishap
  /\ live' = {}
  /\ UNCHANGED <<rowVars, renewer, refresher, issued, rotated, lost, replayed, code,
                 handleVars, adminVars>>

(***************************************************************************)
(* The administrator.                                                      *)
(***************************************************************************)

Decide == decisions < Decisions /\ decisions' = decisions + 1

SetStatus(status) ==
  /\ Decide
  /\ lock = None
  /\ conn.status \notin {"none", status}
  /\ conn' = [conn EXCEPT !.status = status]
  /\ UNCHANGED <<lock, renewer, refresher, providerVars, handleVars, test, deleting,
                 mishaps>>

Disable == SetStatus("disabled")
Enable == SetStatus("active")

\* "Test connection" loads the row, asks the provider, and writes a verdict
\* unless the status it loaded was "disabled".
TestBegins ==
  /\ Decide
  /\ test = None
  /\ conn.tok # 0
  /\ test' = conn.status
  /\ UNCHANGED <<rowVars, renewer, refresher, providerVars, handleVars, deleting,
                 mishaps>>

TestEnds ==
  /\ test # None
  /\ lock = None
  /\ test' = None
  /\ \E verdict \in Verdicts :
       conn' = IF test = "disabled" \/ conn.status = "none" THEN conn
               ELSE [conn EXCEPT !.status = Written(test, verdict, @)]
  /\ UNCHANGED <<lock, renewer, refresher, providerVars, handleVars, deleting,
                 decisions, mishaps>>

\* revoke_and_clear reads the tokens without a lock and tells the provider.
DeleteBegins ==
  /\ Decide
  /\ deleting = None
  /\ conn.status # "none"
  /\ deleting' = conn.tok
  /\ live' \in {live, live \ {conn.tok}}
  /\ UNCHANGED <<rowVars, renewer, refresher, issued, rotated, lost, replayed, code,
                 handleVars, test, mishaps>>

\* It clears the secret and commits; then the row goes, and with it a handle
\* that was to re-authorize it (it stays here while a grant for it is out).  In
\* between the process may die.
DeleteEnds ==
  /\ deleting # None
  /\ lock = None
  /\ deleting' = None
  /\ \/ /\ Mishap
        /\ conn' = IF deleting = 0 THEN conn
                   ELSE [conn EXCEPT !.tok = 0, !.stale = FALSE]
        /\ UNCHANGED handle
     \/ /\ claimant = None
        /\ conn' = NoConn
        /\ handle' = IF handle.outcome = "none" /\ grant = {}
                     THEN [handle EXCEPT !.phase = "gone"] ELSE handle
        /\ UNCHANGED mishaps
  /\ UNCHANGED <<lock, renewer, refresher, providerVars, flow, kept, claimant, grant,
                 visit, test, decisions>>

(***************************************************************************)
(* The handle: one authorization, delivered by browsers or polled.         *)
(***************************************************************************)

Is(v, pc) == visit[v].pc = pc
Moves(v, pc) == visit' = [visit EXCEPT ![v].pc = pc]
Lands(v, connected) ==
  visit' = [visit EXCEPT ![v] =
              [Arriving EXCEPT !.pc = "done", !.connected = connected]]

Release(v) == claimant' = IF claimant = v THEN None ELSE claimant
Receipt(outcome) == [phase |-> "spent", outcome |-> outcome]

\* The conditional UPDATE waits for the claim of another session to commit or
\* to roll back.
Claim(v) ==
  /\ flow = "code"
  /\ Is(v, "idle")
  /\ claimant = None
  /\ handle.phase = "pending"
  /\ claimant' = v
  /\ Moves(v, "claimed")
  /\ UNCHANGED <<rowVars, renewer, refresher, providerVars, flow, kept, handle, grant,
                 adminVars, mishaps>>

\* _replay_or_refuse: the receipt the handle left, or the one refusal.
Replay(v) ==
  /\ flow = "code"
  /\ Is(v, "idle")
  /\ claimant = None
  /\ handle.phase # "pending"
  /\ Lands(v, handle = Receipt("connected"))
  /\ UNCHANGED <<rowVars, renewer, refresher, providerVars, flow, kept, handle, claimant,
                 grant, adminVars, mishaps>>

\* _settle_refusal: a receipt and a commit; a failure of either is suppressed
\* and leaves the handle as it was.
Settle(v) ==
  /\ \/ handle' = Receipt("refused") /\ UNCHANGED mishaps
     \/ UNCHANGED handle /\ Mishap
  /\ Release(v)
  /\ Lands(v, FALSE)

\* Wrong: a refusal releases the claim first and settles the handle later.
RefuseReleased(v) ==
  /\ flow = "code"
  /\ Is(v, "claimed")
  /\ Release(v)
  /\ visit' = [visit EXCEPT ![v] = [Arriving EXCEPT !.pc = "reassert"]]
  /\ UNCHANGED <<rowVars, renewer, refresher, providerVars, flow, kept, handle, grant,
                 adminVars, mishaps>>

\* The visit's context is wrong, the person said no, the registration or the
\* verifier is gone, or the provider is not reached or refuses the client.
Refuse(v) ==
  /\ flow = "code"
  /\ Is(v, "claimed")
  /\ Settle(v)
  /\ UNCHANGED <<rowVars, renewer, refresher, providerVars, flow, kept, grant, adminVars>>

Redeem(v, pc) ==
  /\ code = "good"
  /\ Issue
  /\ code' = "spent"
  /\ live' = live \cup {issued'}
  /\ grant' = grant \cup {issued'}
  /\ visit' = [visit EXCEPT ![v].pc = pc, ![v].new = issued']

\* exchange_code succeeds; its answer may be lost, which reads as a refusal.
Exchange(v) ==
  /\ flow = "code"
  /\ Is(v, "claimed")
  /\ Redeem(v, "exchanged")
  /\ UNCHANGED <<rowVars, renewer, refresher, rotated, lost, replayed, flow, kept, handle,
                 claimant, adminVars, mishaps>>

ExchangeLost(v) ==
  /\ flow = "code"
  /\ Is(v, "claimed")
  /\ code = "good"
  /\ code' = "spent"
  /\ Mishap
  /\ handle' = Receipt("refused")
  /\ Release(v)
  /\ Lands(v, FALSE)
  /\ UNCHANGED <<rowVars, renewer, refresher, live, issued, rotated, lost, replayed,
                 flow, kept, grant, adminVars>>

\* The person approves or refuses the device.
Approve ==
  /\ code = "waiting"
  /\ code' \in {"good", "spent"}
  /\ UNCHANGED <<rowVars, renewer, refresher, live, issued, rotated, lost, replayed,
                 handleVars, adminVars, mishaps>>

Peek(v) ==
  /\ flow = "device"
  /\ Is(v, "idle")
  /\ IF handle.phase = "pending" THEN Moves(v, "peeked") ELSE Lands(v, FALSE)
  /\ UNCHANGED <<rowVars, renewer, refresher, providerVars, flow, kept, handle, claimant,
                 grant, adminVars, mishaps>>

\* The provider says "pending", or is not reached.
PollAgain(v) ==
  /\ Is(v, "peeked")
  /\ code = "waiting"
  /\ Moves(v, "idle")
  /\ UNCHANGED <<rowVars, renewer, refresher, providerVars, flow, kept, handle, claimant,
                 grant, adminVars, mishaps>>

PollLost(v) ==
  /\ Is(v, "peeked")
  /\ code # "waiting"
  /\ Mishap
  /\ code' = "spent"
  /\ Moves(v, "idle")
  /\ UNCHANGED <<rowVars, renewer, refresher, live, issued, rotated, lost, replayed,
                 flow, kept, handle, claimant, grant, adminVars>>

PollGrants(v) ==
  /\ Is(v, "peeked")
  /\ Redeem(v, "granted")
  /\ UNCHANGED <<rowVars, renewer, refresher, rotated, lost, replayed, flow, kept, handle,
                 claimant, adminVars, mishaps>>

\* The provider refuses a code that is denied, expired or redeemed: _abandon
\* deletes the handle.
Abandon(v) ==
  /\ Is(v, "peeked")
  /\ code = "spent"
  /\ claimant = None
  /\ handle' = [phase |-> "gone", outcome |-> "none"]
  /\ Lands(v, FALSE)
  /\ UNCHANGED <<rowVars, renewer, refresher, providerVars, flow, kept, claimant, grant,
                 adminVars, mishaps>>

\* The token is here: only now is the handle claimed.
ClaimDevice(v) ==
  /\ Is(v, "granted")
  /\ claimant = None
  /\ IF handle.phase = "pending"
     THEN claimant' = v /\ Moves(v, "exchanged")
     ELSE Lands(v, FALSE) /\ UNCHANGED claimant
  /\ UNCHANGED <<rowVars, renewer, refresher, providerVars, flow, kept, handle, grant,
                 adminVars, mishaps>>

\* create_connection_from_oauth loads the row it re-authorizes.
Load(v) ==
  /\ Is(v, "exchanged")
  /\ visit' = [visit EXCEPT ![v].pc = "loaded", ![v].seen = conn.status]
  /\ UNCHANGED <<rowVars, renewer, refresher, providerVars, flow, kept, handle, claimant,
                 grant, adminVars, mishaps>>

\* store_tokens: credentials, columns and the claim are committed together.
Kept(seen) == IF seen = "disabled" THEN "disabled" ELSE "active"

Committed(v) ==
  /\ Is(v, "loaded")
  /\ (visit[v].seen = "none") = (conn.status = "none")
  /\ conn' = [status |-> Written(visit[v].seen, Kept(visit[v].seen), conn.status),
              tok |-> visit[v].new, stale |-> FALSE, fails |-> 0]
  /\ handle' = Receipt("none")
  /\ claimant' = None
  /\ kept' = TRUE
  /\ visit' = [visit EXCEPT ![v].pc = "stored", ![v].new = 0]
  /\ UNCHANGED <<lock, renewer, refresher, providerVars, flow, grant, adminVars,
                 mishaps>>

StoreGrant(v) == lock = None /\ Committed(v)

\* The name was taken, the configuration is refused, the row has gone, the
\* commit fails; or what follows the commit fails.  The rollback releases the
\* claim if it is still held.
StoreFails(v) ==
  /\ visit[v].pc \in {"loaded", "stored"}
  /\ IF Is(v, "loaded") /\ (visit[v].seen = "none") # (conn.status = "none")
     THEN UNCHANGED mishaps ELSE Mishap
  /\ Release(v)
  /\ IF flow = "code"
     THEN visit' = [visit EXCEPT ![v] = [Arriving EXCEPT !.pc = "reassert"]]
     ELSE Lands(v, FALSE)
  /\ UNCHANGED <<rowVars, renewer, refresher, providerVars, flow, kept, handle, grant,
                 adminVars>>

\* The row is loaded again and spent again, and the receipt says "failed".
Reassert(v) ==
  /\ Is(v, "reassert")
  /\ claimant = None
  /\ IF handle.phase = "gone"
     THEN Lands(v, FALSE) /\ UNCHANGED <<handle, claimant, mishaps>>
     ELSE Settle(v)
  /\ UNCHANGED <<rowVars, renewer, refresher, providerVars, flow, kept, grant, adminVars>>

\* The initial check of an MCP server may set the status again; the receipt
\* is written, or the device's row deleted; the refresher is started, which
\* may fail.  A check whose verdict can no longer be written, because the
\* connection has gone, is a failure of StoreFails.
Finish(v) ==
  /\ Is(v, "stored")
  /\ lock = None
  /\ \E verdict \in Verdicts :
       conn' = IF Kept(visit[v].seen) = "disabled" \/ conn.status = "none" THEN conn
               ELSE [conn EXCEPT !.status = Written("active", verdict, @)]
  /\ handle' = IF flow = "code" /\ handle.phase = "spent" THEN Receipt("connected")
               ELSE [phase |-> "gone", outcome |-> "none"]
  /\ Lands(v, flow = "device" \/ handle.phase = "spent")
  /\ refresher' \in {refresher, TRUE}
  /\ UNCHANGED <<lock, renewer, providerVars, flow, kept, claimant, grant, adminVars,
                 mishaps>>

\* The API process dies under the request.
Drop(v) ==
  /\ visit[v].pc \notin {"idle", "peeked", "done"}
  /\ Mishap
  /\ Release(v)
  /\ Lands(v, FALSE)
  /\ UNCHANGED <<rowVars, renewer, refresher, providerVars, flow, kept, handle, grant,
                 adminVars>>

\* The claim window closes; later the receipt goes too.
HandleExpires ==
  /\ \/ handle.phase = "pending" /\ handle' = [handle EXCEPT !.phase = "expired"]
     \/ /\ handle.outcome # "none"
        /\ handle' = [phase |-> "gone", outcome |-> "none"]
  /\ UNCHANGED <<rowVars, renewer, refresher, providerVars, flow, kept, claimant, grant,
                 visit, adminVars, mishaps>>

(***************************************************************************)
(* The specification.                                                      *)
(***************************************************************************)

\* What a renewer that has found the connection does next.
Proceed(r) ==
  \/ EndUse(r) \/ Refused(r) \/ Renew(r) \/ Unreached(r) \/ Save(r) \/ Recover(r)

Renewing ==
  \/ \E r \in Renewers : Find(r) \/ Lock(r) \/ Proceed(r) \/ SaveFails(r) \/ Die(r)
  \/ Idle \/ Expire \/ Withdraw

Administering ==
  Disable \/ Enable \/ TestBegins \/ TestEnds \/ DeleteBegins \/ DeleteEnds

Authorizing ==
  \/ \E v \in Visits :
       \/ Claim(v) \/ Replay(v) \/ Refuse(v) \/ Exchange(v) \/ ExchangeLost(v)
       \/ Peek(v) \/ PollAgain(v) \/ PollLost(v) \/ PollGrants(v) \/ Abandon(v)
       \/ ClaimDevice(v) \/ Load(v) \/ StoreGrant(v) \/ StoreFails(v) \/ Reassert(v)
       \/ Finish(v) \/ Drop(v)
  \/ Approve \/ HandleExpires

Next == Renewing \/ Administering \/ Authorizing

Spec == Init /\ [][Next]_vars

\* A tool call that holds the row goes on, the clock runs, and the refresh
\* workflow goes through its sweeps as long as it runs.
Fairness ==
  /\ \A c \in Callers : WF_vars(Proceed(c))
  /\ SF_vars(Find(Sweeper) \/ Lock(Sweeper) \/ Proceed(Sweeper))
  /\ WF_vars(Expire)

FairSpec == Spec /\ Fairness

(***************************************************************************)
(* Properties.                                                             *)
(***************************************************************************)

\* A refresh token the provider has rotated is never presented to it again,
\* unless its replacement was lost before it was stored: tool calls and the
\* sweep renew one at a time, and each presents what the last one stored.
NoReplay == replayed = {}

\* Once the row holds a token of the grant a person has just given, no token
\* of an older grant takes its place: a renewal under way while the person
\* re-authorizes does not overwrite the new credentials.
NewGrantStays ==
  [][conn.tok \in grant /\ conn'.tok # 0 => conn'.tok \in grant']_vars

\* A connection that claims to be active while its refresh token is dead does
\* not go on claiming it, as long as the refresh workflow runs: a replacement
\* lost after the provider rotated ends as needs_reauth.
Dead == conn.status = "active" /\ conn.tok # 0 /\ conn.tok \notin live
DeadIsNoticed == (Dead /\ refresher) ~> ~Dead

\* A delivery of the handle is answered "connected", and a receipt says so,
\* only once the grant is committed to the connection; no receipt says
\* "failed" after that; and where nothing fails no receipt says "failed" of a
\* grant that is committed.
LandingIsTrue ==
  /\ \A v \in Visits :
       visit[v].connected => kept /\ handle.outcome # "refused"
  /\ handle.outcome = "connected" => kept
  /\ handle.outcome = "refused" /\ kept => mishaps > 0

=============================================================================
