---- MODULE BattlePass ----
(***************************************************************************)
(* The battle pass, src/scripts/admin_battlepass.py: what a scan records   *)
(* of an account's progress on a tier, and how a tier's intel is granted,  *)
(* by the daemon's pass and by the panel's manual grant, which share one   *)
(* sqlite database.  Both hold the write lock from their first read to     *)
(* their commit; intel that was commanded is not undone by a rollback.     *)
(*                                                                         *)
(* The clock is one flag of a ledger row: its retry time has not come.     *)
(***************************************************************************)
EXTENDS Integers

CONSTANTS
  Tiers, Players,
  BpAttempts,   \* MAX_ATTEMPTS
  BpFaults,     \* bound: failed or timed-out commands, lost transactions
  BpOps,        \* bound: operator changes
  BpMoves,      \* bound: changes of the game: progress made or taken back
  Nobody

Pairs == Tiers \X Players

\* The rows a database or a transaction on it can hold.
BpClaims == [Pairs -> {"none", "baseline", "earned", "granted"}]
BpRow == [status : {"none", "pending", "granted", "exhausted"}, attempts : Nat,
          waiting : BOOLEAN]
BpJobs == [claim : BpClaims, ledger : [Pairs -> BpRow], todo : SUBSET Pairs,
           manual : BOOLEAN, seen : SUBSET Pairs, past : BOOLEAN, paid : Nat]

ASSUME BpAssumption ==
  /\ BpAttempts \in Nat \ {0} /\ {BpFaults, BpOps, BpMoves} \subseteq Nat
  /\ Nobody \notin BpJobs

VARIABLES
  tierOn,    \* battlepass_tiers.enabled
  bpClaim,   \* battlepass_claims.status, or "none"
  seen,      \* battlepass_tier_seen: the pairs seen unsatisfied
  bpLedger,  \* battlepass_grant_ledger rows
  bpConfig,  \* award_past and auto_grant
  satisfied, \* the game: the pairs whose signal holds
  playing,   \* the game: the players that are online
  bpJob,     \* the transaction under way, with its uncommitted writes, or Nobody
  bpFaults, bpOps, bpMoves,
  intel,     \* history: how often a tier's intel landed for a player
  bpLost,    \* history: landings whose record was lost
  watched,   \* history: pairs a scan saw unsatisfied since the last purge
  pastOn     \* history: pairs earned while award_past was on

bpStore == <<tierOn, bpClaim, seen, bpLedger, bpConfig>>
bpGame == <<satisfied, playing, bpMoves>>
bpHistory == <<intel, bpLost, watched, pastOn>>
bpVars == <<bpStore, bpGame, bpJob, bpFaults, bpOps, bpHistory>>

NoRow == [status |-> "none", attempts |-> 0, waiting |-> FALSE]

BpInit ==
  /\ tierOn = [t \in Tiers |-> TRUE]
  /\ bpClaim = [x \in Pairs |-> "none"]
  /\ seen = {}
  /\ bpLedger = [x \in Pairs |-> NoRow]
  /\ bpConfig \in [past : BOOLEAN, auto : BOOLEAN]
  /\ satisfied \in {{}, Pairs}
  /\ playing = {}
  /\ bpJob = Nobody
  /\ bpFaults = 0 /\ bpOps = 0 /\ bpMoves = 0
  /\ intel = [x \in Pairs |-> 0]
  /\ bpLost = 0 /\ watched = {} /\ pastOn = {}

BpFault == bpFaults < BpFaults /\ bpFaults' = bpFaults + 1

-----------------------------------------------------------------------------
(* What a scan and a delivery write                                        *)

\* tier_action over the open tiers that are enabled: a pair is earned once it
\* was seen unsatisfied before, or at once with award_past.
Verdict(x) ==
  IF x \notin satisfied THEN "mark_seen"
  ELSE IF bpConfig.past \/ x \in seen THEN "earned" ELSE "baseline"

Open == {x \in Pairs : tierOn[x[1]] /\ bpClaim[x] = "none"}

\* _enqueue_grant: INSERT OR IGNORE.
Enqueued(row) == IF row.status = "none" THEN [row EXCEPT !.status = "pending"] ELSE row

FailedRow(row) ==
  [row EXCEPT !.attempts = @ + 1, !.waiting = TRUE,
              !.status = IF row.attempts + 1 >= BpAttempts THEN "exhausted" ELSE "pending"]

-----------------------------------------------------------------------------
(* The daemon's pass and the manual grant                                  *)

\* run_tick under its lock: every open tier of every account is judged; with
\* auto_grant every earned claim is enqueued, and the rows that are due, of
\* enabled tiers, are delivered one by one.
ScanBegins ==
  /\ bpJob = Nobody
  /\ LET claims == [x \in Pairs |->
           IF x \in Open /\ Verdict(x) # "mark_seen" THEN Verdict(x) ELSE bpClaim[x]]
         rows == [x \in Pairs |->
           IF bpConfig.auto /\ claims[x] = "earned" THEN Enqueued(bpLedger[x]) ELSE bpLedger[x]]
         due == {x \in Pairs : /\ bpConfig.auto /\ tierOn[x[1]]
                               /\ rows[x].status = "pending" /\ ~rows[x].waiting
                               /\ rows[x].attempts < BpAttempts}
     IN  bpJob' = [claim |-> claims, ledger |-> rows, todo |-> due, manual |-> FALSE,
                   seen |-> seen \cup {x \in Open : Verdict(x) = "mark_seen"},
                   past |-> bpConfig.past, paid |-> 0]
  /\ UNCHANGED <<bpStore, bpGame, bpFaults, bpOps, bpHistory>>

\* grant_account: every earned tier of the account, whatever its backoff.
ManualGrant(a) ==
  LET earned == {x \in Pairs : x[2] = a /\ bpClaim[x] = "earned"} IN
  /\ bpJob = Nobody /\ earned # {}
  /\ bpJob' = [claim |-> bpClaim, todo |-> earned, seen |-> seen, manual |-> TRUE,
               ledger |-> [x \in Pairs |-> IF x \in earned THEN Enqueued(bpLedger[x])
                                           ELSE bpLedger[x]],
               past |-> bpConfig.past, paid |-> 0]
  /\ UNCHANGED <<bpStore, bpGame, bpFaults, bpOps, bpHistory>>

Sealed(x) ==
  [bpJob EXCEPT !.todo = @ \ {x}, !.claim[x] = "granted", !.ledger[x].status = "granted"]

\* _deliver_grant before the payment: a row that is granted is skipped; a row
\* whose claim is not earned is sealed unpaid.
SkipGrant(x) ==
  /\ bpJob # Nobody /\ x \in bpJob.todo
  /\ bpJob.ledger[x].status = "granted" \/ bpJob.claim[x] # "earned"
  /\ bpJob' = [bpJob EXCEPT !.todo = @ \ {x}, !.ledger[x].status = "granted"]
  /\ UNCHANGED <<bpStore, bpGame, bpFaults, bpOps, bpHistory>>

Payable(x) ==
  bpJob # Nobody /\ x \in bpJob.todo /\ bpJob.ledger[x].status # "granted"
    /\ bpJob.claim[x] = "earned"

\* award-intel refuses a player who is online: no attempt is spent.  A manual
\* grant stops there.
GrantLater(x) ==
  /\ Payable(x) /\ x[2] \in playing
  /\ bpJob' = [bpJob EXCEPT !.todo = IF bpJob.manual THEN {} ELSE @ \ {x},
                            !.ledger[x].waiting = TRUE]
  /\ UNCHANGED <<bpStore, bpGame, bpFaults, bpOps, bpHistory>>

\* Intel is paid first, then the claim and the row are sealed.
GrantPaid(x) ==
  /\ Payable(x) /\ x[2] \notin playing
  /\ intel' = [intel EXCEPT ![x] = @ + 1]
  /\ bpJob' = [Sealed(x) EXCEPT !.paid = @ + 1]
  /\ UNCHANGED <<bpStore, bpGame, bpFaults, bpOps, bpLost, watched, pastOn>>

\* The command fails, or lands although it timed out: an attempt is spent.
GrantFailsBp(x, lands) ==
  /\ Payable(x) /\ x[2] \notin playing /\ BpFault
  /\ intel' = IF lands THEN [intel EXCEPT ![x] = @ + 1] ELSE intel
  /\ bpLost' = IF lands THEN bpLost + 1 ELSE bpLost
  /\ bpJob' = [bpJob EXCEPT !.todo = @ \ {x}, !.ledger[x] = FailedRow(@)]
  /\ UNCHANGED <<bpStore, bpGame, bpOps, watched, pastOn>>

BpCommits ==
  /\ bpJob # Nobody /\ bpJob.todo = {}
  /\ bpClaim' = bpJob.claim
  /\ bpLedger' = bpJob.ledger
  /\ seen' = bpJob.seen
  /\ watched' = watched \cup (bpJob.seen \ seen)
  /\ pastOn' = pastOn \cup {x \in Pairs : /\ bpJob.past /\ bpClaim[x] = "none"
                                          /\ bpJob.claim[x] \in {"earned", "granted"}}
  /\ bpJob' = Nobody
  /\ UNCHANGED <<tierOn, bpConfig, bpGame, bpFaults, bpOps, intel, bpLost>>

\* The game's database cannot be read, or the process dies: rolled back.
BpRollsBack ==
  /\ bpJob # Nobody /\ BpFault
  /\ bpLost' = bpLost + bpJob.paid
  /\ bpJob' = Nobody
  /\ UNCHANGED <<bpStore, bpGame, bpOps, intel, watched, pastOn>>

-----------------------------------------------------------------------------
(* The operator, the players and time                                      *)

BpOperates == bpJob = Nobody /\ bpOps < BpOps /\ bpOps' = bpOps + 1

\* Broken form for PassSafe: every row is forgotten.
NoRowKept == [x \in Pairs |-> NoRow]

\* Both modes forget the rows that are not granted.
KeptRows == [x \in Pairs |-> IF bpLedger[x].status = "granted" THEN bpLedger[x] ELSE NoRow]

Demote ==
  /\ BpOperates
  /\ bpLedger' = KeptRows
  /\ bpClaim' = [x \in Pairs |-> IF bpClaim[x] = "earned" THEN "baseline" ELSE bpClaim[x]]
  /\ UNCHANGED <<tierOn, seen, bpConfig, bpGame, bpJob, bpFaults, bpHistory>>

\* Claims and seen markers go together.
Purge ==
  /\ BpOperates
  /\ bpLedger' = KeptRows
  /\ bpClaim' = [x \in Pairs |-> "none"]
  /\ seen' = {}
  /\ watched' = {} /\ pastOn' = {}
  /\ UNCHANGED <<tierOn, bpConfig, bpGame, bpJob, bpFaults, intel, bpLost>>

SetTier(t) ==
  /\ BpOperates
  /\ tierOn' = [tierOn EXCEPT ![t] = ~@]
  /\ UNCHANGED <<bpClaim, seen, bpLedger, bpConfig, bpGame, bpJob, bpFaults, bpHistory>>

SetPass(cfg) ==
  /\ BpOperates
  /\ bpConfig' = cfg
  /\ UNCHANGED <<tierOn, bpClaim, seen, bpLedger, bpGame, bpJob, bpFaults, bpHistory>>

\* A player progresses; or a game update takes a signal back.
Progress(x) ==
  /\ bpJob = Nobody /\ bpMoves < BpMoves /\ bpMoves' = bpMoves + 1
  /\ satisfied' = IF x \in satisfied THEN satisfied \ {x} ELSE satisfied \cup {x}
  /\ UNCHANGED <<bpStore, playing, bpJob, bpFaults, bpOps, bpHistory>>

LogsInOut(a) ==
  /\ bpMoves < BpMoves /\ bpMoves' = bpMoves + 1
  /\ playing' = IF a \in playing THEN playing \ {a} ELSE playing \cup {a}
  /\ UNCHANGED <<bpStore, satisfied, bpJob, bpFaults, bpOps, bpHistory>>

RetryComes(x) ==
  /\ bpJob = Nobody /\ bpLedger[x].waiting
  /\ bpLedger' = [bpLedger EXCEPT ![x].waiting = FALSE]
  /\ UNCHANGED <<tierOn, bpClaim, seen, bpConfig, bpGame, bpJob, bpFaults, bpOps, bpHistory>>

BpNext ==
  \/ ScanBegins \/ BpCommits \/ BpRollsBack \/ Demote \/ Purge
  \/ \E a \in Players : ManualGrant(a) \/ LogsInOut(a)
  \/ \E t \in Tiers : SetTier(t)
  \/ \E cfg \in [past : {bpConfig.past}, auto : {TRUE}] : SetPass(cfg)
  \/ \E x \in Pairs :
       \/ SkipGrant(x) \/ GrantLater(x) \/ GrantPaid(x) \/ Progress(x) \/ RetryComes(x)
       \/ \E lands \in BOOLEAN : GrantFailsBp(x, lands)

BpSpec == BpInit /\ [][BpNext]_bpVars

-----------------------------------------------------------------------------
(* Properties                                                              *)

\* Claims and rows have one of their stored states.
BpTypeOK ==
  /\ bpClaim \in BpClaims /\ bpLedger \in [Pairs -> BpRow] /\ seen \subseteq Pairs
  /\ bpJob \in {Nobody} \cup BpJobs

\* A tier's intel lands at most once for an account, but for landings whose
\* record was lost: not even a purge, after which the tier is earned anew,
\* pays it again (reset_claims: "granted rows are delivery history").
IntelOnce == \A x \in Pairs : intel[x] <= 1 + bpLost

\* Progress from before the pass watched is never earned: an earned claim was
\* seen unsatisfied by a scan since the last purge, or earned with award_past
\* (docstring: what stops a game update "from auto-granting real intel to
\* everyone").
EarnedWatched ==
  \A x \in Pairs : bpClaim[x] \in {"earned", "granted"} => x \in watched \/ x \in pastOn

\* A row sealed as granted was paid, and so was a claim.
SealedPaid ==
  \A x \in Pairs : bpLedger[x].status = "granted" \/ bpClaim[x] = "granted" => intel[x] >= 1

\* What the pass owes its players, in one: intel that was earned while it
\* watched, paid once, and never recorded without being paid.
PassSafe == IntelOnce /\ EarnedWatched /\ SealedPaid
====
