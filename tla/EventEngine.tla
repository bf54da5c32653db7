---- MODULE EventEngine ----
(***************************************************************************)
(* The event engine, src/scripts/admin_events.py, and the delivery of a    *)
(* reward it drives, src/scripts/admin_rewards.py.  A tick holds one       *)
(* sqlite transaction, taken with BEGIN IMMEDIATE, across everything it    *)
(* reads, pays and seals; the payments themselves are commands to the game *)
(* that no rollback undoes.  Ticks come from a daemon and from manual      *)
(* runs.                                                                   *)
(*                                                                         *)
(* The clock is two flags: an event's poll interval has elapsed, a claim's *)
(* backoff has elapsed.  A reward is the sequence of its steps; its hash   *)
(* is the reward itself.                                                   *)
(***************************************************************************)
EXTENDS Integers, Sequences, SequencesExt

CONSTANTS
  Events, Accounts,
  Tickers,      \* processes that tick: the daemon, a manual run
  Rewards,      \* the rewards an event may be given: sequences of distinct steps
  MaxAttempts,  \* MAX_ATTEMPTS
  GrantFaults,  \* bound: commands that fail or time out
  TickFaults,   \* bound: ticks that fail: an unreadable game database, a crash
  EventOps,     \* bound: operator changes
  NoOne

ASSUME EventAssumption ==
  /\ MaxAttempts \in Nat \ {0} /\ {GrantFaults, TickFaults, EventOps} \subseteq Nat
  /\ <<>> \in Rewards /\ \A r \in Rewards : r \in Seq(ToSet(r)) /\ IsInjective(r)
  /\ NoOne \notin Tickers

VARIABLES
  kind,      \* each event's type
  awardPast, \* each milestone's award_past
  evEnabled, \* event_definitions.enabled
  reward,    \* event_definitions.reward_json
  claim,     \* event_award_claims, as committed
  evDue,     \* engine_state: next_due has passed
  connected, \* the game: the accounts that are online
  qualified, \* the game: the accounts that satisfy each event
  lock,      \* the process in a transaction, or NoOne
  job,       \* what each process does, with its uncommitted writes
  grantFaults, tickFaults, eventOps,
  landed,    \* history: how often each step landed for an event and account
  lost,      \* history: payments whose record was lost, and reset claims
  sealed     \* history: the reward a claim was granted for

eventStore == <<evEnabled, reward, claim, evDue>>
eventGame == <<kind, awardPast, connected, qualified>>
eventHistory == <<landed, lost, sealed>>
eventVars == <<eventStore, eventGame, lock, job, grantFaults, tickFaults, eventOps, eventHistory>>

RewardSteps == UNION {ToSet(r) : r \in Rewards}
NoClaim == [status |-> "none", cursor |-> <<>>, at |-> 0, attempts |-> 0, waiting |-> FALSE]
Out == [at |-> "out", boot |-> FALSE, events |-> {}, players |-> {}, event |-> NoOne,
        todo |-> {}, mode |-> "event", account |-> NoOne, plan |-> <<>>, full |-> <<>>,
        claim |-> [e \in Events |-> [a \in Accounts |-> NoClaim]],
        due |-> [e \in Events |-> FALSE], paid |-> FALSE]

EventInit ==
  /\ kind \in [Events -> {"zone_race", "milestone"}]
  /\ awardPast \in [Events -> BOOLEAN]
  /\ \A e \in Events : awardPast[e] => kind[e] = "milestone"
  /\ evEnabled = [e \in Events |-> TRUE]
  /\ reward \in [Events -> Rewards \ {<<>>}]
  /\ claim = [e \in Events |-> [a \in Accounts |-> NoClaim]]
  /\ evDue = [e \in Events |-> TRUE]
  /\ connected = Accounts
  /\ qualified = [e \in Events |-> {}]
  /\ lock = NoOne
  /\ job = [p \in Tickers |-> Out]
  /\ grantFaults = 0 /\ tickFaults = 0 /\ eventOps = 0
  /\ landed = [e \in Events |-> [a \in Accounts |-> [s \in RewardSteps |-> 0]]]
  /\ lost = 0
  /\ sealed = [e \in Events |-> [a \in Accounts |-> <<>>]]

GrantFails == grantFaults < GrantFaults /\ grantFaults' = grantFaults + 1

-----------------------------------------------------------------------------
(* Delivering a reward (admin_rewards.py)                                  *)

\* A cursor is only good for the reward it was cut from.
CursorMatches(c, full) == c.cursor = <<>> \/ c.cursor = full

\* Broken form for RewardsSafe: a delivery is resumed after the step that failed.
RemainingAfter(c, full) == IF c.cursor = <<>> THEN full ELSE SubSeq(full, c.at + 1, Len(full))

\* The steps still owed: from the one that failed last time, inclusive.
Remaining(c, full) == IF c.cursor = <<>> THEN full ELSE SubSeq(full, c.at, Len(full))

\* The claim after a failed step: one attempt more, exhausted at the last.
FailedClaim(c, cursor, at) ==
  LET spent == c.status # "none" /\ c.attempts + 1 >= MaxAttempts IN
  [status |-> IF spent THEN "exhausted" ELSE "pending", cursor |-> cursor, at |-> at,
   attempts |-> c.attempts + 1, waiting |-> ~spent]

GrantedClaim(c) == [c EXCEPT !.status = "granted", !.cursor = <<>>, !.at = 0, !.waiting = FALSE]

RefusedClaim(c) == [c EXCEPT !.status = "exhausted", !.attempts = MaxAttempts, !.waiting = FALSE]

-----------------------------------------------------------------------------
(* run_tick                                                                *)

Works(p, at) == lock = p /\ job[p].at = at
Turn(p, step) == job' = [job EXCEPT ![p] = step]

\* The write lock is taken before anything is read.
TickBegins(p, boot) ==
  /\ lock = NoOne /\ job[p].at = "out"
  /\ lock' = p
  /\ LET events == {e \in Events : evEnabled[e] /\ evDue[e]} IN
     Turn(p, [Out EXCEPT !.at = IF boot THEN "backfill" ELSE "events", !.boot = boot,
                         !.events = IF boot THEN {e \in Events : evEnabled[e]} ELSE events,
                         !.players = IF events # {} \/ boot THEN connected ELSE {},
                         !.claim = claim, !.due = evDue])
  /\ UNCHANGED <<eventStore, eventGame, grantFaults, tickFaults, eventOps, eventHistory>>

\* _backfill: the milestones satisfied already, by accounts without a claim.
BackfillEvent(p, e) ==
  /\ Works(p, "backfill") /\ e \in job[p].events
  /\ Turn(p, [job[p] EXCEPT !.at = "pick", !.mode = "backfill", !.event = e, !.events = @ \ {e},
                !.todo = IF kind[e] = "zone_race" THEN {}
                         ELSE {a \in job[p].players \cap qualified[e] :
                                 job[p].claim[e][a].status = "none"}])
  /\ UNCHANGED <<eventStore, eventGame, lock, grantFaults, tickFaults, eventOps, eventHistory>>

BackfillDone(p) ==
  /\ Works(p, "backfill") /\ job[p].events = {}
  /\ Turn(p, [job[p] EXCEPT !.at = "events",
                            !.events = {e \in Events : evEnabled[e] /\ job[p].due[e]}])
  /\ UNCHANGED <<eventStore, eventGame, lock, grantFaults, tickFaults, eventOps, eventHistory>>

\* _evaluate_event: the accounts that qualify now and are not settled.
EvaluateEvent(p, e) ==
  /\ Works(p, "events") /\ e \in job[p].events
  /\ Turn(p, [job[p] EXCEPT !.at = "pick", !.mode = "event", !.event = e, !.events = @ \ {e},
                !.due = [@ EXCEPT ![e] = FALSE],
                !.todo = {a \in job[p].players \cap qualified[e] :
                            job[p].claim[e][a].status \notin {"granted", "exhausted"}}])
  /\ UNCHANGED <<eventStore, eventGame, lock, grantFaults, tickFaults, eventOps, eventHistory>>

\* _retry_pass: every pending claim whose backoff is over, of any event.
RetryClaim(p, e, a) ==
  LET c == job[p].claim[e][a] IN
  /\ Works(p, "events") /\ job[p].events = {}
  /\ c.status = "pending" /\ c.attempts < MaxAttempts /\ ~c.waiting
  /\ Turn(p, [job[p] EXCEPT !.at = "pick", !.mode = "retry", !.event = e, !.todo = {a}])
  /\ UNCHANGED <<eventStore, eventGame, lock, grantFaults, tickFaults, eventOps, eventHistory>>

\* The account of a claim no longer resolves: the attempt is spent.
RetryUnresolved(p, a) ==
  LET e == job[p].event
      c == job[p].claim[e][a] IN
  /\ Works(p, "pick") /\ job[p].mode = "retry" /\ a \in job[p].todo
  /\ Turn(p, [job[p] EXCEPT !.at = "events", !.todo = {},
                            !.claim[e][a] = FailedClaim(c, c.cursor, c.at)])
  /\ UNCHANGED <<eventStore, eventGame, lock, grantFaults, tickFaults, eventOps, eventHistory>>

\* An outcome is final: a zone race has at most one a tick.
Next1(p, claims) ==
  [job[p] EXCEPT !.at = "pick", !.claim = claims, !.account = NoOne, !.plan = <<>>,
                 !.todo = IF kind[job[p].event] = "zone_race" /\ job[p].mode = "event"
                          THEN {} ELSE @ \ {job[p].account}]

\* _apply_outcome: a reward that was edited during a delivery is refused.
BeginOutcome(p, a) ==
  LET e == job[p].event
      c == job[p].claim[e][a]
      full == IF job[p].mode = "backfill" /\ ~awardPast[e] THEN <<>> ELSE reward[e]
      started == [job[p] EXCEPT !.account = a, !.full = full, !.plan = Remaining(c, full),
                                !.at = "pay"]
  IN
  /\ Works(p, "pick") /\ a \in job[p].todo
  /\ IF full # <<>> /\ ~CursorMatches(c, full)
     THEN Turn(p, [job[p] EXCEPT !.claim[e][a] = RefusedClaim(c),
                     !.todo = IF kind[e] = "zone_race" /\ job[p].mode = "event"
                              THEN {} ELSE @ \ {a}])
     ELSE Turn(p, started)
  /\ UNCHANGED <<eventStore, eventGame, lock, grantFaults, tickFaults, eventOps, eventHistory>>

\* One step of the reward is commanded.  It lands and answers; or it fails;
\* or it lands although the command times out, which counts as failed.
PayStep(p, lands, answers) ==
  LET e == job[p].event
      a == job[p].account
      j == job[p]
      c == j.claim[e][a] IN
  /\ Works(p, "pay") /\ j.plan # <<>>
  /\ answers => lands
  /\ IF answers THEN UNCHANGED grantFaults ELSE GrantFails
  /\ landed' = IF lands THEN [landed EXCEPT ![e][a][Head(j.plan)] = @ + 1] ELSE landed
  /\ lost' = IF lands /\ ~answers THEN lost + 1 ELSE lost
  /\ IF answers
     THEN Turn(p, [j EXCEPT !.plan = Tail(@), !.paid = TRUE])
     ELSE Turn(p, Next1(p, [j.claim EXCEPT
                    ![e][a] = FailedClaim(c, j.full, Len(j.full) - Len(j.plan) + 1)]))
  /\ UNCHANGED <<eventStore, eventGame, lock, tickFaults, eventOps, sealed>>

\* Everything was delivered: the claim is sealed, in the transaction.
SealClaim(p) ==
  LET e == job[p].event
      a == job[p].account
      c == job[p].claim[e][a] IN
  /\ Works(p, "pay") /\ job[p].plan = <<>>
  /\ Turn(p, Next1(p, [job[p].claim EXCEPT ![e][a] = GrantedClaim(c)]))
  /\ sealed' = [sealed EXCEPT ![e][a] = job[p].full]
  /\ UNCHANGED <<eventStore, eventGame, lock, grantFaults, tickFaults, eventOps, landed, lost>>

OutcomesDone(p) ==
  /\ Works(p, "pick") /\ job[p].todo = {}
  /\ Turn(p, [job[p] EXCEPT !.at = IF @ = "pick" /\ job[p].mode = "backfill"
                                   THEN "backfill" ELSE "events", !.event = NoOne])
  /\ UNCHANGED <<eventStore, eventGame, lock, grantFaults, tickFaults, eventOps, eventHistory>>

\* The transaction commits when nothing is left to retry.
TickCommits(p) ==
  /\ Works(p, "events") /\ job[p].events = {}
  /\ \A e \in Events, a \in Accounts :
       job[p].claim[e][a].status = "pending" => job[p].claim[e][a].waiting
  /\ claim' = job[p].claim
  /\ evDue' = job[p].due
  /\ lock' = NoOne
  /\ Turn(p, Out)
  /\ UNCHANGED <<evEnabled, reward, eventGame, grantFaults, tickFaults, eventOps, eventHistory>>

\* A read of the game's database raises, or the process dies: the transaction
\* is rolled back, the seals of what was paid with it.
TickFails(p) ==
  /\ lock = p
  /\ tickFaults < TickFaults /\ tickFaults' = tickFaults + 1
  /\ lost' = IF job[p].paid THEN lost + 1 ELSE lost
  /\ lock' = NoOne
  /\ Turn(p, Out)
  /\ UNCHANGED <<eventStore, eventGame, grantFaults, eventOps, landed, sealed>>

-----------------------------------------------------------------------------
(* The operator, who waits for the lock, the players and time              *)

Operates == lock = NoOne /\ eventOps < EventOps /\ eventOps' = eventOps + 1

EditReward(e, r) ==
  /\ Operates
  /\ reward' = [reward EXCEPT ![e] = r]
  /\ UNCHANGED <<evEnabled, claim, evDue, eventGame, lock, job, grantFaults, tickFaults, eventHistory>>

SwitchEvent(e) ==
  /\ Operates
  /\ evEnabled' = [evEnabled EXCEPT ![e] = ~@]
  /\ UNCHANGED <<reward, claim, evDue, eventGame, lock, job, grantFaults, tickFaults, eventHistory>>

\* reset_claims forgets who was paid, on purpose.
ResetClaims(e) ==
  /\ Operates
  /\ claim' = [claim EXCEPT ![e] = [a \in Accounts |-> NoClaim]]
  /\ lost' = lost + 1
  /\ UNCHANGED <<evEnabled, reward, evDue, eventGame, lock, job, grantFaults, tickFaults,
                 landed, sealed>>

Qualifies(e, a) ==
  /\ lock = NoOne /\ a \notin qualified[e]
  /\ qualified' = [qualified EXCEPT ![e] = @ \cup {a}]
  /\ UNCHANGED <<eventStore, kind, awardPast, connected, lock, job, grantFaults, tickFaults,
                 eventOps, eventHistory>>

PollElapses(e) ==
  /\ lock = NoOne /\ ~evDue[e]
  /\ evDue' = [evDue EXCEPT ![e] = TRUE]
  /\ UNCHANGED <<evEnabled, reward, claim, eventGame, lock, job, grantFaults, tickFaults,
                 eventOps, eventHistory>>

BackoffElapses(e, a) ==
  /\ lock = NoOne /\ claim[e][a].waiting
  /\ claim' = [claim EXCEPT ![e][a].waiting = FALSE]
  /\ UNCHANGED <<evEnabled, reward, evDue, eventGame, lock, job, grantFaults, tickFaults,
                 eventOps, eventHistory>>

TickSteps(p) ==
  \/ BackfillDone(p) \/ SealClaim(p) \/ OutcomesDone(p) \/ TickCommits(p)
  \/ \E e \in Events : BackfillEvent(p, e) \/ EvaluateEvent(p, e)
                       \/ \E a \in Accounts : RetryClaim(p, e, a)
  \/ \E a \in Accounts : BeginOutcome(p, a)
  \/ PayStep(p, TRUE, TRUE)

EventNext ==
  \/ \E p \in Tickers :
       \/ \E boot \in BOOLEAN : TickBegins(p, boot)
       \/ TickSteps(p)
       \/ PayStep(p, FALSE, FALSE) \/ PayStep(p, TRUE, FALSE)
       \/ \E a \in Accounts : RetryUnresolved(p, a)
       \/ TickFails(p)
  \/ \E e \in Events :
       \/ \E r \in Rewards : EditReward(e, r)
       \/ SwitchEvent(e) \/ ResetClaims(e) \/ PollElapses(e)
       \/ \E a \in Accounts : Qualifies(e, a) \/ BackoffElapses(e, a)

EventSpec == EventInit /\ [][EventNext]_eventVars

-----------------------------------------------------------------------------
(* Properties                                                              *)

\* Claims are well formed, and only the holder of the lock is in a tick.
EventTypeOK ==
  /\ \A e \in Events, a \in Accounts :
       /\ claim[e][a].status \in {"none", "pending", "granted", "exhausted"}
       /\ claim[e][a].attempts \in 0..MaxAttempts
       /\ claim[e][a].cursor \in Rewards
  /\ lock \in Tickers \cup {NoOne}
  /\ \A p \in Tickers : job[p].at # "out" => lock = p

\* No step of an event's reward lands twice for an account, but for the ticks
\* whose transaction was lost after a payment, commands that landed although
\* they timed out, and claims the operator reset: retries, edits of the reward
\* and ticks of two processes pay nothing twice.
PaidTwiceOnlyIfLost ==
  \A e \in Events, a \in Accounts, s \in RewardSteps : landed[e][a][s] <= 1 + lost

\* A claim that is granted was paid in full: the whole reward it was sealed
\* for landed, however often its delivery was resumed and the reward edited.
GrantedInFull ==
  \A e \in Events, a \in Accounts : claim[e][a].status = "granted" =>
    \A s \in ToSet(sealed[e][a]) : landed[e][a][s] >= 1

\* What the engine owes its players, in one: neither twice nor in part.
RewardsSafe == PaidTwiceOnlyIfLost /\ GrantedInFull
====
