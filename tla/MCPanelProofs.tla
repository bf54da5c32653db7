----------------------------- MODULE MCPanelProofs -----------------------------
(***************************************************************************)
(* What the composition of MCPanel promises for every value of its         *)
(* constants.  Each of its behaviours is one of every part, of which one   *)
(* moves, so what is proved of a part holds of the composition; and the    *)
(* ranges of every part, which the parts' invariants use in the shapes     *)
(* they need, are proved here on top of those invariants.                  *)
(***************************************************************************)
EXTENDS MCPanel, RefinementProofs, HandoutProofs, PanelProofs, IniProofs

-----------------------------------------------------------------------------
(* The scheduler                                                           *)

\* Instants lie in the day, and who is counted down to was armed.
RangesFit ==
  /\ now \in 0..Horizon
  /\ lastWarn \in {Never} \cup 0..Horizon /\ lastBackup \in {Never} \cup 0..Horizon
  /\ tick.at \in {"rest", "due", "clear", "fire", "slot", "slotwarn", "warn", "warned",
                  "recordwarn", "backup", "dumping", "tasks", "run", "down"}
  /\ command.op \in {"none", "arm", "run", "cancel"}
  /\ countdown \in {Never} \cup 1..armed
  /\ tick.at \in {"slot", "slotwarn", "warn"} /\ tick.pend # Never => tick.pend.id \in 1..armed

\* Every step of the scheduler keeps it.
LEMMA RangesKept == ASSUME IntentInv, RangesFit, [SchedNext]_schedVars PROVE RangesFit'
  <1> USE SchedAssumption DEF SchedAssumption, IntentInv, ShapesOK, RangesFit, Taking, Step,
          Asleep, NoCommand, Command, Tasks, restartLedger, taskLedger, schedHistory
  <1>1. CASE BeginTick
    BY <1>1 DEF BeginTick
  <1>2. CASE ClearPending \/ ClearWarning
    BY <1>2 DEF ClearPending, ClearWarning
  <1>3. CASE SlotCheck
    <2>1. CASE tick.pend = Never /\ RestartDue /\ configured
      <3>1. /\ armed' = armed + 1 /\ pending' = [id |-> armed + 1, at |-> tick.since + Lead]
            /\ tick' = [tick EXCEPT !.at = "slotwarn", !.pend = pending']
            /\ UNCHANGED <<now, lastWarn, lastBackup, command, countdown>>
        BY <1>3, <2>1 DEF SlotCheck
      <3>2. tick'.at = "slotwarn" /\ tick'.pend.id = armed + 1
        BY <3>1
      <3> QED
        BY <3>1, <3>2
    <2>2. CASE ~(tick.pend = Never /\ RestartDue /\ configured)
      BY <1>3, <2>2 DEF SlotCheck
    <2> QED
      BY <2>1, <2>2
  <1>4. CASE SlotWarning \/ ClearAnnounced \/ RecordAnnounced
    BY <1>4 DEF SlotWarning, ClearAnnounced, RecordAnnounced
  <1>5. CASE BackupStarts \/ BackupEnds \/ TickEnds
    <2>1. tick'.at \in {"dumping", "tasks", "rest"}
      <3>1. CASE BackupStarts
        <4>1. tick' = [tick EXCEPT !.at = IF BackupDue THEN "dumping" ELSE "tasks", !.since = now]
          BY <3>1 DEF BackupStarts
        <4> QED
          BY <4>1
      <3>2. CASE BackupEnds
        BY <3>2 DEF BackupEnds
      <3>3. CASE TickEnds
        BY <3>3 DEF TickEnds
      <3> QED
        BY <1>5, <3>1, <3>2, <3>3
    <2>2. /\ UNCHANGED <<now, lastWarn, command, countdown, armed>>
          /\ lastBackup' \in {lastBackup, now}
      BY <1>5 DEF BackupStarts, BackupEnds, TickEnds
    <2> QED
      BY <2>1, <2>2
  <1>6. CASE ContainerCrash \/ ContainerBoots
    BY <1>6 DEF ContainerCrash, ContainerBoots
  <1>7. CASE Passes
    BY <1>7 DEF Passes
  <1>8. CASE RunRestartArms \/ CancelRestart
    BY <1>8 DEF RunRestartArms, CancelRestart
  <1>9. ASSUME NEW ok \in BOOLEAN, FireRestart(ok) PROVE RangesFit'
    BY <1>9 DEF FireRestart
  <1>10. ASSUME NEW ok \in BOOLEAN, Announce(ok) PROVE RangesFit'
    <2>1. /\ tick.at = "warn" /\ tick' = [tick EXCEPT !.at = tick'.at]
          /\ tick'.at \in {"warned", "backup"}
          /\ countdown' = countdown \/ (tick.pend # Never /\ countdown' = tick.pend.id)
          /\ UNCHANGED <<now, lastWarn, lastBackup, command, armed>>
      BY <1>10 DEF Announce
    <2> QED
      BY <2>1
  <1>11. ASSUME NEW ok \in BOOLEAN, RecordTask(ok) PROVE RangesFit'
    BY <1>11 DEF RecordTask
  <1>12. ASSUME NEW ok \in BOOLEAN, RunRestart(ok) PROVE RangesFit'
    BY <1>12 DEF RunRestart
  <1>13. ASSUME NEW ok \in BOOLEAN, CancelTells(ok) PROVE RangesFit'
    BY <1>13 DEF CancelTells
  <1>14. ASSUME NEW t \in Tasks, RunTask(t) PROVE RangesFit'
    BY <1>14 DEF RunTask
  <1>15. ASSUME NEW delay \in Delays, ArmRestart(delay) PROVE RangesFit'
    BY <1>15 DEF ArmRestart
  <1>16. ASSUME NEW window \in Delays, ArmWarning(window) PROVE RangesFit'
    BY <1>16 DEF ArmWarning
  <1>17. CASE SetSchedule({"restart"}) \/ UNCHANGED schedVars
    BY <1>17 DEF SetSchedule, schedVars
  <1> QED
    BY <1>1, <1>2, <1>3, <1>4, <1>5, <1>6, <1>7, <1>8, <1>9, <1>10, <1>11, <1>12, <1>13,
       <1>14, <1>15, <1>16, <1>17
    DEF SchedNext

\* The types of the scheduler (Scheduler): whoever players count down to was armed.
LEMMA SchedTyped == SchedSpec => []SchedTypeOK
  <1>1. SchedInit => RangesFit
    BY SchedAssumption DEF SchedAssumption, SchedInit, RangesFit, Asleep, NoCommand
  <1>2. IntentInv /\ RangesFit /\ [SchedNext]_schedVars => RangesFit'
    BY RangesKept
  <1>3. IntentInv /\ ToldInv /\ RangesFit => SchedTypeOK
    <2> SUFFICES ASSUME IntentInv, ToldInv, RangesFit PROVE SchedTypeOK
      OBVIOUS
    <2>1. pending \in {Never} \cup [id : 1..armed, at : Int]
      BY DEF IntentInv, ShapesOK, ToldInv, InstantsOK
    <2> QED
      BY <2>1 DEF IntentInv, ShapesOK, ToldInv, InstantsOK, RangesFit, SchedTypeOK
  <1> QED
    BY <1>1, <1>2, <1>3, ToldAlways, PTL DEF SchedSpec

-----------------------------------------------------------------------------
(* The market bot, the welcome kit, the chat commands                      *)

\* The market bot's types (MarketBot): beside what its invariant says, orders are
\* placed by players, and the switch is a switch.
LEMMA MarketTyped == MarketSpec => []MarketTypeOK
  <1> DEFINE Rest == botOn \in BOOLEAN /\ placed \subseteq Orders
  <1>1. MarketInit => Rest
    BY DEF MarketInit
  <1>2. Rest /\ [MarketNext]_marketVars => Rest'
    BY DEF MarketNext, marketVars, BeginPostTick, PostListings, BeginBuyTick, SelectBuys, Buy,
           EndTick, TickDies, SwitchBot, PostByHand, ClearListings, BuyListing, PlaceOrder, OrderGoes
  <1>3. MarketInv /\ Rest => MarketTypeOK
    BY DEF MarketInv, BuyersOK, PaidIsGone, MarketCounts, MarketTypeOK
  <1> QED
    BY <1>1, <1>2, <1>3, MarketInvariant, PTL DEF MarketSpec

\* The welcome kit's types (Welcome).
LEMMA KitsTyped == WelcomeSpec => []WelcomeTypeOK
  <1> DEFINE Rest == kitOn \in BOOLEAN
  <1>1. WelcomeInit => Rest
    BY DEF WelcomeInit
  <1>2. Rest /\ [WelcomeNext]_welcomeVars => Rest'
    BY DEF WelcomeNext, welcomeVars, kitConfig, BeginScan, NextAccount, GiveItem, Record, ScanDies,
           SwitchKit, RetryFailed, ActivateKit, Connects
  <1>3. KitInv /\ Rest => WelcomeTypeOK
    BY DEF KitInv, ScansOK, Grants, KitStoreOK, WelcomeTypeOK
  <1> QED
    BY <1>1, <1>2, <1>3, KitInvariant, PTL DEF WelcomeSpec

\* The chat commands' types (ChatCommands): x-max-length bounds the queue and DRAIN_MAX
\* what a tick takes off it.
LEMMA ChatTyped == ChatSpec => []ChatTypeOK
  <1> DEFINE Flags == chatOn \in BOOLEAN /\ queueReady \in BOOLEAN
             Lengths == Len(chatQueue.said) <= QueueMax /\ Len(chatTick.messages) <= DrainMax
  <1>1. ChatInit => Flags /\ Lengths
    <2>1. QueueMax \in Nat /\ DrainMax \in Nat
      BY ChatAssumption DEF ChatAssumption
    <2>2. Len(<<>>) = 0 /\ BetweenTicks.messages = <<>> /\ NoQueue.said = <<>>
      BY DEF BetweenTicks, NoQueue
    <2>3. ASSUME ChatInit PROVE /\ chatOn = FALSE /\ queueReady = FALSE
                                /\ chatQueue.said = <<>> /\ chatTick.messages = <<>>
      BY <2>2, <2>3 DEF ChatInit
    <2> QED
      BY <2>1, <2>2, <2>3
  <1>2. Flags /\ [ChatNext]_chatVars => Flags'
    BY DEF ChatNext, chatVars, chatConfig, chatFile, DropQueue, InitQueue, Drain, Execute,
           SaveCooldowns, ContainerRestart, SayKit, SwitchChat, SetCooldown, ChatClock
  <1>3. ChatInv /\ Lengths /\ [ChatNext]_chatVars => Lengths'
    <2> SUFFICES ASSUME ChatInv, Lengths, [ChatNext]_chatVars PROVE Lengths'
      OBVIOUS
    <2>0. /\ QueueMax \in Nat \ {0} /\ DrainMax \in Nat \ {0} /\ Unsaid \notin Int
          /\ chatQueue \in [there : BOOLEAN, said : Seq(Chatters)]
          /\ chatTick \in [at : {"sleep", "drain", "execute"}, messages : Seq(Chatters),
                           stamps : [Chatters -> ChatAges]]
      BY ChatAssumption DEF ChatAssumption, ChatInv, ChatStoreOK, TickOK
    <2>1. Len(<<>>) = 0 /\ BetweenTicks.messages = <<>> /\ NoQueue.said = <<>>
      BY DEF BetweenTicks, NoQueue
    <2>2. CASE Drain
      <3> DEFINE said == chatQueue.said
                 least == Min({DrainMax, Len(said)})
                 taken == SubSeq(said, 1, least)
                 left == SubSeq(said, Len(taken) + 1, Len(said))
      <3>1. said \in Seq(Chatters) /\ Len(said) \in Nat
        BY <2>0
      <3>2. least = IF DrainMax <= Len(said) THEN DrainMax ELSE Len(said)
        BY <2>0, <3>1, MinOfTwo
      <3>3. least \in Nat /\ least <= Len(said) /\ least <= DrainMax
        BY <2>0, <3>1, <3>2
      <3>4. taken \in Seq(Chatters) /\ Len(taken) = least
        <4> HIDE DEF least, said
        <4> QED
          BY <3>1, <3>3
      <3>5. Len(left) <= Len(said)
        <4> HIDE DEF least, said, taken
        <4> QED
          BY <3>1, <3>3, <3>4
      <3>6. chatQueue' = [chatQueue EXCEPT !.said = left]
        BY <2>2 DEF Drain
      <3>7. chatTick'.messages = taken \/ chatTick' = BetweenTicks
        <4>1. \/ chatTick' = [at |-> "execute", messages |-> taken, stamps |-> stamps]
              \/ chatTick' = BetweenTicks
          BY <2>2 DEF Drain
        <4> HIDE DEF taken
        <4> QED
          BY <4>1
      <3>8. chatQueue'.said = left
        BY <2>0, <3>6
      <3> QED
        BY <2>0, <2>1, <3>3, <3>4, <3>5, <3>7, <3>8, <3>1
    <2>3. CASE \E p \in Chatters : SayKit(p)
      <3>1. PICK p \in Chatters : SayKit(p)
        BY <2>3
      <3> DEFINE said == Append(chatQueue.said, p)
      <3>2. said \in Seq(Chatters) /\ Len(said) = Len(chatQueue.said) + 1
        BY <2>0
      <3>3. /\ chatQueue'.said = IF Len(said) > QueueMax THEN Tail(said) ELSE said
            /\ UNCHANGED chatTick
        BY <3>1 DEF SayKit, Queued
      <3>4. Len(said) # 0 => Len(Tail(said)) = Len(said) - 1
        <4> HIDE DEF said
        <4> QED
          BY <3>2
      <3> HIDE DEF said
      <3> QED
        BY <2>0, <3>2, <3>3, <3>4
    <2>4. CASE Execute
      <3>1. /\ chatTick'.messages = Tail(chatTick.messages) /\ UNCHANGED chatQueue
            /\ chatTick.messages # <<>>
        BY <2>0, <2>4 DEF Execute
      <3>2. Len(Tail(chatTick.messages)) = Len(chatTick.messages) - 1 /\ Len(chatTick.messages) \in Nat
        BY <2>0, <3>1
      <3> QED
        BY <2>0, <3>1, <3>2
    <2>5. CASE DropQueue \/ InitQueue \/ SaveCooldowns \/ ContainerRestart \/ SwitchChat \/ ChatClock
               \/ (\E n \in Cooldowns : SetCooldown(n)) \/ UNCHANGED chatVars
      <3>1. /\ chatQueue'.said = chatQueue.said \/ chatQueue' = NoQueue
            /\ chatTick'.messages = chatTick.messages \/ chatTick' = BetweenTicks
        BY <2>0, <2>5 DEF DropQueue, InitQueue, SaveCooldowns, ContainerRestart, SwitchChat, ChatClock,
                          SetCooldown, chatVars
      <3> QED
        BY <2>0, <2>1, <3>1
    <2> QED
      BY <2>2, <2>3, <2>4, <2>5 DEF ChatNext
  <1>4. ChatInv /\ Flags /\ Lengths => ChatTypeOK
    BY DEF ChatInv, ChatStoreOK, TickOK, KitsApart, ChatTypeOK
  <1> QED
    BY <1>1, <1>2, <1>3, <1>4, ChatInvariant, PTL DEF ChatSpec

\* The battle pass's types (BattlePass) are a part of its invariant.
LEMMA PassTyped == BpSpec => []BpTypeOK
  <1>1. PassInv => BpTypeOK
    BY DEF PassInv, PassOK, BpTypeOK
  <1> QED
    BY <1>1, PassInvariant, PTL

-----------------------------------------------------------------------------
(* The event engine                                                        *)

\* The attempts of a claim: none before the first delivery, and one is left to a claim
\* that is still owed.
AttemptsFit(c) ==
  /\ c.attempts <= MaxAttempts
  /\ c.status = "none" => c.attempts = 0
  /\ c.status = "pending" => c.attempts < MaxAttempts
TableFits(t) == \A e \in Events, a \in Accounts : AttemptsFit(t[e][a])

\* It is so of the claims committed and of those of a tick, which only the holder of the
\* lock is in; and the account that is paid is one of those to be paid.
TicksFit ==
  /\ TableFits(claim)
  /\ \A p \in Tickers : /\ TableFits(job[p].claim)
                        /\ job[p].at # "out" => lock = p
                        /\ job[p].at = "pay" => job[p].account \in job[p].todo

\* What an outcome leaves of a claim that was owed.
LEMMA AttemptsKept ==
  ASSUME MaxAttempts > 1, NEW c \in ClaimRows, AttemptsFit(c)
  PROVE  /\ AttemptsFit(GrantedClaim(c)) /\ AttemptsFit(RefusedClaim(c))
         /\ AttemptsFit([c EXCEPT !.waiting = FALSE]) /\ AttemptsFit(NoClaim)
         /\ c.status \in {"none", "pending"} =>
              \A cursor, at : AttemptsFit(FailedClaim(c, cursor, at))
  <1>0. MaxAttempts \in Nat /\ c.attempts \in Nat
    BY EventAssumption DEF EventAssumption, ClaimRows
  <1>1. GrantedClaim(c).status = "granted" /\ GrantedClaim(c).attempts = c.attempts
    BY DEF GrantedClaim, ClaimRows
  <1>2. RefusedClaim(c).status = "exhausted" /\ RefusedClaim(c).attempts = MaxAttempts
    BY DEF RefusedClaim, ClaimRows
  <1>3. /\ [c EXCEPT !.waiting = FALSE].status = c.status
        /\ [c EXCEPT !.waiting = FALSE].attempts = c.attempts
    BY DEF ClaimRows
  <1>4. NoClaim.status = "none" /\ NoClaim.attempts = 0
    BY DEF NoClaim
  <1>5. ASSUME c.status \in {"none", "pending"}, NEW cursor, NEW at
        PROVE  AttemptsFit(FailedClaim(c, cursor, at))
    <2> DEFINE spent == c.status # "none" /\ c.attempts + 1 >= MaxAttempts
    <2>1. /\ FailedClaim(c, cursor, at).status = IF spent THEN "exhausted" ELSE "pending"
          /\ FailedClaim(c, cursor, at).attempts = c.attempts + 1
      BY DEF FailedClaim
    <2> QED
      BY <1>0, <1>5, <2>1 DEF AttemptsFit
  <1> QED
    BY <1>0, <1>1, <1>2, <1>3, <1>4, <1>5 DEF AttemptsFit

\* A table in which a claim that fits takes the place of another.
LEMMA TableKept ==
  ASSUME NEW t \in ClaimTables, TableFits(t), NEW e \in Events, NEW a \in Accounts,
         NEW c \in ClaimRows, AttemptsFit(c)
  PROVE  TableFits([t EXCEPT ![e][a] = c])
  <1> DEFINE u == [t EXCEPT ![e][a] = c]
  <1>1. u[e][a] = c /\ \A f \in Events, b \in Accounts : f # e \/ b # a => u[f][b] = t[f][b]
    BY DEF ClaimTables
  <1> HIDE DEF u
  <1>2. TableFits(u)
    BY <1>1 DEF TableFits
  <1> QED
    BY <1>2 DEF u

\* The step of the tick that has the lock, or is about to.
LEMMA TurnKept ==
  ASSUME EngineInv, TicksFit, NEW p \in Tickers, NEW j, Turn(p, j), TableFits(claim'),
         lock \in {p, NoOne}, lock' = p \/ (lock' = NoOne /\ j.at = "out"),
         TableFits(j.claim), j.at = "pay" => j.account \in j.todo
  PROVE  TicksFit'
  <1>1. job' = [job EXCEPT ![p] = j] /\ job \in [Tickers -> Ticks] /\ NoOne \notin Tickers
    BY EventAssumption DEF Turn, EngineInv, EngineOK, EventAssumption
  <1>2. job'[p] = j /\ \A q \in Tickers \ {p} : job'[q] = job[q] /\ job[q].at = "out"
    BY <1>1 DEF TicksFit
  <1>3. TableFits(claim)'
    BY DEF TableFits
  <1>4. \A q \in Tickers : /\ TableFits(job'[q].claim)
                           /\ job'[q].at # "out" => lock' = q
                           /\ job'[q].at = "pay" => job'[q].account \in job'[q].todo
    BY <1>2 DEF TicksFit
  <1> QED
    BY <1>3, <1>4 DEF TicksFit, TableFits

\* The steps of a tick that write no claim.
LEMMA WalkFits ==
  ASSUME EngineInv, TicksFit, NEW p \in Tickers,
         \/ BackfillDone(p) \/ OutcomesDone(p)
         \/ \E e \in Events : \/ BackfillEvent(p, e) \/ EvaluateEvent(p, e)
                            \/ \E a \in Accounts : RetryClaim(p, e, a)
  PROVE  TicksFit'
  <1>1. /\ lock = p /\ lock' = p /\ claim' = claim /\ job[p] \in Ticks
        /\ TableFits(job[p].claim) /\ TableFits(claim)
    BY DEF BackfillDone, OutcomesDone, BackfillEvent, EvaluateEvent, RetryClaim, Works, eventStore,
           EngineInv, EngineOK, TicksFit
  <1>2. ASSUME NEW j, Turn(p, j), j.claim = job[p].claim, j.at # "pay" PROVE TicksFit'
    BY <1>1, <1>2, TurnKept
  <1>3. CASE BackfillDone(p)
    BY <1>1, <1>2, <1>3 DEF BackfillDone, Ticks
  <1>4. CASE OutcomesDone(p)
    <2> DEFINE at == IF job[p].at = "pick" /\ job[p].mode = "backfill" THEN "backfill" ELSE "events"
    <2>1. Turn(p, [job[p] EXCEPT !.at = at, !.event = NoOne])
      BY <1>1, <1>4 DEF OutcomesDone, Ticks
    <2>2. at # "pay"
      OBVIOUS
    <2> HIDE DEF at
    <2> QED
      BY <1>1, <1>2, <2>1, <2>2 DEF Ticks
  <1>5. ASSUME NEW e \in Events, BackfillEvent(p, e) \/ EvaluateEvent(p, e) PROVE TicksFit'
    <2>1. PICK mode, events, due, todo :
            Turn(p, [job[p] EXCEPT !.at = "pick", !.mode = mode, !.event = e, !.events = events,
                                   !.due = due, !.todo = todo])
      <3>1. CASE BackfillEvent(p, e)
        <4> DEFINE todo == IF kind[e] = "zone_race" THEN {}
                           ELSE {a \in job[p].players \cap qualified[e] :
                                   job[p].claim[e][a].status = "none"}
        <4>1. Turn(p, [job[p] EXCEPT !.at = "pick", !.mode = "backfill", !.event = e,
                                     !.events = job[p].events \ {e}, !.todo = todo])
          BY <1>1, <3>1 DEF BackfillEvent, Ticks
        <4> HIDE DEF todo
        <4>2. Turn(p, [job[p] EXCEPT !.at = "pick", !.mode = "backfill", !.event = e,
                                     !.events = job[p].events \ {e}, !.due = job[p].due,
                                     !.todo = todo])
          BY <1>1, <4>1 DEF Ticks
        <4> QED
          BY <4>2
      <3>2. CASE EvaluateEvent(p, e)
        <4> DEFINE todo == {a \in job[p].players \cap qualified[e] :
                              job[p].claim[e][a].status \notin {"granted", "exhausted"}}
                   due == [job[p].due EXCEPT ![e] = FALSE]
        <4>1. Turn(p, [job[p] EXCEPT !.at = "pick", !.mode = "event", !.event = e,
                                     !.events = job[p].events \ {e}, !.due = due, !.todo = todo])
          BY <1>1, <3>2 DEF EvaluateEvent, Ticks
        <4> QED
          BY <4>1
      <3> QED
        BY <1>5, <3>1, <3>2
    <2> QED
      BY <1>1, <1>2, <2>1 DEF Ticks
  <1>6. ASSUME NEW e \in Events, NEW a \in Accounts, RetryClaim(p, e, a) PROVE TicksFit'
    BY <1>1, <1>2, <1>6 DEF RetryClaim, Ticks
  <1> QED
    BY <1>3, <1>4, <1>5, <1>6

\* The steps that judge or pay a claim.
LEMMA OutcomeFits ==
  ASSUME MaxAttempts > 1, EngineInv, TicksFit, NEW p \in Tickers,
         \/ SealClaim(p) \/ PayStep(p, TRUE, TRUE) \/ PayStep(p, FALSE, FALSE) \/ PayStep(p, TRUE, FALSE)
         \/ \E a \in Accounts : BeginOutcome(p, a) \/ RetryUnresolved(p, a)
  PROVE  TicksFit'
  <1> DEFINE e == job[p].event
  <1>1. /\ lock = p /\ lock' = p /\ claim' = claim /\ job[p] \in Ticks
        /\ TableFits(job[p].claim) /\ TableFits(claim) /\ job[p].claim \in ClaimTables
    <2>1. lock = p /\ lock' = p /\ claim' = claim
      BY DEF SealClaim, PayStep, BeginOutcome, RetryUnresolved, Works, eventStore
    <2>2. job[p] \in Ticks
      BY DEF EngineInv, EngineOK
    <2> QED
      BY <2>1, <2>2 DEF TicksFit, Ticks
  <1>2. TickFits(job[p], landed, lost) /\ \A f \in Events, b \in Accounts : job[p].claim[f][b] \in ClaimRows
    BY <1>1, InTick
  <1>3. ASSUME NEW a \in Accounts, a \in job[p].todo, job[p].at \in {"pick", "pay"}
        PROVE  /\ e \in Events /\ job[p].claim[e][a] \in ClaimRows
               /\ AttemptsFit(job[p].claim[e][a])
               /\ job[p].claim[e][a].status \in {"none", "pending"}
    BY <1>1, <1>2, <1>3 DEF TickFits, TableFits
  <1>4. ASSUME NEW a \in Accounts, e \in Events, NEW c \in ClaimRows, AttemptsFit(c)
        PROVE  /\ TableFits([job[p].claim EXCEPT ![e][a] = c])
               /\ [job[p].claim EXCEPT ![e][a] = c] \in ClaimTables
    BY <1>1, <1>4, TableKept, ClaimWritten
  <1>5. ASSUME NEW j, Turn(p, j), TableFits(j.claim), j.at = "pay" => j.account \in j.todo
        PROVE  TicksFit'
    BY <1>1, <1>5, TurnKept
  <1>6. ASSUME NEW t \in ClaimTables, TableFits(t), Turn(p, Next1(p, t)) PROVE TicksFit'
    BY <1>1, <1>5, <1>6, AccountDone
  <1>7. CASE SealClaim(p) \/ PayStep(p, TRUE, TRUE) \/ PayStep(p, FALSE, FALSE) \/ PayStep(p, TRUE, FALSE)
    <2> DEFINE a == job[p].account
               c == job[p].claim[e][a]
               at == Len(job[p].full) - Len(job[p].plan) + 1
    <2>1. job[p].at = "pay" /\ a \in Accounts /\ a \in job[p].todo /\ job[p].full \in Rewards
      <3>1. Works(p, "pay")
        BY <1>7 DEF SealClaim, PayStep
      <3> QED
        BY <3>1, WhilePaying DEF TicksFit, Works
    <2>2. /\ e \in Events /\ c \in ClaimRows /\ AttemptsFit(c) /\ c.status \in {"none", "pending"}
      BY <1>3, <2>1
    <2>3. CASE SealClaim(p)
      <3>1. Turn(p, Next1(p, [job[p].claim EXCEPT ![e][a] = GrantedClaim(c)]))
        BY <2>3 DEF SealClaim
      <3>2. GrantedClaim(c) \in ClaimRows /\ AttemptsFit(GrantedClaim(c))
        BY <2>2, OutcomeRows, AttemptsKept
      <3> HIDE DEF c, e, a
      <3> QED
        BY <1>4, <1>6, <2>1, <2>2, <3>1, <3>2
    <2>4. CASE PayStep(p, TRUE, TRUE)
      <3>1. Turn(p, [job[p] EXCEPT !.plan = Tail(@), !.paid = TRUE])
        BY <2>4 DEF PayStep
      <3> QED
        BY <1>1, <1>5, <2>1, <3>1 DEF Ticks
    <2>5. CASE PayStep(p, FALSE, FALSE) \/ PayStep(p, TRUE, FALSE)
      <3>1. Turn(p, Next1(p, [job[p].claim EXCEPT ![e][a] = FailedClaim(c, job[p].full, at)]))
        BY <2>5 DEF PayStep
      <3>2. at \in Nat
        <4>1. /\ job[p].plan \in Seq(RewardSteps) /\ job[p].plan # <<>>
              /\ PlanFits(job[p].plan, job[p].full, landed[e][a], lost)
          BY <1>1, <2>1, <2>5, WhilePaying DEF Works, PayStep
        <4>2. at \in 1..Len(job[p].full)
          BY <2>1, <4>1, PlanHead, <1>1, <2>2
        <4>3. Len(job[p].full) \in Nat
          BY <2>1, RewardFacts
        <4> HIDE DEF at
        <4> QED
          BY <4>2, <4>3
      <3> HIDE DEF at
      <3>3. FailedClaim(c, job[p].full, at) \in ClaimRows /\ AttemptsFit(FailedClaim(c, job[p].full, at))
        BY <2>1, <2>2, <3>2, OutcomeRows, AttemptsKept
      <3> HIDE DEF c, e, a
      <3> QED
        BY <1>4, <1>6, <2>1, <2>2, <3>1, <3>3
    <2> QED
      BY <1>7, <2>3, <2>4, <2>5
  <1>8. ASSUME NEW a \in Accounts, RetryUnresolved(p, a) PROVE TicksFit'
    <2> DEFINE c == job[p].claim[e][a]
               d == FailedClaim(c, c.cursor, c.at)
    <2>1. job[p].at = "pick" /\ a \in job[p].todo
      BY <1>8 DEF RetryUnresolved, Works
    <2>2. e \in Events /\ c \in ClaimRows /\ AttemptsFit(c) /\ c.status \in {"none", "pending"}
      BY <1>3, <2>1
    <2>3. d \in ClaimRows /\ AttemptsFit(d)
      <3>1. c.cursor \in Rewards /\ c.at \in Nat
        BY <2>2 DEF ClaimRows
      <3> HIDE DEF c
      <3> QED
        BY <2>2, <3>1, OutcomeRows, AttemptsKept
    <2>4. Turn(p, [job[p] EXCEPT !.at = "events", !.todo = {}, !.claim[e][a] = d])
      BY <1>8 DEF RetryUnresolved
    <2> HIDE DEF d, e
    <2> DEFINE t == [job[p].claim EXCEPT ![e][a] = d]
    <2>5. Turn(p, [job[p] EXCEPT !.at = "events", !.todo = {}, !.claim = t])
      BY <1>1, <2>4 DEF Ticks
    <2>6. TableFits(t)
      BY <1>4, <2>2, <2>3
    <2> HIDE DEF t
    <2> QED
      BY <1>1, <1>5, <2>5, <2>6 DEF Ticks
  <1>9. ASSUME NEW a \in Accounts, BeginOutcome(p, a) PROVE TicksFit'
    <2> DEFINE c == job[p].claim[e][a]
               d == RefusedClaim(c)
               full == IF job[p].mode = "backfill" /\ ~awardPast[e] THEN <<>> ELSE reward[e]
               todo == IF kind[e] = "zone_race" /\ job[p].mode = "event" THEN {} ELSE job[p].todo \ {a}
               plan == Remaining(c, full)
    <2>1. job[p].at = "pick" /\ a \in job[p].todo
      BY <1>9 DEF BeginOutcome, Works
    <2>2. e \in Events /\ c \in ClaimRows /\ AttemptsFit(c) /\ d \in ClaimRows /\ AttemptsFit(d)
      BY <1>3, <2>1, OutcomeRows, AttemptsKept
    <2>3. CASE full # <<>> /\ ~CursorMatches(c, full)
      <3>1. Turn(p, [job[p] EXCEPT !.claim[e][a] = d, !.todo = todo])
        BY <1>9, <2>3 DEF BeginOutcome
      <3> HIDE DEF d, e, todo
      <3> DEFINE t == [job[p].claim EXCEPT ![e][a] = d]
      <3>2. Turn(p, [job[p] EXCEPT !.claim = t, !.todo = todo])
        BY <1>1, <3>1 DEF Ticks
      <3>3. TableFits(t)
        BY <1>4, <2>2
      <3> HIDE DEF t
      <3> QED
        BY <1>1, <1>5, <2>1, <3>2, <3>3 DEF Ticks
    <2>4. CASE full = <<>> \/ CursorMatches(c, full)
      <3>1. Turn(p, [job[p] EXCEPT !.account = a, !.full = full, !.plan = plan, !.at = "pay"])
        BY <1>9, <2>4 DEF BeginOutcome
      <3> HIDE DEF full, plan
      <3> QED
        BY <1>1, <1>5, <2>1, <3>1 DEF Ticks
    <2> QED
      BY <2>3, <2>4
  <1> QED
    BY <1>7, <1>8, <1>9

\* Where a tick begins and ends.
LEMMA EndsFit ==
  ASSUME MaxAttempts > 1, EngineInv, TicksFit, NEW p \in Tickers,
         (\E first \in BOOLEAN : TickBegins(p, first)) \/ TickCommits(p) \/ TickFails(p)
  PROVE  TicksFit'
  <1>1. TableFits(claim) /\ TableFits(job[p].claim)
    BY DEF TicksFit
  <1>2. Out.at = "out" /\ TableFits(Out.claim)
    <2>1. AttemptsFit(NoClaim)
      BY EventAssumption DEF EventAssumption, NoClaim, AttemptsFit
    <2> QED
      BY <2>1 DEF Out, TableFits
  <1>3. ASSUME NEW first \in BOOLEAN, TickBegins(p, first) PROVE TicksFit'
    <2> DEFINE at == IF first THEN "backfill" ELSE "events"
               due == {e \in Events : evEnabled[e] /\ evDue[e]}
               events == IF first THEN {e \in Events : evEnabled[e]} ELSE due
               there == IF due # {} \/ first THEN connected ELSE {}
               j == [Out EXCEPT !.at = at, !.boot = first, !.events = events, !.players = there,
                                !.claim = claim, !.due = evDue]
    <2>1. lock = NoOne /\ lock' = p /\ Turn(p, j) /\ claim' = claim
      BY <1>3 DEF TickBegins, eventStore
    <2>2. at # "pay"
      OBVIOUS
    <2> HIDE DEF at, due, events, there
    <2>3. j.claim = claim /\ j.at = at
      BY DEF Out
    <2> HIDE DEF j
    <2> QED
      BY <1>1, <2>1, <2>2, <2>3, TurnKept
  <1>4. CASE TickCommits(p) \/ TickFails(p)
    <2>1. /\ lock = p /\ lock' = NoOne /\ Turn(p, Out) /\ claim' \in {claim, job[p].claim}
      BY <1>4 DEF TickCommits, TickFails, Works, eventStore
    <2> QED
      BY <1>1, <1>2, <2>1, TurnKept
  <1> QED
    BY <1>3, <1>4

\* What is done beside the ticks.
LEMMA BesideFits ==
  ASSUME MaxAttempts > 1, EngineInv, TicksFit,
         \/ UNCHANGED eventVars
         \/ \E e \in Events :
              \/ \E r \in Rewards : EditReward(e, r)
              \/ SwitchEvent(e) \/ ResetClaims(e) \/ PollElapses(e)
              \/ \E a \in Accounts : Qualifies(e, a) \/ BackoffElapses(e, a)
  PROVE  TicksFit'
  <1>1. UNCHANGED <<job, lock>>
    BY DEF eventVars, EditReward, SwitchEvent, ResetClaims, PollElapses, Qualifies, BackoffElapses
  <1>2. claim \in ClaimTables /\ TableFits(claim) /\ \A e \in Events, a \in Accounts : claim[e][a] \in ClaimRows
    BY DEF EngineInv, EngineOK, TicksFit, ClaimTables
  <1>3. TableFits(claim')
    <2>1. ASSUME NEW e \in Events, ResetClaims(e) PROVE TableFits(claim')
      <3> DEFINE fresh == [a \in Accounts |-> NoClaim]
      <3>1. claim' = [claim EXCEPT ![e] = fresh]
        BY <2>1 DEF ResetClaims
      <3>2. AttemptsFit(NoClaim) /\ \A a \in Accounts : fresh[a] = NoClaim
        BY EventAssumption DEF EventAssumption, NoClaim, AttemptsFit
      <3> HIDE DEF fresh
      <3>3. \A f \in Events : claim'[f] = IF f = e THEN fresh ELSE claim[f]
        BY <1>2, <3>1 DEF ClaimTables
      <3> QED
        BY <1>2, <3>2, <3>3 DEF TableFits
    <2>2. ASSUME NEW e \in Events, NEW a \in Accounts, BackoffElapses(e, a) PROVE TableFits(claim')
      <3> DEFINE c == [claim[e][a] EXCEPT !.waiting = FALSE]
      <3>1. claim' = [claim EXCEPT ![e][a] = c]
        BY <1>2, <2>2 DEF BackoffElapses, ClaimTables
      <3>2. c \in ClaimRows /\ AttemptsFit(c)
        <4>1. claim[e][a] \in ClaimRows /\ AttemptsFit(claim[e][a])
          BY <1>2 DEF TableFits
        <4> QED
          BY <4>1, AttemptsKept DEF ClaimRows
      <3> HIDE DEF c
      <3> QED
        BY <1>2, <3>1, <3>2, TableKept
    <2>3. ASSUME claim' = claim PROVE TableFits(claim')
      BY <1>2, <2>3
    <2> QED
      BY <2>1, <2>2, <2>3
      DEF EditReward, SwitchEvent, PollElapses, Qualifies, eventStore, eventVars
  <1> QED
    BY <1>1, <1>3 DEF TicksFit, TableFits

\* The event engine's types (EventEngine): claims are well formed, none is tried more than
\* MAX_ATTEMPTS times, and only the holder of the lock is in a tick.  A claim's first
\* failure leaves it pending, so that the bound must leave room for a second attempt.
LEMMA EventTyped == ASSUME MaxAttempts > 1 PROVE EventSpec => []EventTypeOK
  <1>1. EventInit => TicksFit
    <2> SUFFICES ASSUME EventInit PROVE TicksFit
      OBVIOUS
    <2>1. AttemptsFit(NoClaim)
      BY EventAssumption DEF EventAssumption, NoClaim, AttemptsFit
    <2>2. /\ claim = [e \in Events |-> [a \in Accounts |-> NoClaim]]
          /\ \A p \in Tickers : job[p] = Out
      BY DEF EventInit
    <2>3. Out.at = "out" /\ Out.claim = [e \in Events |-> [a \in Accounts |-> NoClaim]]
      BY DEF Out
    <2> QED
      BY <2>1, <2>2, <2>3 DEF TicksFit, TableFits
  <1>2. EngineInv /\ TicksFit /\ [EventNext]_eventVars => TicksFit'
    <2> SUFFICES ASSUME EngineInv, TicksFit, [EventNext]_eventVars PROVE TicksFit'
      OBVIOUS
    <2>1. ASSUME NEW p \in Tickers,
                 \/ \E first \in BOOLEAN : TickBegins(p, first)
                 \/ TickSteps(p) \/ PayStep(p, FALSE, FALSE) \/ PayStep(p, TRUE, FALSE)
                 \/ \E a \in Accounts : RetryUnresolved(p, a)
                 \/ TickFails(p)
          PROVE  TicksFit'
      BY <2>1, WalkFits, OutcomeFits, EndsFit DEF TickSteps
    <2> QED
      BY <2>1, BesideFits DEF EventNext
  <1>3. EngineInv /\ TicksFit => EventTypeOK
    <2> SUFFICES ASSUME EngineInv, TicksFit PROVE EventTypeOK
      OBVIOUS
    <2>1. ASSUME NEW e \in Events, NEW a \in Accounts
          PROVE  /\ claim[e][a] \in ClaimRows /\ claim[e][a].attempts <= MaxAttempts
      BY <2>1 DEF EngineInv, EngineOK, ClaimTables, TicksFit, TableFits, AttemptsFit
    <2>2. MaxAttempts \in Nat
      BY EventAssumption DEF EventAssumption
    <2> QED
      BY <2>1, <2>2 DEF ClaimRows, EventTypeOK, TicksFit, EngineInv, EngineOK
  <1> QED
    BY <1>1, <1>2, <1>3, EngineInvariant, PTL DEF EventSpec

-----------------------------------------------------------------------------
(* The settings                                                            *)

\* What a line of the file may hold, and a variable: a text with a double quote in it
\* can be had in a variable only, and white space nowhere.
LineValues == SettingValues \cup {Unset, Cleared}
VariableValues == LineValues \cup {Quote}

ValuesFit ==
  /\ iniFile \in [Settings -> LineValues] /\ promised \in [Settings -> LineValues]
  /\ eggVariable \in [Pinned -> VariableValues] /\ containerEnv \in [Pinned -> VariableValues]
  /\ torn \subseteq Settings
  /\ \A e \in Editors : editor[e] # NoEdit =>
       /\ editor[e].value \in VariableValues
       /\ editor[e].text \in [Settings -> LineValues]
       /\ editor[e].at \in {"open", "write"} => editor[e].value # Quote

\* A step of one request, which keeps or forgets what it is about.
LEMMA EditFits ==
  ASSUME SettingInv, ValuesFit, NEW e \in Editors, NEW step, Edit(e, step),
         step # NoEdit =>
           /\ step.value \in VariableValues /\ step.text \in [Settings -> LineValues]
           /\ step.at \in {"open", "write"} => step.value # Quote
  PROVE  \A d \in Editors : editor'[d] # NoEdit =>
           /\ editor'[d].value \in VariableValues
           /\ editor'[d].text \in [Settings -> LineValues]
           /\ editor'[d].at \in {"open", "write"} => editor'[d].value # Quote
  <1>1. \A d \in Editors : editor'[d] = IF d = e THEN step ELSE editor[d]
    BY DEF Edit, SettingInv, EditsOK
  <1> QED
    BY <1>1 DEF ValuesFit

\* Every step of the settings keeps it.
LEMMA ValuesKept == ASSUME SettingInv, ValuesFit, [SettingNext]_settingVars PROVE ValuesFit'
  <1>0. /\ editor \in [Editors -> {NoEdit} \cup Edits] /\ Pinned \subseteq Settings
        /\ NoEdit.at = "idle" /\ Unset \in LineValues /\ Cleared \in LineValues
        /\ LineValues \subseteq VariableValues /\ Quote \in VariableValues
    BY SettingAssumption
    DEF SettingInv, EditsOK, SettingAssumption, NoEdit, LineValues, VariableValues
  <1>1. ASSUME NEW e \in Editors, Submit(e) PROVE ValuesFit'
    <2>1. PICK s \in Settings, text \in SettingValues \cup {Cleared, Spaces, Quote} :
            LET others == {d \in Editors : editor[d] # NoEdit /\ editor[d].setting = s} IN
            /\ editor' = [d \in Editors |->
                 IF d = e THEN [at |-> IF s \in Pinned THEN "pin" ELSE "lock", setting |-> s,
                                value |-> Normal(text), text |-> Blank, alone |-> others = {}]
                 ELSE IF d \in others THEN [editor[d] EXCEPT !.alone = FALSE] ELSE editor[d]]
            /\ promised' = [promised EXCEPT ![s] = Unset]
      BY <1>1 DEF Submit
    <2>2. /\ Normal(text) \in VariableValues /\ Blank \in [Settings -> LineValues]
          /\ UNCHANGED <<iniFile, eggVariable, containerEnv, torn>>
      BY <1>0, <1>1 DEF Normal, LineValues, VariableValues, Blank, Submit, settingDisk
    <2>3. promised' \in [Settings -> LineValues]
      BY <1>0, <2>1 DEF ValuesFit
    <2>4. ASSUME NEW d \in Editors, editor'[d] # NoEdit
          PROVE  /\ editor'[d].value \in VariableValues
                 /\ editor'[d].text \in [Settings -> LineValues]
                 /\ editor'[d].at \in {"open", "write"} => editor'[d].value # Quote
      <3>1. CASE d = e
        <4>1. /\ editor'[d].value = Normal(text) /\ editor'[d].text = Blank
              /\ editor'[d].at = IF s \in Pinned THEN "pin" ELSE "lock"
          BY <2>1, <3>1
        <4> QED
          BY <2>2, <4>1
      <3>2. CASE d # e
        <4>1. \/ editor'[d] = editor[d]
              \/ editor[d] # NoEdit /\ editor'[d] = [editor[d] EXCEPT !.alone = FALSE]
          BY <2>1, <3>2
        <4>2. editor[d] # NoEdit /\ editor[d] \in Edits
          BY <1>0, <2>4, <4>1
        <4>3. /\ editor'[d].value = editor[d].value /\ editor'[d].text = editor[d].text
              /\ editor'[d].at = editor[d].at
          BY <4>1, <4>2 DEF Edits
        <4> QED
          BY <4>2, <4>3 DEF ValuesFit
      <3> QED
        BY <3>1, <3>2
    <2> QED
      BY <2>2, <2>3, <2>4 DEF ValuesFit
  <1>2. ASSUME NEW e \in Editors, PinVariable(e) \/ LockAndRead(e) \/ OpenForWriting(e) \/ WriteText(e)
        PROVE  ValuesFit'
    <2> DEFINE s == editor[e].setting
               v == editor[e].value
    <2>1. /\ editor[e] # NoEdit /\ editor[e] \in Edits /\ s \in Settings /\ v \in VariableValues
          /\ editor[e].text \in [Settings -> LineValues]
      <3>1. editor[e] # NoEdit
        BY <1>0, <1>2 DEF PinVariable, LockAndRead, OpenForWriting, WriteText
      <3> QED
        BY <1>0, <3>1 DEF ValuesFit, Edits
    <2>2. UNCHANGED <<containerEnv>> /\ torn' \subseteq Settings
      BY <1>2 DEF PinVariable, LockAndRead, OpenForWriting, WriteText, settingDisk, ValuesFit
    <2>3. CASE PinVariable(e)
      <3>1. /\ UNCHANGED <<iniFile, promised>>
            /\ eggVariable' = eggVariable \/ eggVariable' = [eggVariable EXCEPT ![s] = v]
            /\ Edit(e, NoEdit) \/ Edit(e, [editor[e] EXCEPT !.at = "lock"])
        BY <2>3 DEF PinVariable
      <3>2. eggVariable' \in [Pinned -> VariableValues]
        BY <2>1, <3>1 DEF ValuesFit
      <3>3. LET j == [editor[e] EXCEPT !.at = "lock"] IN
            j.value = v /\ j.text = editor[e].text /\ j.at = "lock"
        BY <2>1 DEF Edits
      <3> QED
        BY <2>1, <2>2, <3>1, <3>2, <3>3, EditFits DEF ValuesFit
    <2>4. CASE LockAndRead(e)
      <3>1. /\ UNCHANGED <<iniFile, eggVariable, promised>>
            /\ \/ Edit(e, NoEdit)
               \/ v # Quote /\ Edit(e, [editor[e] EXCEPT !.at = "open", !.text = iniFile])
        BY <2>4 DEF LockAndRead, settingDisk
      <3>2. LET j == [editor[e] EXCEPT !.at = "open", !.text = iniFile] IN
            j.value = v /\ j.text = iniFile /\ j.at = "open"
        BY <2>1 DEF Edits
      <3>3. iniFile \in [Settings -> LineValues]
        BY DEF ValuesFit
      <3> QED
        BY <2>1, <2>2, <3>1, <3>2, <3>3, EditFits DEF ValuesFit
    <2>5. CASE OpenForWriting(e)
      <3>1. /\ UNCHANGED <<eggVariable, promised>> /\ iniFile' = Blank /\ v # Quote
            /\ Edit(e, [editor[e] EXCEPT !.at = "write"])
        BY <2>1, <2>5 DEF OpenForWriting, ValuesFit
      <3>2. LET j == [editor[e] EXCEPT !.at = "write"] IN
            j.value = v /\ j.text = editor[e].text /\ j.at = "write"
        BY <2>1 DEF Edits
      <3>3. iniFile' \in [Settings -> LineValues]
        BY <1>0, <3>1 DEF Blank
      <3> QED
        BY <2>1, <2>2, <3>1, <3>2, <3>3, EditFits DEF ValuesFit
    <2>6. CASE WriteText(e)
      <3>1. /\ UNCHANGED eggVariable /\ v # Quote /\ Edit(e, NoEdit)
            /\ iniFile' = [editor[e].text EXCEPT ![s] = v]
            /\ promised' = promised \/ promised' = [promised EXCEPT ![s] = v]
        BY <2>1, <2>6 DEF WriteText, ValuesFit
      <3>2. v \in LineValues
        BY <2>1, <3>1 DEF VariableValues
      <3>3. iniFile' \in [Settings -> LineValues] /\ promised' \in [Settings -> LineValues]
        BY <2>1, <3>1, <3>2 DEF ValuesFit
      <3> QED
        BY <2>2, <3>1, <3>3, EditFits DEF ValuesFit
    <2> QED
      BY <1>2, <2>3, <2>4, <2>5, <2>6
  <1>3. CASE PanelDies
    BY <1>3 DEF PanelDies, ValuesFit, settingDisk
  <1>4. CASE BootContainer
    <2>1. /\ UNCHANGED <<promised, eggVariable, editor>> /\ containerEnv' = eggVariable
          /\ torn' \subseteq torn
          /\ iniFile' = [s \in Settings |-> IF s \in {r \in Pinned : AppliedAtBoot(r)}
                                            THEN eggVariable[s] ELSE iniFile[s]]
      BY <1>4 DEF BootContainer
    <2>2. \A s \in Pinned : AppliedAtBoot(s) => eggVariable[s] \in LineValues
      BY DEF AppliedAtBoot, ValuesFit, VariableValues
    <2>3. iniFile' \in [Settings -> LineValues]
      BY <2>1, <2>2 DEF ValuesFit
    <2> QED
      BY <2>1, <2>3 DEF ValuesFit
  <1>5. ASSUME NEW s \in Pinned, EditVariable(s) PROVE ValuesFit'
    <2>1. PICK v \in SettingValues \cup {Cleared, Quote} : eggVariable' = [eggVariable EXCEPT ![s] = v]
      BY <1>5 DEF EditVariable
    <2>2. /\ UNCHANGED <<iniFile, containerEnv, torn>> /\ promised' = [promised EXCEPT ![s] = Unset]
          /\ editor' = [e \in Editors |-> IF editor[e] # NoEdit /\ editor[e].setting = s
                                          THEN [editor[e] EXCEPT !.alone = FALSE] ELSE editor[e]]
      BY <1>5 DEF EditVariable
    <2>3. eggVariable' \in [Pinned -> VariableValues] /\ promised' \in [Settings -> LineValues]
      BY <1>0, <2>1, <2>2 DEF ValuesFit, LineValues, VariableValues
    <2>4. ASSUME NEW d \in Editors, editor'[d] # NoEdit
          PROVE  /\ editor'[d].value \in VariableValues
                 /\ editor'[d].text \in [Settings -> LineValues]
                 /\ editor'[d].at \in {"open", "write"} => editor'[d].value # Quote
      <3>1. \/ editor'[d] = editor[d]
            \/ editor[d] # NoEdit /\ editor'[d] = [editor[d] EXCEPT !.alone = FALSE]
        BY <2>2
      <3>2. editor[d] # NoEdit /\ editor[d] \in Edits
        BY <1>0, <2>4, <3>1
      <3>3. /\ editor'[d].value = editor[d].value /\ editor'[d].text = editor[d].text
            /\ editor'[d].at = editor[d].at
        BY <3>1, <3>2 DEF Edits
      <3> QED
        BY <3>2, <3>3 DEF ValuesFit
    <2> QED
      BY <2>2, <2>3, <2>4 DEF ValuesFit
  <1>6. CASE UNCHANGED settingVars
    BY <1>6 DEF settingVars, settingDisk, ValuesFit
  <1> QED
    BY <1>1, <1>2, <1>3, <1>4, <1>5, <1>6 DEF SettingNext

\* The types of the settings (PanelSettings): a double quote never reaches the file.
LEMMA SettingsTyped == SettingSpec => []SettingTypeOK
  <1>1. SettingInit => ValuesFit
    BY DEF SettingInit, ValuesFit, Blank, LineValues, VariableValues
  <1>2. SettingInv /\ ValuesFit => SettingTypeOK
    BY DEF SettingInv, RewritesAlone, ValuesFit, SettingTypeOK, LineValues, VariableValues
  <1> QED
    BY <1>1, <1>2, ValuesKept, SettingInvariant, PTL DEF SettingSpec

-----------------------------------------------------------------------------
(* The certificate                                                         *)

\* Keys and orders are numbered as they are made; a chain is of a key that was made.
ChainOK(c) == c.key \in 0..keys /\ c.order \in 0..orders
NumbersFit ==
  /\ keys \in Nat /\ orders \in 0..MaxOrders /\ keyFile \in {TornKey, NoKey} \cup 1..keys
  /\ ChainOK(certFile) /\ ChainOK(context[1])
  /\ records \subseteq 1..orders /\ orphans \subseteq 1..orders
  /\ ageing \in BOOLEAN /\ watching \in BOOLEAN
  /\ order # NoOrder => order.id \in 1..orders
  /\ order.at \in {"withdraw", "write"} => ChainOK(order.chain)

\* Every step of the certificate keeps it.
LEMMA NumbersKept == ASSUME CertInv, NumbersFit, [CertNext]_certVars PROVE NumbersFit'
  <1> USE DEF NumbersFit, ChainOK
  <1>0. /\ NoOrder.at = "none" /\ NoCert.key = 0 /\ NoCert.order = 0 /\ NoContext[1] = NoCert
        /\ MaxOrders \in Nat /\ TornKey = -1 /\ NoKey = 0
    BY CertAssumption DEF NoOrder, NoCert, NoContext, CertAssumption, TornKey, NoKey
  <1>1. CASE BeginRenewal
    BY <1>0, <1>1 DEF BeginRenewal, certFiles, panelTls, certBounds
  <1>2. CASE GenerateKey
    BY <1>0, <1>2 DEF GenerateKey, OrderAt, OrderTo, panelTls, CertInv, OrderOK
  <1>3. CASE FillKey
    BY <1>0, <1>3 DEF FillKey, OrderAt, OrderTo, panelTls, CertInv, OrderOK, KeysOK
  <1>4. CASE UseKey \/ CreateOrder \/ AwaitVisible \/ AwaitValidation
    BY <1>0, <1>4 DEF UseKey, CreateOrder, AwaitVisible, AwaitValidation, OrderAt, OrderTo, certFiles,
                      panelTls, CertInv, OrderOK
  <1>5. CASE PublishRecord
    BY <1>0, <1>5 DEF PublishRecord, OrderAt, OrderTo, certFiles, panelTls, CertInv, OrderOK
  <1>6. CASE Finalize
    BY <1>0, <1>6 DEF Finalize, OrderAt, OrderTo, certFiles, panelTls, CertInv, OrderOK, KeysOK
  <1>7. CASE Withdraw
    BY <1>0, <1>7 DEF Withdraw, OrderAt, OrderTo, certFiles, panelTls, CertInv, OrderOK
  <1>8. CASE WriteCert \/ EndRenewal
    BY <1>0, <1>8 DEF WriteCert, EndRenewal, OrderAt, OrderTo, certFiles, panelTls, CertInv, OrderOK
  <1>9. CASE StartPanel \/ Reload \/ CertAges \/ ContainerRestarts
    <2>1. context' \in {context, NoContext, <<certFile, keyFile>>} /\ watching' \in BOOLEAN
      BY <1>9 DEF StartPanel, Reload, CertAges, ContainerRestarts, panelTls, Fits
    <2>2. context'[1] \in {context[1], NoCert, certFile}
      BY <1>0, <2>1
    <2>3. /\ UNCHANGED <<certFile, keyFile, keys, orders, records>> /\ ageing' \in BOOLEAN
          /\ orphans' \subseteq orphans \cup records /\ order' \in {order, NoOrder}
      BY <1>9 DEF StartPanel, Reload, CertAges, ContainerRestarts, certFiles
    <2> QED
      BY <1>0, <2>1, <2>2, <2>3
  <1>10. CASE UNCHANGED certVars
    BY <1>10 DEF certVars, certFiles, panelTls
  <1> QED
    BY <1>1, <1>2, <1>3, <1>4, <1>5, <1>6, <1>7, <1>8, <1>9, <1>10 DEF CertNext

\* The types of the certificate (Certificates).
LEMMA CertificateTyped == CertSpec => []CertTypeOK
  <1>1. CertInit => NumbersFit
    <2>1. /\ NoOrder.at = "none" /\ NoCert.key = 0 /\ NoCert.order = 0 /\ NoContext[1] = NoCert
          /\ MaxOrders \in Nat
      BY CertAssumption DEF NoOrder, NoCert, NoContext, CertAssumption
    <2> SUFFICES ASSUME CertInit PROVE NumbersFit
      OBVIOUS
    <2>2. /\ certFile = NoCert /\ keyFile = NoKey /\ keys = 0 /\ orders = 0
          /\ context = NoContext /\ order = NoOrder /\ records = {} /\ orphans = {}
          /\ watching = FALSE /\ ageing = FALSE
      BY DEF CertInit
    <2>3. ChainOK(certFile)
      BY <2>1, <2>2 DEF ChainOK, NoCert
    <2>4. ChainOK(context[1])
      BY <2>1, <2>2, <2>3
    <2>5. /\ keys \in Nat /\ orders \in 0..MaxOrders /\ keyFile \in {TornKey, NoKey} \cup 1..keys
          /\ records \subseteq 1..orders /\ orphans \subseteq 1..orders
      BY <2>1, <2>2
    <2>6. ageing \in BOOLEAN /\ watching \in BOOLEAN
      BY <2>2
    <2>7. order = NoOrder /\ order.at \notin {"withdraw", "write"}
      BY <2>1, <2>2
    <2> QED
      BY <2>3, <2>4, <2>5, <2>6, <2>7 DEF NumbersFit
  <1>2. NumbersFit => CertTypeOK
    BY DEF NumbersFit, ChainOK, CertTypeOK
  <1> QED
    BY <1>1, <1>2, NumbersKept, CertInvariant, PTL DEF CertSpec

-----------------------------------------------------------------------------
(* The world's directories                                                 *)

\* Two sequences of distinct worlds that share none, one after the other.
LEMMA Apart ==
  ASSUME NEW s \in Seq(Nat), NEW t \in Seq(Nat), Distinct(s), Distinct(t),
         ToSet(s) \cap ToSet(t) = {}
  PROVE  s \o t \in Seq(Nat) /\ Distinct(s \o t) /\ ToSet(s \o t) \subseteq ToSet(s) \cup ToSet(t)
  <1> DEFINE u == s \o t
  <1>1. /\ u \in Seq(Nat) /\ Len(u) = Len(s) + Len(t) /\ Len(s) \in Nat /\ Len(t) \in Nat
        /\ DOMAIN s = 1..Len(s) /\ DOMAIN t = 1..Len(t) /\ DOMAIN u = 1..Len(u)
    BY LenProperties, ConcatProperties
  <1>2. \A k \in 1..(Len(s) + Len(t)) : u[k] = IF k <= Len(s) THEN s[k] ELSE t[k - Len(s)]
    BY ConcatProperties
  <1> HIDE DEF u
  <1>3. ASSUME NEW k \in DOMAIN u
        PROVE  \/ k \in DOMAIN s /\ u[k] = s[k] /\ u[k] \in ToSet(s)
               \/ k \notin DOMAIN s /\ k - Len(s) \in DOMAIN t /\ u[k] = t[k - Len(s)]
                    /\ u[k] \in ToSet(t)
    <2>1. CASE k <= Len(s)
      <3>1. k \in DOMAIN s /\ u[k] = s[k]
        BY <1>1, <1>2, <2>1
      <3> QED
        BY <3>1 DEF ToSet
    <2>2. CASE ~(k <= Len(s))
      <3>1. k \notin DOMAIN s /\ k - Len(s) \in DOMAIN t /\ u[k] = t[k - Len(s)]
        BY <1>1, <1>2, <2>2
      <3> QED
        BY <3>1 DEF ToSet
    <2> QED
      BY <2>1, <2>2
  <1>4. Distinct(u)
    <2> SUFFICES ASSUME NEW i \in DOMAIN u, NEW j \in DOMAIN u, u[i] = u[j] PROVE i = j
      BY DEF Distinct
    <2>1. i \in Int /\ j \in Int /\ Len(s) \in Int
      BY <1>1
    <2>2. CASE i \in DOMAIN s /\ j \in DOMAIN s
      BY <1>3, <2>2 DEF Distinct
    <2>3. CASE i \notin DOMAIN s /\ j \notin DOMAIN s
      <3>1. i - Len(s) = j - Len(s)
        BY <1>3, <2>3 DEF Distinct
      <3> QED
        BY <2>1, <3>1
    <2> QED
      BY <1>3, <2>2, <2>3
  <1>5. ToSet(u) \subseteq ToSet(s) \cup ToSet(t)
    BY <1>3 DEF ToSet
  <1> QED
    BY <1>1, <1>4, <1>5 DEF u

\* What names a world names one that was made.
WorldsFit ==
  /\ worlds \in 1..MaxWorlds /\ resetMarker \in BOOLEAN /\ backupOk \in BOOLEAN
  /\ rollbackMarker \in 0..worlds /\ schema \subseteq 1..worlds
  /\ boot \in {"up", "dead", "hook", "swap", "park", "touch", "prune", "clear", "parkReset",
               "pruneReset", "clearReset", "prestart"}

\* Every step keeps it.
LEMMA WorldsStay == ASSUME ResetInv, WorldsFit, [ResetNext]_resetVars PROVE WorldsFit'
  <1> USE DEF WorldsFit, dirs, marks, bounds, resetLog, BootAt, BootTo, ArmOp, OnlyMarks, FailedMove,
              Smoothly
  <1>0. /\ MaxWorlds \in Nat /\ worlds \in Nat /\ NoWorld = 0 /\ pg \in 0..worlds
        /\ \A i \in DOMAIN preserved : preserved[i] \in 1..worlds
    BY ResetAssumption DEF ResetAssumption, ResetInv, PlacesOK, NoWorld, ToSet
  <1>1. CASE PlayWorld \/ Shutdown \/ PowerCut
    BY <1>0, <1>1 DEF PlayWorld, Shutdown, PowerCut
  <1>2. CASE ArmReset \/ ArmRollback \/ CancelReset \/ BackupGoes
    <2>1. /\ rollbackMarker' \in {rollbackMarker, NoWorld} \cup ToSet(preserved)
          /\ resetMarker' \in BOOLEAN /\ backupOk' \in BOOLEAN
      BY <1>2 DEF ArmReset, ArmRollback, CancelReset, BackupGoes, ToSet
    <2>2. UNCHANGED <<worlds, schema, boot>>
      BY <1>2 DEF ArmReset, ArmRollback, CancelReset, BackupGoes
    <2>3. ToSet(preserved) \subseteq 0..worlds /\ NoWorld \in 0..worlds
      BY <1>0 DEF ToSet
    <2> QED
      BY <2>1, <2>2, <2>3
  <1>3. CASE RollbackRefused \/ RollbackAside \/ RollbackPark \/ RollbackTouch \/ RollbackClear
    <2>1. UNCHANGED <<worlds, schema, resetMarker, backupOk>>
      BY <1>3 DEF RollbackRefused, RollbackAside, RollbackPark, RollbackTouch, RollbackClear
    <2>2. rollbackMarker' \in {rollbackMarker, NoWorld}
      BY <1>3 DEF RollbackRefused, RollbackAside, RollbackPark, RollbackTouch, RollbackClear,
                  ClearRollback
    <2>3. boot' \in {"prestart", "swap", "touch", "prune", "clearReset"}
      BY <1>3 DEF RollbackRefused, RollbackAside, RollbackPark, RollbackTouch, RollbackClear
    <2> QED
      BY <1>0, <2>1, <2>2, <2>3
  <1>4. CASE RollbackInPlace
    BY <1>0, <1>4 DEF RollbackInPlace, ClearRollback
  <1>5. CASE PruneWorlds
    BY <1>0, <1>5 DEF PruneWorlds
  <1>6. CASE NoMarker \/ ResetRefused \/ ResetAside \/ ResetPark \/ ClearReset
    BY <1>0, <1>6 DEF NoMarker, ResetRefused, ResetAside, ResetPark, ClearReset, ResetDue,
                      ClearResetMarker
  <1>7. CASE InitDb
    <2>1. /\ worlds < MaxWorlds /\ worlds' = worlds + 1
          /\ UNCHANGED <<resetMarker, backupOk, rollbackMarker, schema, boot>>
      BY <1>7 DEF InitDb
    <2>2. worlds' \in 1..MaxWorlds /\ 0..worlds \subseteq 0..worlds' /\ 1..worlds \subseteq 1..worlds'
      BY <1>0, <2>1
    <2> QED
      BY <2>1, <2>2
  <1>8. CASE LoadSchema
    <2>1. pg \in 1..worlds
      BY <1>0, <1>8 DEF LoadSchema
    <2> QED
      BY <1>8, <2>1 DEF LoadSchema
  <1>9. CASE StartWorld
    BY <1>9 DEF StartWorld
  <1>10. CASE UNCHANGED resetVars
    BY <1>10 DEF resetVars
  <1> QED
    BY <1>1, <1>2, <1>3, <1>4, <1>5, <1>6, <1>7, <1>8, <1>9, <1>10 DEF ResetNext

\* The types of the world's directories (WorldReset): a world is in one place.
LEMMA WorldsTyped == ResetSpec => []ResetTypeOK
  <1>1. ResetInit => WorldsFit
    <2> SUFFICES ASSUME ResetInit PROVE WorldsFit
      OBVIOUS
    <2>1. /\ worlds = 1 /\ schema = {1} /\ resetMarker = FALSE /\ backupOk = FALSE
          /\ rollbackMarker = 0 /\ boot = "up"
      BY DEF ResetInit, NoWorld
    <2>2. worlds \in 1..MaxWorlds /\ rollbackMarker \in 0..worlds /\ schema \subseteq 1..worlds
      BY <2>1, ResetAssumption DEF ResetAssumption
    <2> QED
      BY <2>1, <2>2 DEF WorldsFit
  <1>2. ResetInv /\ WorldsFit => ResetTypeOK
    <2> SUFFICES ASSUME ResetInv, WorldsFit PROVE ResetTypeOK
      OBVIOUS
    <2>1. /\ preserved \in Seq(Nat) /\ parked \in Seq(Nat) /\ Distinct(preserved) /\ Distinct(parked)
          /\ ToSet(preserved) \cap ToSet(parked) = {}
          /\ pg \notin ToSet(preserved) \cup ToSet(parked) /\ pg \in 0..worlds /\ worlds \in Nat
          /\ sentinel \in BOOLEAN
      BY DEF ResetInv, PlacesOK
    <2> DEFINE kept == preserved \o parked
    <2>2. /\ kept \in Seq(Nat) /\ Distinct(kept)
          /\ ToSet(kept) \subseteq ToSet(preserved) \cup ToSet(parked)
      BY <2>1, Apart
    <2> HIDE DEF kept
    <2>3. <<pg>> \in Seq(Nat) /\ Distinct(<<pg>>) /\ ToSet(<<pg>>) = {pg}
      <3>1. pg \in Nat
        BY <2>1
      <3> QED
        BY <3>1 DEF Distinct, ToSet
    <2>4. ToSet(kept) \cap ToSet(<<pg>>) = {}
      BY <2>1, <2>2, <2>3
    <2>5. Distinct(kept \o <<pg>>)
      BY <2>2, <2>3, <2>4, Apart
    <2> QED
      BY <2>1, <2>5 DEF kept, WorldsFit, ResetTypeOK, Distinct
  <1> QED
    BY <1>1, <1>2, WorldsStay, ResetInvariant, PTL DEF ResetSpec

-----------------------------------------------------------------------------
(* The sessions                                                            *)

\* A slot is free or held by one connection, a token that is revoked was issued, and a
\* proxy has no bucket: what comes through it is charged to the client.
SlotsFit ==
  /\ freeSlots \in Int /\ IsFiniteSet(InFlight)
  /\ freeSlots + Cardinality(InFlight) = MaxConnections
  /\ revoked \subseteq DOMAIN sessions /\ revokedFile \subseteq DOMAIN sessions
  /\ \A p \in Proxies : attempts[p] = <<>>

\* Every step of the front door keeps it.
LEMMA SlotsKept == ASSUME FrontInv, SlotsFit, [SessNext]_sessVars PROVE SlotsFit'
  <1> DEFINE Held == {k \in Connections : conn'[k] # NoConn}
             Issued == /\ DOMAIN sessions \subseteq DOMAIN sessions'
                       /\ revoked' \subseteq DOMAIN sessions'
                       /\ revokedFile' \subseteq DOMAIN sessions'
             Charged == \A p \in Proxies : attempts'[p] = <<>>
             Counted == /\ freeSlots' \in Int /\ IsFiniteSet(Held)
                        /\ freeSlots' + Cardinality(Held) = MaxConnections
  <1>0. /\ conn \in [Connections -> Threads] /\ \A k \in Connections : Proper(conn[k])
        /\ attempts \in [Clients \cup Proxies -> Seq(Nat)] /\ sessions \in Seq(Nat)
        /\ NoConn.at = "none" /\ Clients \cap Proxies = {} /\ MaxConnections \in Nat
        /\ Cardinality(InFlight) \in Nat
    BY SessAssumption, FS_CardinalityType
    DEF FrontInv, FrontOK, NoConn, SessAssumption, SlotsFit
  <1>1. ASSUME Issued, Charged, Counted PROVE SlotsFit'
    BY <1>1 DEF SlotsFit, InFlight
  <1>2. ASSUME NEW k \in Connections, NEW t, conn' = [conn EXCEPT ![k] = t], t # NoConn,
               conn[k] # NoConn, UNCHANGED freeSlots
        PROVE  Counted
    <2>1. Held = InFlight
      BY <1>0, <1>2 DEF InFlight
    <2> QED
      BY <1>2, <2>1 DEF SlotsFit
  <1>3. ASSUME NEW k \in Connections, NEW c \in Clients, Connect(k, c) PROVE SlotsFit'
    <2>1. Issued /\ Charged
      BY <1>3 DEF Connect, SlotsFit
    <2>2. CASE UNCHANGED <<conn, freeSlots>>
      BY <1>1, <2>1, <2>2 DEF SlotsFit, InFlight
    <2>3. CASE \E p \in {c} \cup Proxies :
                 conn' = [conn EXCEPT ![k] = [at |-> "read", who |-> c, peer |-> p]]
               /\ freeSlots' = freeSlots - 1
      <3>1. PICK p : conn' = [conn EXCEPT ![k] = [at |-> "read", who |-> c, peer |-> p]]
        BY <2>3
      <3>2. Held = InFlight \cup {k} /\ k \notin InFlight
        BY <1>0, <1>3, <3>1 DEF InFlight, Connect
      <3>3. IsFiniteSet(Held) /\ Cardinality(Held) = Cardinality(InFlight) + 1
        BY <3>2, FS_AddElement DEF SlotsFit
      <3> HIDE DEF Held
      <3>4. Counted
        BY <1>0, <2>3, <3>3 DEF SlotsFit
      <3> QED
        BY <1>1, <2>1, <3>4
    <2> QED
      BY <1>3, <2>2, <2>3 DEF Connect
  <1>4. ASSUME NEW k \in Connections, EndRequest(k) PROVE SlotsFit'
    <2>1. Issued /\ Charged
      BY <1>4 DEF EndRequest, SlotsFit
    <2>2. Held = InFlight \ {k} /\ k \in InFlight
      BY <1>0, <1>4 DEF InFlight, EndRequest, Hangup
    <2>3. IsFiniteSet(Held) /\ Cardinality(Held) = Cardinality(InFlight) - 1
      BY <2>2, FS_RemoveElement DEF SlotsFit
    <2> HIDE DEF Held
    <2>4. Counted
      BY <1>0, <1>4, <2>3 DEF SlotsFit, EndRequest, Hangup
    <2> QED
      BY <1>1, <2>1, <2>4
  <1>5. ASSUME NEW k \in Connections, ReadRequest(k) PROVE SlotsFit'
    <2>1. Issued /\ Charged
      BY <1>5 DEF ReadRequest, SlotsFit
    <2>2. conn[k] # NoConn /\ UNCHANGED freeSlots
      BY <1>0, <1>5 DEF ReadRequest
    <2>3. PICK t : conn' = [conn EXCEPT ![k] = t] /\ t.at \in {"login", "call", "logout", "done"}
      <3>1. ASSUME NEW right, NEW hops,
                   conn' = [conn EXCEPT ![k] = [at |-> "login", who |-> @.who, right |-> right,
                                                from |-> ResolveClient(@.peer, hops)]]
            PROVE  \E t : conn' = [conn EXCEPT ![k] = t] /\ t.at \in {"login", "call", "logout", "done"}
        <4> DEFINE t == [at |-> "login", who |-> conn[k].who, right |-> right,
                         from |-> ResolveClient(conn[k].peer, hops)]
        <4>1. conn' = [conn EXCEPT ![k] = t] /\ t.at = "login"
          BY <1>0, <3>1
        <4> QED
          BY <4>1
      <3>2. ASSUME NEW j, NEW route \in {"call", "logout"},
                   conn' = [conn EXCEPT ![k] = [at |-> route, jti |-> j, late |-> j \in loggedOut]]
            PROVE  \E t : conn' = [conn EXCEPT ![k] = t] /\ t.at \in {"login", "call", "logout", "done"}
        <4> DEFINE t == [at |-> route, jti |-> j, late |-> j \in loggedOut]
        <4>1. conn' = [conn EXCEPT ![k] = t] /\ t.at = route
          BY <3>2
        <4> QED
          BY <4>1
      <3>3. ASSUME conn' = [conn EXCEPT ![k] = [at |-> "done"]]
            PROVE  \E t : conn' = [conn EXCEPT ![k] = t] /\ t.at \in {"login", "call", "logout", "done"}
        <4>1. [at |-> "done"].at = "done"
          OBVIOUS
        <4> QED
          BY <3>3, <4>1
      <3> QED
        BY <1>5, <3>1, <3>2, <3>3 DEF ReadRequest
    <2>4. t # NoConn
      BY <1>0, <2>3
    <2> QED
      BY <1>1, <1>2, <2>1, <2>2, <2>3, <2>4
  <1>6. ASSUME NEW k \in Connections,
               \/ LoginGate(k) \/ CheckPassword(k) \/ IssueToken(k) \/ Serve(k) \/ Logout(k)
               \/ RevokeToken(k)
        PROVE  SlotsFit'
    <2>1. Counted
      <3>1. conn[k] # NoConn /\ UNCHANGED freeSlots
        BY <1>0, <1>6 DEF LoginGate, CheckPassword, IssueToken, Serve, Logout, RevokeToken
      <3>2. \/ conn' = [conn EXCEPT ![k] = [at |-> "done"]]
            \/ conn' = [conn EXCEPT ![k] = [at |-> "issue"]]
            \/ conn' = [conn EXCEPT ![k] = [conn[k] EXCEPT !.at = "check"]]
               /\ conn[k].at = "login"
            \/ conn' = [conn EXCEPT ![k] = [conn[k] EXCEPT !.at = "revoke"]]
               /\ conn[k].at = "logout"
        BY <1>0, <1>6 DEF LoginGate, CheckPassword, IssueToken, Serve, Logout, RevokeToken
      <3>3. /\ [at |-> "done"] # NoConn /\ [at |-> "issue"] # NoConn
            /\ conn[k].at = "login" => [conn[k] EXCEPT !.at = "check"] # NoConn
            /\ conn[k].at = "logout" => [conn[k] EXCEPT !.at = "revoke"] # NoConn
        <4>1. [at |-> "done"].at # "none" /\ [at |-> "issue"].at # "none"
          OBVIOUS
        <4>2. conn[k] \in Threads
          BY <1>0
        <4>3. /\ conn[k].at = "login" => [conn[k] EXCEPT !.at = "check"].at = "check"
              /\ conn[k].at = "logout" => [conn[k] EXCEPT !.at = "revoke"].at = "revoke"
          BY <4>2 DEF Threads, NoConn
        <4> QED
          BY <1>0, <4>1, <4>3
      <3> HIDE DEF Counted
      <3> QED
        BY <1>2, <3>1, <3>2, <3>3
    <2>2. Issued
      <3>1. CASE IssueToken(k)
        <4>1. sessions' = Append(sessions, sessClock + SessionTTL) /\ UNCHANGED <<revoked, revokedFile>>
          BY <3>1 DEF IssueToken
        <4>2. DOMAIN sessions \subseteq DOMAIN sessions'
          BY <1>0, <4>1, AppendProperties
        <4> QED
          BY <4>1, <4>2 DEF SlotsFit
      <3>2. CASE RevokeToken(k)
        <4>1. conn[k].jti \in DOMAIN sessions
          BY <1>0, <3>2 DEF RevokeToken, Proper
        <4> QED
          BY <3>2, <4>1 DEF RevokeToken, SlotsFit
      <3>3. CASE LoginGate(k) \/ CheckPassword(k) \/ Serve(k) \/ Logout(k)
        BY <3>3 DEF LoginGate, CheckPassword, Serve, Logout, SlotsFit
      <3> QED
        BY <1>6, <3>1, <3>2, <3>3
    <2>3. Charged
      <3>1. CASE LoginGate(k)
        <4>1. conn[k].from \in Clients
          BY <1>0, <3>1 DEF LoginGate, Proper, Threads, NoConn
        <4>2. Swept \in [Clients \cup Proxies -> Seq(Nat)] /\ \A p \in Proxies : Swept[p] = <<>>
          BY <1>0, SweptFunction DEF FrontInv, Swept, SlotsFit
        <4>3. PICK b : attempts' = [Swept EXCEPT ![conn[k].from] = b]
          BY <3>1 DEF LoginGate
        <4> QED
          BY <1>0, <4>1, <4>2, <4>3
      <3>2. CASE CheckPassword(k)
        <4>0. conn[k].at = "check" /\ conn[k] \in Threads /\ Proper(conn[k])
          BY <1>0, <3>2 DEF CheckPassword
        <4>1. conn[k].from \in Clients
          BY <4>0 DEF Proper, Threads, NoConn
        <4> QED
          BY <1>0, <3>2, <4>1 DEF CheckPassword, SlotsFit
      <3>3. CASE IssueToken(k) \/ Serve(k) \/ Logout(k) \/ RevokeToken(k)
        BY <3>3 DEF IssueToken, Serve, Logout, RevokeToken, SlotsFit
      <3> QED
        BY <1>6, <3>1, <3>2, <3>3
    <2> QED
      BY <1>1, <2>1, <2>2, <2>3
  <1>7. CASE RestartPanel
    <2>1. Held = {} /\ freeSlots' = MaxConnections
      BY <1>7 DEF RestartPanel
    <2> HIDE DEF Held
    <2>2. IsFiniteSet(Held) /\ Cardinality(Held) = 0
      BY <2>1, FS_EmptySet
    <2>3. Counted
      BY <1>0, <2>1, <2>2
    <2>4. Issued /\ Charged
      BY <1>7 DEF RestartPanel, SlotsFit
    <2> QED
      BY <1>1, <2>3, <2>4
  <1>8. CASE SessTick \/ UNCHANGED sessVars
    BY <1>1, <1>8 DEF SessTick, sessVars, SlotsFit, InFlight
  <1> QED
    BY <1>3, <1>4, <1>5, <1>6, <1>7, <1>8 DEF SessNext

\* The types of the front door (PanelSessions): every slot of the listener is free or held
\* by one connection, however many connect, hang up and restart.
LEMMA SessionsTyped == SessSpec => []SessTypeOK
  <1>1. SessInit => SlotsFit
    <2> SUFFICES ASSUME SessInit PROVE SlotsFit
      OBVIOUS
    <2>1. InFlight = {} /\ freeSlots = MaxConnections /\ MaxConnections \in Nat
      BY SessAssumption DEF SessInit, InFlight, SessAssumption
    <2>2. IsFiniteSet(InFlight) /\ freeSlots + Cardinality(InFlight) = MaxConnections
      BY <2>1, FS_EmptySet
    <2> QED
      BY <2>1, <2>2 DEF SessInit, SlotsFit
  <1>2. FrontInv /\ SlotsFit => SessTypeOK
    <2> SUFFICES ASSUME FrontInv, SlotsFit PROVE SessTypeOK
      OBVIOUS
    <2>1. sessClock \in Nat /\ \A j \in DOMAIN sessions : sessions[j] \in Nat
      BY ElementOfSeq, LenProperties DEF FrontInv, FrontOK
    <2>2. \A c \in DOMAIN attempts : Len(attempts[c]) <= LoginMax
      <3>1. Len(<<>>) = 0 /\ LoginMax \in Nat
        BY SessAssumption DEF SessAssumption
      <3> QED
        BY <3>1 DEF FrontInv, FrontOK, BucketsOK, SlotsFit
    <2> QED
      BY <2>1, <2>2 DEF SessTypeOK, SlotsFit
  <1> QED
    BY <1>1, <1>2, SlotsKept, FrontInvariant, PTL DEF SessSpec

-----------------------------------------------------------------------------
(* The composition                                                         *)

\* A step of the composition is a step of each part, or one that leaves it alone.
PartsStep ==
  /\ [Next]_vars /\ [DimNext]_dimVars /\ [SchedNext]_schedVars /\ [EventNext]_eventVars
  /\ [BpNext]_bpVars /\ [WelcomeNext]_welcomeVars /\ [ChatNext]_chatVars
  /\ [MarketNext]_marketVars /\ [SessNext]_sessVars /\ [SettingNext]_settingVars
  /\ [IniNext]_iniVars /\ [CertNext]_certVars /\ [ResetNext]_resetVars

LEMMA PartsMove == ASSUME [PanelNext]_panelVars PROVE PartsStep
  <1>1. CASE InstancesRun
    BY <1>1 DEF InstancesRun, loopVars, loopsRest, PartsStep
  <1>2. CASE DimsRun
    BY <1>2 DEF DimsRun, loopVars, loopsRest, PartsStep
  <1>3. CASE ScheduleRuns
    BY <1>3 DEF ScheduleRuns, loopVars, loopsRest, PartsStep
  <1>4. CASE EventsRun
    BY <1>4 DEF EventsRun, loopVars, loopsRest, PartsStep
  <1>5. CASE PassRuns
    BY <1>5 DEF PassRuns, loopVars, loopsRest, PartsStep
  <1>6. CASE KitsRun
    BY <1>6 DEF KitsRun, loopVars, loopsRest, PartsStep
  <1>7. CASE ChatRuns
    BY <1>7 DEF ChatRuns, loopVars, loopsRest, PartsStep
  <1>8. CASE MarketRuns
    BY <1>8 DEF MarketRuns, loopVars, loopsRest, PartsStep
  <1>9. CASE SessionsRun
    BY <1>9 DEF SessionsRun, loopVars, loopsRest, PartsStep
  <1>10. CASE SettingsRun
    BY <1>10 DEF SettingsRun, loopVars, loopsRest, PartsStep
  <1>11. CASE IniRuns
    BY <1>11 DEF IniRuns, loopVars, loopsRest, PartsStep
  <1>12. CASE CertificateRuns
    BY <1>12 DEF CertificateRuns, loopVars, loopsRest, PartsStep
  <1>13. CASE ResetRuns
    BY <1>13 DEF ResetRuns, loopVars, loopsRest, PartsStep
  <1>14. CASE UNCHANGED panelVars
    BY <1>14 DEF panelVars, loopVars, PartsStep
  <1> QED
    BY <1>1, <1>2, <1>3, <1>4, <1>5, <1>6, <1>7, <1>8, <1>9, <1>10, <1>11, <1>12, <1>13,
       <1>14
    DEF PanelNext

\* A behaviour of the composition (PanelSpec) is a behaviour of every part: of the ledger,
\* the dimensions, the scheduler, what is handed out, the panel and the reset.
THEOREM PartsBehave ==
  PanelSpec =>
    /\ Spec /\ DimSpec /\ SchedSpec /\ EventSpec /\ BpSpec /\ WelcomeSpec /\ ChatSpec
    /\ MarketSpec /\ SessSpec /\ SettingSpec /\ IniSpec /\ CertSpec /\ ResetSpec
  <1>1. PanelSpec => Spec
    <2>1. PanelInit => Init
      BY DEF PanelInit
    <2>2. [PanelNext]_panelVars => [Next]_vars
      BY PartsMove DEF PartsStep
    <2> QED
      BY <2>1, <2>2, PTL DEF PanelSpec, Spec
  <1>2. PanelSpec => DimSpec
    <2>1. PanelInit => DimInit
      BY DEF PanelInit
    <2>2. [PanelNext]_panelVars => [DimNext]_dimVars
      BY PartsMove DEF PartsStep
    <2> QED
      BY <2>1, <2>2, PTL DEF PanelSpec, DimSpec
  <1>3. PanelSpec => SchedSpec
    <2>1. PanelInit => SchedInit
      BY DEF PanelInit
    <2>2. [PanelNext]_panelVars => [SchedNext]_schedVars
      BY PartsMove DEF PartsStep
    <2> QED
      BY <2>1, <2>2, PTL DEF PanelSpec, SchedSpec
  <1>4. PanelSpec => EventSpec
    <2>1. PanelInit => EventInit
      BY DEF PanelInit
    <2>2. [PanelNext]_panelVars => [EventNext]_eventVars
      BY PartsMove DEF PartsStep
    <2> QED
      BY <2>1, <2>2, PTL DEF PanelSpec, EventSpec
  <1>5. PanelSpec => BpSpec
    <2>1. PanelInit => BpInit
      BY DEF PanelInit
    <2>2. [PanelNext]_panelVars => [BpNext]_bpVars
      BY PartsMove DEF PartsStep
    <2> QED
      BY <2>1, <2>2, PTL DEF PanelSpec, BpSpec
  <1>6. PanelSpec => WelcomeSpec
    <2>1. PanelInit => WelcomeInit
      BY DEF PanelInit
    <2>2. [PanelNext]_panelVars => [WelcomeNext]_welcomeVars
      BY PartsMove DEF PartsStep
    <2> QED
      BY <2>1, <2>2, PTL DEF PanelSpec, WelcomeSpec
  <1>7. PanelSpec => ChatSpec
    <2>1. PanelInit => ChatInit
      BY DEF PanelInit
    <2>2. [PanelNext]_panelVars => [ChatNext]_chatVars
      BY PartsMove DEF PartsStep
    <2> QED
      BY <2>1, <2>2, PTL DEF PanelSpec, ChatSpec
  <1>8. PanelSpec => MarketSpec
    <2>1. PanelInit => MarketInit
      BY DEF PanelInit
    <2>2. [PanelNext]_panelVars => [MarketNext]_marketVars
      BY PartsMove DEF PartsStep
    <2> QED
      BY <2>1, <2>2, PTL DEF PanelSpec, MarketSpec
  <1>9. PanelSpec => SessSpec
    <2>1. PanelInit => SessInit
      BY DEF PanelInit
    <2>2. [PanelNext]_panelVars => [SessNext]_sessVars
      BY PartsMove DEF PartsStep
    <2> QED
      BY <2>1, <2>2, PTL DEF PanelSpec, SessSpec
  <1>10. PanelSpec => SettingSpec
    <2>1. PanelInit => SettingInit
      BY DEF PanelInit
    <2>2. [PanelNext]_panelVars => [SettingNext]_settingVars
      BY PartsMove DEF PartsStep
    <2> QED
      BY <2>1, <2>2, PTL DEF PanelSpec, SettingSpec
  <1>11. PanelSpec => IniSpec
    <2>1. PanelInit => IniInit
      BY DEF PanelInit
    <2>2. [PanelNext]_panelVars => [IniNext]_iniVars
      BY PartsMove DEF PartsStep
    <2> QED
      BY <2>1, <2>2, PTL DEF PanelSpec, IniSpec
  <1>12. PanelSpec => CertSpec
    <2>1. PanelInit => CertInit
      BY DEF PanelInit
    <2>2. [PanelNext]_panelVars => [CertNext]_certVars
      BY PartsMove DEF PartsStep
    <2> QED
      BY <2>1, <2>2, PTL DEF PanelSpec, CertSpec
  <1>13. PanelSpec => ResetSpec
    <2>1. PanelInit => ResetInit
      BY DEF PanelInit
    <2>2. [PanelNext]_panelVars => [ResetNext]_resetVars
      BY PartsMove DEF PartsStep
    <2> QED
      BY <2>1, <2>2, PTL DEF PanelSpec, ResetSpec
  <1> QED
    BY <1>1, <1>2, <1>3, <1>4, <1>5, <1>6, <1>7, <1>8, <1>9, <1>10, <1>11, <1>12, <1>13

\* The types of every part of the composition (PanelTypeOK), where a delivery that failed
\* once is tried again, as it is in the code.
THEOREM PanelTyped == ASSUME MaxAttempts > 1 PROVE PanelSpec => []PanelTypeOK
  <1>1. LedgerInv => TypeOK
    BY DEF LedgerInv
  <1>2. PoolInv => DimTypeOK
    BY DEF PoolInv
  <1>3. Spec /\ DimSpec => [](TypeOK /\ DimTypeOK)
    BY <1>1, <1>2, LedgerInvariant, PoolInvariant, PTL
  <1>4. EventSpec => []EventTypeOK
    BY EventTyped
  <1>5. MarketSpec /\ WelcomeSpec /\ ChatSpec /\ BpSpec
          => [](MarketTypeOK /\ WelcomeTypeOK /\ ChatTypeOK /\ BpTypeOK)
    BY MarketTyped, KitsTyped, ChatTyped, PassTyped, PTL
  <1>6. SessSpec /\ SettingSpec /\ IniSpec /\ CertSpec /\ ResetSpec
          => [](SessTypeOK /\ SettingTypeOK /\ IniTypeOK /\ CertTypeOK /\ ResetTypeOK)
    BY SessionsTyped, SettingsTyped, FilesAsAsked, CertificateTyped, WorldsTyped, PTL
  <1>7. TypeOK /\ DimTypeOK /\ SchedTypeOK /\ EventTypeOK
          /\ (MarketTypeOK /\ WelcomeTypeOK /\ ChatTypeOK /\ BpTypeOK)
          /\ (SessTypeOK /\ SettingTypeOK /\ IniTypeOK /\ CertTypeOK /\ ResetTypeOK)
          => PanelTypeOK
    BY DEF PanelTypeOK
  <1> QED
    BY <1>3, <1>4, <1>5, <1>6, <1>7, SchedTyped, PartsBehave, PTL

\* Whichever part runs, what each part promises holds: nothing of the ledger is lost, no
\* restart, task, reward, kit or order is done twice, and what the panel answered stays so.
PartsSafe ==
  /\ Durable /\ FiresSafe /\ RewardsSafe /\ PassSafe /\ KitsSafe /\ ChatSafe /\ MarketSafe
  /\ SessionsSafe /\ AppliedSurvives /\ MergedAsAsked /\ CertSafe /\ WorldsKept

\* The composition keeps what its parts promise and implements both abstract specifications,
\* LedgerRegister and AtMostOnce, where a backup is shorter than the staleness limit.
THEOREM PanelSafe ==
  ASSUME BackupTime < Stale
  PROVE  PanelSpec => []PartsSafe /\ IsRegister /\ ImplementsOnce /\ PoolSafe /\ RestartsTold
  <1>1. Spec /\ SchedSpec => [](Durable /\ FiresSafe)
    BY LedgerDurable, NothingRepeated, PTL
  <1>2. EventSpec /\ BpSpec /\ WelcomeSpec /\ ChatSpec /\ MarketSpec
          => [](RewardsSafe /\ PassSafe /\ KitsSafe /\ ChatSafe /\ MarketSafe)
    BY RewardsAlwaysSafe, PassAlwaysSafe, KitsAlwaysSafe, ChatAlwaysSafe, MarketAlwaysSafe, PTL
  <1>3. SessSpec /\ SettingSpec /\ IniSpec /\ CertSpec /\ ResetSpec
          => [](SessionsSafe /\ AppliedSurvives /\ MergedAsAsked /\ CertSafe /\ WorldsKept)
    BY FrontDoorSafe, AppliedAlways, FilesAsAsked, RenewalSafe, NoWorldLost, PTL
  <1>4. (Durable /\ FiresSafe)
          /\ (RewardsSafe /\ PassSafe /\ KitsSafe /\ ChatSafe /\ MarketSafe)
          /\ (SessionsSafe /\ AppliedSurvives /\ MergedAsAsked /\ CertSafe /\ WorldsKept)
          => PartsSafe
    BY DEF PartsSafe
  <1>5. PanelSpec => []PartsSafe
    BY <1>1, <1>2, <1>3, <1>4, PartsBehave, PTL
  <1>6. SchedSpec => RestartsTold
    BY RestartsAlwaysTold
  <1> QED
    BY <1>5, <1>6, PartsBehave, LedgerImplementsRegister, OnceImplemented, PoolAlwaysSafe, PTL
=============================================================================
