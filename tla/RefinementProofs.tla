--------------------------- MODULE RefinementProofs ---------------------------
(***************************************************************************)
(* Two programs that implement an abstract specification, and what else    *)
(* is proved of them.  The scheduler (Scheduler), whatever fails, crashes  *)
(* or is called beside it, implements AtMostOnce: an intent fires once or  *)
(* not at all; a daily task runs once in its slot; a restart on notice is  *)
(* announced before it fires.  The ledger of mock-k8s (Ledger) implements  *)
(* LedgerRegister, for any callers and bounds: the file is never torn and  *)
(* never goes back.                                                        *)
(***************************************************************************)
EXTENDS Scheduler, Ledger, TLAPS

-----------------------------------------------------------------------------
(* The inductive invariant                                                 *)

\* Where an intent is: stored, read by the tick, or about to be stored.
Stored(i) == pending # Never /\ pending.id = i
Taken(i) == Taking /\ tick.pend.id = i
Coming(i) == command.op = "run" /\ command.pend.id = i

\* What EXCEPT and the arithmetic on a tick, an intent and a counter rest on.
ShapesOK ==
  /\ tick = [at |-> tick.at, pend |-> tick.pend, since |-> tick.since,
             cfg |-> tick.cfg, todo |-> tick.todo]
  /\ armed \in Nat
  /\ fired \in [Intents -> Int]
  /\ pending # Never => pending.id \in 1..armed
  /\ Taking => tick.pend.id \in 1..armed
  /\ command.op = "run" => command.pend.id \in 1..armed

\* An intent is in one place, but while the tick that has read it has not consumed
\* it yet; and a fired one is nowhere.
OnePlace ==
  /\ \A i \in Int : ~(Coming(i) /\ (Stored(i) \/ Taken(i)))
  /\ tick.at \in {"clear", "fire"} => \A i \in Int : ~(Stored(i) /\ Taken(i))
  /\ \A i \in Intents :
       \/ fired[i] = 0
       \/ fired[i] = 1 /\ i <= armed /\ ~Stored(i) /\ ~Taken(i) /\ ~Coming(i)

IntentInv == ShapesOK /\ OnePlace

\* The invariant holds at first.
LEMMA IntentInvInit == ASSUME SchedInit PROVE IntentInv
  BY DEF SchedInit, IntentInv, ShapesOK, OnePlace, Stored, Taken, Coming, Taking, Asleep,
         NoCommand, Intents

\* The steps that concern no intent: none moves, none is fired.
Aside ==
  /\ UNCHANGED <<pending, armed, fired, command>>
  /\ tick' = [at |-> tick'.at, pend |-> tick'.pend, since |-> tick'.since,
              cfg |-> tick'.cfg, todo |-> tick'.todo]
  /\ \/ ~Taking /\ ~Taking'
     \/ tick' = tick

LEMMA AsideSteps ==
  ASSUME IntentInv,
         \/ SlotWarning \/ ClearAnnounced \/ RecordAnnounced \/ BackupStarts \/ BackupEnds
         \/ TickEnds \/ ContainerBoots \/ Passes \/ SetSchedule({"restart"})
         \/ UNCHANGED schedVars
         \/ \E ok \in BOOLEAN : Announce(ok) \/ RecordTask(ok)
         \/ \E t \in Tasks : RunTask(t)
  PROVE  Aside
  <1> USE DEF IntentInv, ShapesOK, Aside, Taking, Step, Asleep, restartLedger, schedHistory
  <1>1. CASE SlotWarning
    BY <1>1 DEF SlotWarning
  <1>2. CASE ClearAnnounced
    BY <1>2 DEF ClearAnnounced
  <1>3. CASE RecordAnnounced
    BY <1>3 DEF RecordAnnounced
  <1>4. CASE BackupStarts
    BY <1>4 DEF BackupStarts
  <1>5. CASE BackupEnds
    BY <1>5 DEF BackupEnds
  <1>6. CASE TickEnds
    BY <1>6 DEF TickEnds
  <1>7. CASE ContainerBoots
    BY <1>7 DEF ContainerBoots
  <1>8. CASE Passes
    BY <1>8 DEF Passes
  <1>9. CASE SetSchedule({"restart"})
    BY <1>9 DEF SetSchedule
  <1>10. CASE UNCHANGED schedVars
    BY <1>10 DEF schedVars, restartLedger, schedHistory
  <1>11. ASSUME NEW ok \in BOOLEAN, Announce(ok) PROVE Aside
    BY <1>11 DEF Announce
  <1>12. ASSUME NEW ok \in BOOLEAN, RecordTask(ok) PROVE Aside
    BY <1>12 DEF RecordTask
  <1>13. ASSUME NEW t \in Tasks, RunTask(t) PROVE Aside
    BY <1>13 DEF RunTask
  <1> QED
    BY <1>1, <1>2, <1>3, <1>4, <1>5, <1>6, <1>7, <1>8, <1>9, <1>10, <1>11, <1>12, <1>13

\* They keep the invariant.
LEMMA AsideKeeps == ASSUME IntentInv, Aside PROVE IntentInv'
  <1> USE DEF IntentInv, ShapesOK, OnePlace, Aside, Taking, Stored, Taken, Coming, Intents
  <1>1. CASE tick' = tick
    BY <1>1
  <1>2. CASE ~Taking /\ ~Taking'
    BY <1>2
  <1> QED
    BY <1>1, <1>2 DEF Aside

-----------------------------------------------------------------------------
(* The steps that move an intent                                           *)

\* The daily slot either arms the next intent or leaves them all alone.
LEMMA SlotEffect ==
  ASSUME IntentInv, SlotCheck
  PROVE  /\ tick.at = "slot" /\ tick'.at \in {"slotwarn", "warn"}
         /\ command' = command /\ fired' = fired
         /\ tick' = [at |-> tick'.at, pend |-> tick'.pend, since |-> tick'.since,
                     cfg |-> tick'.cfg, todo |-> tick'.todo]
         /\ \/ armed' = armed + 1 /\ pending'.id = armed + 1
            \/ armed' = armed /\ pending' = pending
  <1> USE DEF IntentInv, ShapesOK, Taking
  <1>0. tick.at = "slot" /\ command' = command /\ fired' = fired
    BY DEF SlotCheck
  <1>1. CASE tick.pend = Never /\ RestartDue /\ configured
    <2>1. /\ armed' = armed + 1 /\ pending' = [id |-> armed + 1, at |-> tick.since + Lead]
          /\ tick' = [tick EXCEPT !.at = "slotwarn", !.pend = pending']
      BY <1>1 DEF SlotCheck
    <2>2. pending'.id = armed + 1 /\ tick'.at = "slotwarn"
      BY <2>1
    <2> QED
      BY <1>0, <2>1, <2>2
  <1>2. CASE ~(tick.pend = Never /\ RestartDue /\ configured)
    <2>1. armed' = armed /\ pending' = pending /\ tick' = [tick EXCEPT !.at = "warn"]
      BY <1>2 DEF SlotCheck, Step
    <2> QED
      BY <1>0, <2>1
  <1> QED
    BY <1>1, <1>2

\* Each keeps the invariant.
LEMMA IntentKept ==
  ASSUME IntentInv,
         \/ BeginTick \/ ClearPending \/ ClearWarning \/ SlotCheck \/ ContainerCrash
         \/ RunRestartArms \/ CancelRestart
         \/ \E ok \in BOOLEAN : FireRestart(ok) \/ RunRestart(ok) \/ CancelTells(ok)
         \/ \E delay \in Delays : ArmRestart(delay)
         \/ \E window \in Delays : ArmWarning(window)
  PROVE  IntentInv'
  <1>0. Intents \subseteq Int
    BY DEF Intents
  <1> USE <1>0 DEF IntentInv, ShapesOK, OnePlace, Taking, Stored, Taken, Coming, Step, Asleep,
          NoCommand, Command, restartLedger, schedHistory
  <1>1. CASE BeginTick
    BY <1>1 DEF BeginTick, schedHistory
  <1>2. CASE ClearPending
    BY <1>2 DEF ClearPending, schedHistory
  <1>3. CASE ClearWarning
    BY <1>3 DEF ClearWarning, schedHistory
  <1>4. CASE SlotCheck
    BY <1>4, SlotEffect
  <1>5. CASE ContainerCrash
    BY <1>5 DEF ContainerCrash, restartLedger
  <1>6. CASE RunRestartArms
    BY <1>6 DEF RunRestartArms
  <1>7. CASE CancelRestart
    BY <1>7 DEF CancelRestart
  <1>8. ASSUME NEW ok \in BOOLEAN, FireRestart(ok) PROVE IntentInv'
    <2>1. /\ tick.at = "fire" /\ ~Taking' /\ pending' = pending /\ armed' = armed
          /\ command' = command \/ command' = NoCommand
          /\ fired' = [fired EXCEPT ![tick.pend.id] = @ + 1]
      BY <1>8 DEF FireRestart
    <2>2. ShapesOK'
      <3>1. fired' \in [Intents -> Int]
        <4>1. CASE tick.pend.id \in Intents
          BY <2>1, <4>1
        <4>2. CASE tick.pend.id \notin Intents
          BY <2>1, <4>2
        <4> QED
          BY <4>1, <4>2
      <3> QED
        BY <1>8, <2>1, <3>1 DEF FireRestart
    <2>3. \A i \in Intents : i # tick.pend.id => fired'[i] = fired[i]
      BY <2>1
    <2>4. tick.pend.id \in Intents
            => fired'[tick.pend.id] = 1 /\ ~Stored(tick.pend.id) /\ ~Coming(tick.pend.id)
      BY <2>1
    <2> QED
      BY <2>1, <2>2, <2>3, <2>4
  <1>9. ASSUME NEW ok \in BOOLEAN, RunRestart(ok) PROVE IntentInv'
    <2>1. /\ armed' = armed + 1 /\ UNCHANGED <<pending, tick, fired>>
          /\ command' = [op |-> "run", pend |-> [id |-> armed + 1, at |-> now + Lead],
                         told |-> ok]
      BY <1>9 DEF RunRestart
    <2>2. command'.op = "run" /\ command'.pend.id = armed + 1
      BY <2>1
    <2> QED
      BY <2>1, <2>2
  <1>10. ASSUME NEW ok \in BOOLEAN, CancelTells(ok) PROVE IntentInv'
    BY <1>10 DEF CancelTells, schedHistory
  <1>11. ASSUME NEW delay \in Delays, ArmRestart(delay) PROVE IntentInv'
    <2>1. /\ armed' = armed + 1 /\ UNCHANGED <<tick, fired>>
          /\ pending'.id = armed + 1
          /\ command'.op = "arm"
      BY <1>11 DEF ArmRestart
    <2> QED
      BY <2>1
  <1>12. ASSUME NEW window \in Delays, ArmWarning(window) PROVE IntentInv'
    BY <1>12 DEF ArmWarning
  <1> QED
    BY <1>1, <1>2, <1>3, <1>4, <1>5, <1>6, <1>7, <1>8, <1>9, <1>10, <1>11, <1>12

-----------------------------------------------------------------------------
(* The abstract protocol                                                   *)

\* A move of an intent that AtMostOnce allows, or none.
Moved(i) ==
  \/ Stage(i)' = Stage(i)
  \/ Stage(i) = "new" /\ Stage(i)' \in {"armed", "dropped"}
  \/ Stage(i) = "armed" /\ Stage(i)' \in {"taken", "dropped"}
  \/ Stage(i) = "taken" /\ Stage(i)' \in {"armed", "fired", "dropped"}

\* Every step moves each intent as the protocol allows.
LEMMA EachMoves ==
  ASSUME IntentInv, NEW i \in Intents,
         \/ BeginTick \/ ClearPending \/ ClearWarning \/ SlotCheck \/ ContainerCrash
         \/ RunRestartArms \/ CancelRestart
         \/ \E ok \in BOOLEAN : FireRestart(ok) \/ RunRestart(ok) \/ CancelTells(ok)
         \/ \E delay \in Delays : ArmRestart(delay)
         \/ \E window \in Delays : ArmWarning(window)
  PROVE  Moved(i)
  <1>0. i \in Int
    BY DEF Intents
  <1> USE <1>0 DEF IntentInv, ShapesOK, OnePlace, Taking, Stored, Taken, Coming, Step, Asleep,
          NoCommand, Command, restartLedger, schedHistory, Stage, Moved
  <1>1. CASE BeginTick
    BY <1>1 DEF BeginTick
  <1>2. CASE ClearPending
    BY <1>2 DEF ClearPending
  <1>3. CASE ClearWarning
    BY <1>3 DEF ClearWarning
  <1>4. CASE SlotCheck
    BY <1>4, SlotEffect
  <1>5. CASE ContainerCrash
    BY <1>5 DEF ContainerCrash
  <1>6. CASE RunRestartArms
    BY <1>6 DEF RunRestartArms
  <1>7. CASE CancelRestart
    BY <1>7 DEF CancelRestart
  <1>8. ASSUME NEW ok \in BOOLEAN, FireRestart(ok) PROVE Moved(i)
    BY <1>8 DEF FireRestart
  <1>9. ASSUME NEW ok \in BOOLEAN, RunRestart(ok) PROVE Moved(i)
    BY <1>9 DEF RunRestart
  <1>10. ASSUME NEW ok \in BOOLEAN, CancelTells(ok) PROVE Moved(i)
    BY <1>10 DEF CancelTells
  <1>11. ASSUME NEW delay \in Delays, ArmRestart(delay) PROVE Moved(i)
    BY <1>11 DEF ArmRestart
  <1>12. ASSUME NEW window \in Delays, ArmWarning(window) PROVE Moved(i)
    BY <1>12 DEF ArmWarning
  <1> QED
    BY <1>1, <1>2, <1>3, <1>4, <1>5, <1>6, <1>7, <1>8, <1>9, <1>10, <1>11, <1>12

\* So does the protocol: the stages are its own, and one intent is armed at a time.
LEMMA StepOnce ==
  ASSUME IntentInv, [SchedNext]_schedVars
  PROVE  IntentInv' /\ [Once!OnceNext]_([i \in Intents |-> Stage(i)])
  <1> DEFINE st == [i \in Intents |-> Stage(i)]
  <1>1. IntentInv' /\ \A i \in Intents : Moved(i)
    <2>1. CASE Aside
      <3>1. \A i \in Intents : Stage(i)' = Stage(i)
        BY <2>1 DEF Aside, Stage, Taking
      <3> QED
        BY <2>1, <3>1, AsideKeeps DEF Moved
    <2>2. CASE ~Aside
      BY <2>2, AsideSteps, IntentKept, EachMoves DEF SchedNext
    <2> QED
      BY <2>1, <2>2
  <1>2. \A i \in Intents : Stage(i)' \in Once!Stages
    BY DEF Stage, Once!Stages
  <1>3. \A i \in Intents : Stage(i)' # Stage(i) => <<Stage(i), Stage(i)'>> \in Once!Moves
    BY <1>1 DEF Moved, Once!Moves
  <1>4. \A i, j \in Intents : Stage(i)' = "armed" /\ Stage(j)' = "armed" => i = j
    BY DEF Stage
  <1>5. Once!OnceNext
    <2>1. st' \in [Intents -> Once!Stages]
      BY <1>2
    <2>2. \A i \in Intents : st'[i] # st[i] => <<st[i], st'[i]>> \in Once!Moves
      BY <1>3
    <2>3. \A i, j \in Intents : st'[i] = "armed" /\ st'[j] = "armed" => i = j
      BY <1>4
    <2> QED
      BY <2>1, <2>2, <2>3 DEF Once!OnceNext
  <1> QED
    BY <1>1, <1>5

\* Initially no intent was armed.
LEMMA OnceInitially == ASSUME SchedInit PROVE Once!OnceInit
  <1> \A i \in Intents : Stage(i) = "new"
    BY DEF SchedInit, Stage, Taking, Asleep, NoCommand, Intents
  <1> QED
    BY DEF Once!OnceInit

\* The scheduler implements the at-most-once protocol, whoever arms, runs and
\* cancels restarts, and wherever the container dies.
THEOREM OnceImplemented == SchedSpec => ImplementsOnce
  <1>1. SchedInit => IntentInv /\ Once!OnceInit
    BY IntentInvInit, OnceInitially
  <1>2. IntentInv /\ [SchedNext]_schedVars
          => IntentInv' /\ [Once!OnceNext]_([i \in Intents |-> Stage(i)])
    BY StepOnce
  <1> QED
    BY <1>1, <1>2, PTL DEF SchedSpec, ImplementsOnce, Once!OnceSpec

-----------------------------------------------------------------------------
(* What is fired, and what a slot runs                                     *)

\* The daily task has settled in its slot.
Settled == taskSettled["daily"] # Never /\ taskSettled["daily"] >= TaskSlot

\* A run of it is not recorded yet.
Running == tick.at = "run" /\ tick.pend = "daily"

\* A run of the daily task begins in its slot and before it has settled there;
\* each run is recorded, failed, or cut short by a crash.
SlotInv ==
  /\ now \in Int /\ schedFaults \in Nat /\ slotRuns \in Int
  /\ taskSettled \in [Tasks -> {Never} \cup Int]
  /\ tick.at = "run" => tick.pend \in Tasks
  /\ Running => now >= TaskSlot /\ ~Settled
  /\ slotRuns - (IF Settled \/ Running THEN 1 ELSE 0) <= schedFaults

\* The steps that neither run nor record a task: those of the tick before its tasks and
\* around them, a crash, and the panel's commands.
NotTheSlot ==
  /\ UNCHANGED <<taskSettled, slotRuns>>
  /\ now' \in Int /\ schedFaults' \in Nat /\ schedFaults' >= schedFaults
  /\ \/ UNCHANGED <<now, tick>>
     \/ tick'.at # "run" /\ (tick.at # "run" \/ schedFaults' > schedFaults)

LEMMA ElsewhereKeeps == ASSUME SlotInv, NotTheSlot PROVE SlotInv'
  <1> USE SchedAssumption DEF SchedAssumption, SlotInv, NotTheSlot, Settled, Running, Tasks
  <1>1. CASE UNCHANGED <<now, tick>>
    BY <1>1
  <1>2. CASE tick'.at # "run" /\ (tick.at # "run" \/ schedFaults' > schedFaults)
    BY <1>2
  <1> QED
    BY <1>1, <1>2

LEMMA ElsewhereSteps ==
  ASSUME IntentInv, SlotInv,
         \/ BeginTick \/ ClearPending \/ ClearWarning \/ SlotCheck \/ SlotWarning
         \/ ClearAnnounced \/ RecordAnnounced \/ BackupStarts \/ BackupEnds \/ TickEnds
         \/ ContainerCrash \/ ContainerBoots \/ Passes
         \/ RunRestartArms \/ CancelRestart \/ SetSchedule({"restart"})
         \/ UNCHANGED schedVars
         \/ \E ok \in BOOLEAN : FireRestart(ok) \/ Announce(ok) \/ RunRestart(ok)
                               \/ CancelTells(ok)
         \/ \E delay \in Delays : ArmRestart(delay)
         \/ \E window \in Delays : ArmWarning(window)
  PROVE  NotTheSlot
  <1> USE DEF IntentInv, ShapesOK, SlotInv, NotTheSlot, Step, Asleep, Command, Calls, SchedFault,
          restartLedger, taskLedger, schedHistory
  <1>1. CASE BeginTick
    BY <1>1 DEF BeginTick
  <1>2. CASE ClearPending
    BY <1>2 DEF ClearPending
  <1>3. CASE ClearWarning
    BY <1>3 DEF ClearWarning
  <1>4. CASE SlotCheck
    <2>1. UNCHANGED <<taskSettled, slotRuns, now, schedFaults>>
      BY <1>4 DEF SlotCheck
    <2> QED
      BY <1>4, <2>1, SlotEffect
  <1>5. CASE SlotWarning
    BY <1>5 DEF SlotWarning
  <1>6. CASE ClearAnnounced
    BY <1>6 DEF ClearAnnounced
  <1>7. CASE RecordAnnounced
    BY <1>7 DEF RecordAnnounced
  <1>8. CASE BackupStarts
    BY <1>8 DEF BackupStarts
  <1>9. CASE BackupEnds
    BY <1>9 DEF BackupEnds
  <1>10. CASE TickEnds
    BY <1>10 DEF TickEnds
  <1>11. CASE ContainerCrash
    BY <1>11 DEF ContainerCrash
  <1>12. CASE ContainerBoots
    BY <1>12 DEF ContainerBoots
  <1>13. CASE Passes
    BY <1>13 DEF Passes
  <1>14. CASE RunRestartArms
    BY <1>14 DEF RunRestartArms
  <1>15. CASE CancelRestart
    BY <1>15 DEF CancelRestart
  <1>16. CASE SetSchedule({"restart"})
    BY <1>16 DEF SetSchedule
  <1>17. CASE UNCHANGED schedVars
    BY <1>17 DEF schedVars
  <1>18. ASSUME NEW ok \in BOOLEAN, FireRestart(ok) PROVE NotTheSlot
    BY <1>18 DEF FireRestart
  <1>19. ASSUME NEW ok \in BOOLEAN, Announce(ok) PROVE NotTheSlot
    BY <1>19 DEF Announce
  <1>20. ASSUME NEW ok \in BOOLEAN, RunRestart(ok) PROVE NotTheSlot
    BY <1>20 DEF RunRestart
  <1>21. ASSUME NEW ok \in BOOLEAN, CancelTells(ok) PROVE NotTheSlot
    BY <1>21 DEF CancelTells
  <1>22. ASSUME NEW delay \in Delays, ArmRestart(delay) PROVE NotTheSlot
    BY <1>22 DEF ArmRestart
  <1>23. ASSUME NEW window \in Delays, ArmWarning(window) PROVE NotTheSlot
    BY <1>23 DEF ArmWarning
  <1> QED
    BY <1>1, <1>2, <1>3, <1>4, <1>5, <1>6, <1>7, <1>8, <1>9, <1>10, <1>11,
       <1>12, <1>13, <1>14, <1>15, <1>16, <1>17, <1>18, <1>19, <1>20, <1>21,
       <1>22, <1>23

\* Beginning a run of a task keeps it.
LEMMA RunKeeps == ASSUME IntentInv, SlotInv, NEW t \in Tasks, RunTask(t) PROVE SlotInv'
  <1> USE SchedAssumption DEF SchedAssumption, IntentInv, ShapesOK, SlotInv, Settled, Running,
          Tasks
  <1>1. CASE TaskDue(t)
    <2>1. /\ tick' = [tick EXCEPT !.at = "run", !.todo = @ \ {t}, !.pend = t]
          /\ slotRuns' = slotRuns + (IF t = "daily" THEN 1 ELSE 0)
          /\ UNCHANGED <<now, taskSettled, schedFaults>> /\ tick.at = "tasks"
      BY <1>1 DEF RunTask, taskLedger
    <2>2. tick'.at = "run" /\ tick'.pend = t
      BY <2>1
    <2>3. t = "daily" => now >= TaskSlot /\ ~Settled
      BY <1>1 DEF TaskDue
    <2> QED
      BY <2>1, <2>2, <2>3
  <1>2. CASE ~TaskDue(t)
    <2>1. /\ tick' = [tick EXCEPT !.todo = @ \ {t}]
          /\ UNCHANGED <<slotRuns, now, taskSettled, schedFaults>> /\ tick.at = "tasks"
      BY <1>2 DEF RunTask, taskLedger
    <2> QED
      BY <2>1
  <1> QED
    BY <1>1, <1>2

\* So does recording it.
LEMMA RecordKeeps ==
  ASSUME IntentInv, SlotInv, NEW ok \in BOOLEAN, RecordTask(ok) PROVE SlotInv'
  <1> USE SchedAssumption DEF SchedAssumption, IntentInv, ShapesOK, SlotInv, Settled, Running,
          Tasks
  <1>1. /\ tick.at = "run" /\ tick.pend \in Tasks /\ tick'.at = "tasks" /\ now' = now
        /\ taskSettled' = [taskSettled EXCEPT ![tick.pend] = IF ok THEN now ELSE @]
        /\ slotRuns' = slotRuns - (IF tick.pend = "daily" /\ ~ok THEN 1 ELSE 0)
    BY DEF RecordTask, Step
  <1>2. schedFaults' \in Nat /\ schedFaults' >= schedFaults
    BY DEF RecordTask, Calls, SchedFault
  <1>3. CASE tick.pend = "daily" /\ ok
    BY <1>1, <1>2, <1>3
  <1>4. CASE tick.pend = "daily" /\ ~ok
    BY <1>1, <1>2, <1>4
  <1>5. CASE tick.pend # "daily"
    BY <1>1, <1>2, <1>5
  <1> QED
    BY <1>3, <1>4, <1>5

\* At first nothing has run.
LEMMA SlotInvInit == ASSUME SchedInit PROVE SlotInv
  <1>1. now = 0 /\ schedFaults = 0 /\ slotRuns = 0 /\ tick.at = "rest"
    BY DEF SchedInit, Asleep
  <1>2. taskSettled = [t \in Tasks |-> Never]
    BY DEF SchedInit
  <1>3. ~Settled /\ ~Running
    BY <1>1, <1>2 DEF Settled, Running, Tasks
  <1> QED
    BY <1>1, <1>2, <1>3 DEF SlotInv

\* Neither an armed restart nor the daily task is repeated: the first whatever fails,
\* the second but for crashes between a run and its record.
THEOREM NothingRepeated == SchedSpec => []FiresSafe
  <1>1. SchedInit => IntentInv /\ SlotInv
    BY IntentInvInit, SlotInvInit
  <1>2. IntentInv /\ SlotInv /\ [SchedNext]_schedVars => IntentInv' /\ SlotInv'
    <2>1. ASSUME IntentInv, SlotInv, [SchedNext]_schedVars PROVE SlotInv'
      <3>1. NotTheSlot => SlotInv'
        BY <2>1, ElsewhereKeeps
      <3>2. CASE ~NotTheSlot
        BY <2>1, <3>2, ElsewhereSteps, RunKeeps, RecordKeeps DEF SchedNext
      <3> QED
        BY <3>1, <3>2
    <2> QED
      BY <2>1, StepOnce
  <1>3. IntentInv /\ SlotInv => FiresSafe
    BY DEF IntentInv, OnePlace, SlotInv, FiresSafe, FireOnce, DailyOnce, Settled, Running
  <1> QED
    BY <1>1, <1>2, <1>3, PTL DEF SchedSpec

-----------------------------------------------------------------------------
(* What players are told                                                   *)

\* What is stored, read and recorded is of the kind it should be; instants are numbers.
InstantsOK ==
  /\ now \in Int /\ ticked \in BOOLEAN
  /\ warn \in {Never} \cup Int
  /\ tick.since \in Int
  /\ pending # Never => pending = [id |-> pending.id, at |-> pending.at] /\ pending.at \in Int
  /\ Taking => tick.pend = [id |-> tick.pend.id, at |-> tick.pend.at] /\ tick.pend.at \in Int
  /\ command.op \in {"arm", "run"} =>
       command.pend = [id |-> command.pend.id, at |-> command.pend.at] /\ command.pend.at \in Int
  /\ command.op = "run" => command.pend.at >= now
  /\ command.op = "arm" => command.pend.id \in 1..armed
  /\ command.op = "arm" /\ pending # Never /\ pending.id = command.pend.id
       => pending = command.pend
  /\ tick.at = "down" => command = NoCommand
  /\ tick.at \in {"slot", "slotwarn", "due"} => tick.since = now
  /\ tick.at = "dumping" => tick.since <= now /\ now <= tick.since + BackupTime
  /\ tick.at \notin {"rest", "down"} => ticked

\* The announcement leaves the longest backup time before the restart.
Ahead == warn \in Int /\ warn + BackupTime < pending.at

\* The pending restart will be announced before it comes due: the loop looks at its
\* announcement in this tick or, whatever backup comes between, in one before it is due.
OnTime ==
  \/ tick.at = "rest" /\ Ahead
     /\ IF ticked THEN now < warn + BackupTime ELSE now <= warn + BackupTime
  \/ tick.at = "slot" /\ tick.pend = pending /\ Ahead /\ now <= warn + BackupTime
  \/ tick.at = "slotwarn" /\ tick.pend = pending
  \/ tick.at = "warn" /\ tick.pend = pending /\ warn \in Int /\ (now >= warn \/ Ahead)
  \/ tick.at = "backup" /\ Ahead /\ now < warn
  \/ tick.at = "dumping" /\ Ahead /\ tick.since < warn
  \/ tick.at \in {"tasks", "run"} /\ Ahead /\ now < warn + BackupTime

\* The intent on notice is announced, or never fires, or will be announced in time.
NoticeOK ==
  notice # Never =>
    /\ command = NoCommand
    /\ \/ notice \in announced
       \/ ~Taken(notice) /\ (Stored(notice) => OnTime)

\* How late a restart can be while the container stays up: the loop comes back to it
\* after the longest backup and one sleep.
Punctual ==
  /\ shaken \subseteq 1..armed
  /\ pending # Never /\ pending.id \notin shaken =>
       CASE tick.at = "rest" /\ ~ticked -> now <= pending.at + BackupTime + 1
         [] tick.at \in {"tasks", "run"} \/ (tick.at = "rest" /\ ticked)
              -> now <= pending.at + BackupTime
         [] tick.at = "dumping" -> tick.since <= pending.at
         [] tick.at = "due" -> TRUE
         [] tick.at = "down" -> FALSE
         [] OTHER -> now <= pending.at
  /\ tick.at \in {"due", "clear"} /\ tick.pend.id \notin shaken
       => tick.since <= tick.pend.at + BackupTime + 1

ToldInv == InstantsOK /\ NoticeOK /\ Punctual

\* Every step keeps what is stored of its kind.
LEMMA InstantsKept ==
  ASSUME IntentInv, InstantsOK, [SchedNext]_schedVars
  PROVE  InstantsOK'
  <1> USE SchedAssumption DEF SchedAssumption, IntentInv, ShapesOK, InstantsOK, Taking, Step,
          Asleep, NoCommand, Command, Tasks, restartLedger, taskLedger, schedHistory
  <1>1. CASE BeginTick
    BY <1>1 DEF BeginTick
  <1>2. CASE ClearPending
    BY <1>2 DEF ClearPending
  <1>3. CASE ClearWarning
    BY <1>3 DEF ClearWarning
  <1>4. CASE SlotCheck
    <2>1. CASE tick.pend = Never /\ RestartDue /\ configured
      <3>1. /\ armed' = armed + 1 /\ pending' = [id |-> armed + 1, at |-> tick.since + Lead]
            /\ tick' = [tick EXCEPT !.at = "slotwarn", !.pend = pending']
            /\ UNCHANGED <<now, warn, ticked, command, shaken>> /\ tick.at = "slot"
        BY <1>4, <2>1 DEF SlotCheck
      <3> QED
        BY <3>1
    <2>2. CASE ~(tick.pend = Never /\ RestartDue /\ configured)
      <3>1. /\ UNCHANGED <<armed, pending, now, warn, ticked, command, shaken>>
            /\ tick' = [tick EXCEPT !.at = "warn"] /\ tick.at = "slot"
        BY <1>4, <2>2 DEF SlotCheck
      <3> QED
        BY <3>1
    <2> QED
      BY <2>1, <2>2
  <1>5. CASE SlotWarning
    BY <1>5 DEF SlotWarning
  <1>6. CASE ClearAnnounced
    BY <1>6 DEF ClearAnnounced
  <1>7. CASE RecordAnnounced
    BY <1>7 DEF RecordAnnounced
  <1>8. CASE BackupStarts
    BY <1>8 DEF BackupStarts
  <1>9. CASE BackupEnds
    BY <1>9 DEF BackupEnds
  <1>10. CASE TickEnds
    BY <1>10 DEF TickEnds
  <1>11. CASE ContainerCrash
    BY <1>11 DEF ContainerCrash
  <1>12. CASE ContainerBoots
    <2>1. /\ UNCHANGED <<pending, warn, armed, command, now>> /\ tick.at = "down"
          /\ tick'.at = "rest" /\ tick'.since = 0 /\ ticked' \in BOOLEAN
      BY <1>12 DEF ContainerBoots
    <2>2. command = NoCommand
      BY <2>1
    <2> QED
      BY <2>1, <2>2
  <1>13. CASE Passes
    <2>1. /\ UNCHANGED <<pending, warn, armed, shaken, tick, command, notice, announced>>
          /\ now' = now + 1 /\ command = NoCommand /\ ticked' \in BOOLEAN
          /\ ticked' <=> tick.at = "dumping"
          /\ \/ tick.at = "rest" /\ ticked
             \/ tick.at = "down"
             \/ tick.at = "dumping" /\ now - tick.since < BackupTime
      BY <1>13 DEF Passes
    <2>2. CASE tick.at = "rest" /\ ticked
      BY <2>1, <2>2
    <2>3. CASE tick.at = "down"
      BY <2>1, <2>3
    <2>4. CASE tick.at = "dumping" /\ now - tick.since < BackupTime
      BY <2>1, <2>4
    <2> QED
      BY <2>1, <2>2, <2>3, <2>4
  <1>14. CASE RunRestartArms
    BY <1>14 DEF RunRestartArms
  <1>15. CASE CancelRestart
    BY <1>15 DEF CancelRestart
  <1>16. ASSUME NEW ok \in BOOLEAN, FireRestart(ok) PROVE InstantsOK'
    BY <1>16 DEF FireRestart
  <1>17. ASSUME NEW ok \in BOOLEAN, Announce(ok) PROVE InstantsOK'
    BY <1>17 DEF Announce
  <1>18. ASSUME NEW ok \in BOOLEAN, RecordTask(ok) PROVE InstantsOK'
    BY <1>18 DEF RecordTask
  <1>19. ASSUME NEW ok \in BOOLEAN, RunRestart(ok) PROVE InstantsOK'
    BY <1>19 DEF RunRestart
  <1>20. ASSUME NEW ok \in BOOLEAN, CancelTells(ok) PROVE InstantsOK'
    BY <1>20 DEF CancelTells
  <1>21. ASSUME NEW t \in Tasks, RunTask(t) PROVE InstantsOK'
    BY <1>21 DEF RunTask
  <1>22. ASSUME NEW delay \in Delays, ArmRestart(delay) PROVE InstantsOK'
    BY <1>22 DEF ArmRestart
  <1>23. ASSUME NEW window \in Delays, ArmWarning(window) PROVE InstantsOK'
    BY <1>23 DEF ArmWarning
  <1>24. CASE SetSchedule({"restart"})
    BY <1>24 DEF SetSchedule
  <1>25. CASE UNCHANGED schedVars
    BY <1>25 DEF schedVars
  <1> QED
    BY <1>1, <1>2, <1>3, <1>4, <1>5, <1>6, <1>7, <1>8, <1>9, <1>10, <1>11, <1>12, <1>13,
       <1>14, <1>15, <1>16, <1>17, <1>18, <1>19, <1>20, <1>21, <1>22, <1>23, <1>24, <1>25
    DEF SchedNext

\* Every step keeps the promise of an announcement.
LEMMA NoticeKept ==
  ASSUME IntentInv, InstantsOK, NoticeOK, [SchedNext]_schedVars
  PROVE  NoticeOK'
  <1> USE SchedAssumption DEF SchedAssumption, IntentInv, ShapesOK, InstantsOK,
          NoticeOK, OnTime, Ahead, Taken, Stored, Taking, Step, Asleep,
          NoCommand, Command, Tasks, restartLedger, taskLedger, schedHistory
  <1>1. CASE BeginTick
    BY <1>1 DEF BeginTick
  <1>2. CASE ClearPending
    BY <1>2 DEF ClearPending
  <1>3. CASE ClearWarning
    BY <1>3 DEF ClearWarning
  <1>4. CASE SlotCheck
    BY <1>4 DEF SlotCheck
  <1>5. CASE SlotWarning
    BY <1>5 DEF SlotWarning
  <1>6. CASE ClearAnnounced
    BY <1>6 DEF ClearAnnounced
  <1>7. CASE RecordAnnounced
    BY <1>7 DEF RecordAnnounced
  <1>8. CASE BackupStarts
    BY <1>8 DEF BackupStarts
  <1>9. CASE BackupEnds
    BY <1>9 DEF BackupEnds
  <1>10. CASE TickEnds
    BY <1>10 DEF TickEnds
  <1>11. CASE ContainerCrash
    BY <1>11 DEF ContainerCrash
  <1>12. CASE ContainerBoots
    BY <1>12 DEF ContainerBoots
  <1>13. CASE Passes
    <2>1. /\ UNCHANGED <<pending, warn, armed, shaken, tick, command, notice, announced>>
          /\ now' = now + 1 /\ command = NoCommand /\ ticked' \in BOOLEAN
          /\ ticked' <=> tick.at = "dumping"
          /\ \/ tick.at = "rest" /\ ticked
             \/ tick.at = "down"
             \/ tick.at = "dumping" /\ now - tick.since < BackupTime
      BY <1>13 DEF Passes
    <2>2. CASE tick.at = "rest" /\ ticked
      BY <2>1, <2>2
    <2>3. CASE tick.at = "down"
      BY <2>1, <2>3
    <2>4. CASE tick.at = "dumping" /\ now - tick.since < BackupTime
      BY <2>1, <2>4
    <2> QED
      BY <2>1, <2>2, <2>3, <2>4
  <1>14. CASE RunRestartArms
    BY <1>14 DEF RunRestartArms
  <1>15. CASE CancelRestart
    BY <1>15 DEF CancelRestart
  <1>16. ASSUME NEW ok \in BOOLEAN, FireRestart(ok) PROVE NoticeOK'
    BY <1>16 DEF FireRestart
  <1>17. ASSUME NEW ok \in BOOLEAN, Announce(ok) PROVE NoticeOK'
    BY <1>17 DEF Announce
  <1>18. ASSUME NEW ok \in BOOLEAN, RecordTask(ok) PROVE NoticeOK'
    BY <1>18 DEF RecordTask
  <1>19. ASSUME NEW ok \in BOOLEAN, RunRestart(ok) PROVE NoticeOK'
    BY <1>19 DEF RunRestart
  <1>20. ASSUME NEW ok \in BOOLEAN, CancelTells(ok) PROVE NoticeOK'
    BY <1>20 DEF CancelTells
  <1>21. ASSUME NEW t \in Tasks, RunTask(t) PROVE NoticeOK'
    BY <1>21 DEF RunTask
  <1>22. ASSUME NEW delay \in Delays, ArmRestart(delay) PROVE NoticeOK'
    BY <1>22 DEF ArmRestart
  <1>23. ASSUME NEW window \in Delays, ArmWarning(window) PROVE NoticeOK'
    BY <1>23 DEF ArmWarning
  <1>24. CASE SetSchedule({"restart"})
    BY <1>24 DEF SetSchedule
  <1>25. CASE UNCHANGED schedVars
    BY <1>25 DEF schedVars
  <1> QED
    BY <1>1, <1>2, <1>3, <1>4, <1>5, <1>6, <1>7, <1>8, <1>9, <1>10, <1>11, <1>12, <1>13,
       <1>14, <1>15, <1>16, <1>17, <1>18, <1>19, <1>20, <1>21, <1>22, <1>23, <1>24, <1>25
    DEF SchedNext

\* Every step keeps the loop punctual.
LEMMA PunctualKept ==
  ASSUME IntentInv, InstantsOK, Punctual, [SchedNext]_schedVars
  PROVE  Punctual'
  <1> USE SchedAssumption DEF SchedAssumption, IntentInv, ShapesOK, InstantsOK,
          Punctual, Taking, Step, Asleep,
          NoCommand, Command, Tasks, restartLedger, taskLedger, schedHistory
  <1>1. CASE BeginTick
    BY <1>1 DEF BeginTick
  <1>2. CASE ClearPending
    BY <1>2 DEF ClearPending
  <1>3. CASE ClearWarning
    BY <1>3 DEF ClearWarning
  <1>4. CASE SlotCheck
    <2>1. CASE tick.pend = Never /\ RestartDue /\ configured
      <3>1. /\ armed' = armed + 1 /\ pending' = [id |-> armed + 1, at |-> tick.since + Lead]
            /\ tick' = [tick EXCEPT !.at = "slotwarn", !.pend = pending']
            /\ UNCHANGED <<now, warn, ticked, command, shaken>> /\ tick.at = "slot"
        BY <1>4, <2>1 DEF SlotCheck
      <3> QED
        BY <3>1
    <2>2. CASE ~(tick.pend = Never /\ RestartDue /\ configured)
      <3>1. /\ UNCHANGED <<armed, pending, now, warn, ticked, command, shaken>>
            /\ tick' = [tick EXCEPT !.at = "warn"] /\ tick.at = "slot"
        BY <1>4, <2>2 DEF SlotCheck
      <3> QED
        BY <3>1
    <2> QED
      BY <2>1, <2>2
  <1>5. CASE SlotWarning
    BY <1>5 DEF SlotWarning
  <1>6. CASE ClearAnnounced
    BY <1>6 DEF ClearAnnounced
  <1>7. CASE RecordAnnounced
    BY <1>7 DEF RecordAnnounced
  <1>8. CASE BackupStarts
    BY <1>8 DEF BackupStarts
  <1>9. CASE BackupEnds
    BY <1>9 DEF BackupEnds
  <1>10. CASE TickEnds
    BY <1>10 DEF TickEnds
  <1>11. CASE ContainerCrash
    BY <1>11 DEF ContainerCrash
  <1>12. CASE ContainerBoots
    BY <1>12 DEF ContainerBoots
  <1>13. CASE Passes
    <2>1. /\ UNCHANGED <<pending, warn, armed, shaken, tick, command, notice, announced>>
          /\ now' = now + 1 /\ command = NoCommand /\ ticked' \in BOOLEAN
          /\ ticked' <=> tick.at = "dumping"
          /\ \/ tick.at = "rest" /\ ticked
             \/ tick.at = "down"
             \/ tick.at = "dumping" /\ now - tick.since < BackupTime
      BY <1>13 DEF Passes
    <2>2. CASE tick.at = "rest" /\ ticked
      BY <2>1, <2>2
    <2>3. CASE tick.at = "down"
      BY <2>1, <2>3
    <2>4. CASE tick.at = "dumping" /\ now - tick.since < BackupTime
      BY <2>1, <2>4
    <2> QED
      BY <2>1, <2>2, <2>3, <2>4
  <1>14. CASE RunRestartArms
    <2>1. /\ pending' = command.pend /\ command.pend.at >= now /\ command.pend.at \in Int
          /\ UNCHANGED <<armed, tick, ticked, now, shaken>> /\ tick.at # "down"
      BY <1>14 DEF RunRestartArms
    <2> QED
      BY <2>1
  <1>15. CASE CancelRestart
    BY <1>15 DEF CancelRestart
  <1>16. ASSUME NEW ok \in BOOLEAN, FireRestart(ok) PROVE Punctual'
    <2>1. CASE ok
      <3>1. /\ tick'.at = "down" /\ shaken' = 1..armed /\ UNCHANGED <<pending, armed>>
        BY <1>16, <2>1 DEF FireRestart
      <3> QED
        BY <3>1
    <2>2. CASE ~ok
      <3>1. /\ tick'.at = "rest" /\ tick.at = "fire"
            /\ UNCHANGED <<pending, armed, shaken, now, ticked>>
        BY <1>16, <2>2 DEF FireRestart
      <3> QED
        BY <3>1
    <2> QED
      BY <2>1, <2>2
  <1>17. ASSUME NEW ok \in BOOLEAN, Announce(ok) PROVE Punctual'
    BY <1>17 DEF Announce
  <1>18. ASSUME NEW ok \in BOOLEAN, RecordTask(ok) PROVE Punctual'
    BY <1>18 DEF RecordTask
  <1>19. ASSUME NEW ok \in BOOLEAN, RunRestart(ok) PROVE Punctual'
    BY <1>19 DEF RunRestart
  <1>20. ASSUME NEW ok \in BOOLEAN, CancelTells(ok) PROVE Punctual'
    BY <1>20 DEF CancelTells
  <1>21. ASSUME NEW t \in Tasks, RunTask(t) PROVE Punctual'
    <2>1. /\ tick.at = "tasks" /\ tick'.at \in {"tasks", "run"}
          /\ UNCHANGED <<pending, armed, shaken, now, ticked>>
      <3>1. CASE TaskDue(t)
        BY <1>21, <3>1 DEF RunTask
      <3>2. CASE ~TaskDue(t)
        BY <1>21, <3>2 DEF RunTask
      <3> QED
        BY <3>1, <3>2
    <2> QED
      BY <2>1
  <1>22. ASSUME NEW delay \in Delays, ArmRestart(delay) PROVE Punctual'
    <2>1. /\ pending'.at >= now /\ armed' = armed + 1 /\ pending'.at \in Int
          /\ UNCHANGED <<tick, ticked, now, shaken>> /\ tick.at # "down"
      BY <1>22 DEF ArmRestart
    <2> QED
      BY <2>1
  <1>23. ASSUME NEW window \in Delays, ArmWarning(window) PROVE Punctual'
    BY <1>23 DEF ArmWarning
  <1>24. CASE SetSchedule({"restart"})
    BY <1>24 DEF SetSchedule
  <1>25. CASE UNCHANGED schedVars
    BY <1>25 DEF schedVars
  <1> QED
    BY <1>1, <1>2, <1>3, <1>4, <1>5, <1>6, <1>7, <1>8, <1>9, <1>10, <1>11, <1>12, <1>13,
       <1>14, <1>15, <1>16, <1>17, <1>18, <1>19, <1>20, <1>21, <1>22, <1>23, <1>24, <1>25
    DEF SchedNext

\* At first nothing is armed.
LEMMA ToldInvInit == ASSUME SchedInit PROVE ToldInv
  <1>1. /\ now = 0 /\ ticked \in BOOLEAN /\ warn = Never /\ pending = Never /\ notice = Never
        /\ tick.at = "rest" /\ tick.since = 0 /\ command.op = "none" /\ shaken = {}
    BY DEF SchedInit, Asleep, NoCommand
  <1>2. InstantsOK
    BY <1>1 DEF InstantsOK, Taking
  <1>3. NoticeOK /\ Punctual
    BY <1>1 DEF NoticeOK, Punctual
  <1> QED
    BY <1>2, <1>3 DEF ToldInv

\* What fires is announced, if it was on notice; what is discarded is older than a tick of
\* the loop can be.
LEMMA ToldSteps ==
  ASSUME IntentInv, ToldInv, [SchedNext]_schedVars
  PROVE  /\ \A i \in Intents : fired'[i] > fired[i] /\ notice = i => i \in announced
         /\ tick.at = "clear" /\ tick'.at = "rest" /\ tick.pend.id \notin shaken
              => Stale <= BackupTime
  <1> USE DEF IntentInv, ShapesOK, ToldInv
  <1>1. ASSUME NEW i \in Intents, fired'[i] > fired[i], notice = i PROVE i \in announced
    <2>1. PICK ok \in BOOLEAN : FireRestart(ok)
      <3>1. fired' # fired
        <4>1. fired[i] \in Int
          BY <1>1
        <4>2. SUFFICES ASSUME fired' = fired PROVE fired[i] > fired[i]
          BY <4>1
        <4> QED
          BY <1>1, <4>2
      <3>2. ~Aside
        BY <3>1 DEF Aside
      <3>3. \/ BeginTick \/ ClearPending \/ ClearWarning \/ SlotCheck \/ ContainerCrash
            \/ RunRestartArms \/ CancelRestart
            \/ \E ok \in BOOLEAN : FireRestart(ok) \/ RunRestart(ok) \/ CancelTells(ok)
            \/ \E delay \in Delays : ArmRestart(delay)
            \/ \E window \in Delays : ArmWarning(window)
        BY <3>2, AsideSteps DEF SchedNext, IntentInv, ShapesOK
      <3> QED
        BY <3>1, <3>3 DEF schedHistory, BeginTick, ClearPending, ClearWarning, SlotCheck,
           ContainerCrash, RunRestartArms, CancelRestart, RunRestart, CancelTells, ArmRestart,
           ArmWarning
    <2>2. /\ tick.at = "fire" /\ tick.pend.id \in 1..armed
          /\ fired' = [fired EXCEPT ![tick.pend.id] = @ + 1]
      BY <2>1 DEF FireRestart, Taking
    <2>3. tick.pend.id = i
      BY <1>1, <2>2
    <2> QED
      BY <1>1, <2>2, <2>3, SchedAssumption
      DEF SchedAssumption, NoticeOK, Taken, Taking, Intents
  <1>2. ASSUME tick.at = "clear", tick'.at = "rest", tick.pend.id \notin shaken
        PROVE  Stale <= BackupTime
    <2>1. ClearWarning
      BY <1>2 DEF SchedNext, schedVars, BeginTick, ClearPending, SlotCheck, SlotWarning,
         ClearAnnounced, RecordAnnounced, BackupStarts, BackupEnds, TickEnds, ContainerCrash,
         ContainerBoots, Passes, RunRestartArms, CancelRestart, Announce, RecordTask,
         RunRestart, CancelTells, RunTask, ArmRestart, ArmWarning, SetSchedule, FireRestart,
         Asleep, Command
    <2>2. tick.since - tick.pend.at > Stale
      BY <1>2, <2>1 DEF ClearWarning
    <2> QED
      BY <1>2, <2>2, SchedAssumption DEF SchedAssumption, Punctual, InstantsOK, Taking
  <1> QED
    BY <1>1, <1>2

\* Every reachable state has both.
LEMMA ToldAlways == SchedSpec => [](IntentInv /\ ToldInv)
  <1>1. SchedInit => IntentInv /\ ToldInv
    BY IntentInvInit, ToldInvInit
  <1>2. IntentInv /\ ToldInv /\ [SchedNext]_schedVars => IntentInv' /\ ToldInv'
    BY StepOnce, InstantsKept, NoticeKept, PunctualKept DEF ToldInv
  <1> QED
    BY <1>1, <1>2, PTL DEF SchedSpec

\* A restart on notice is announced before it fires, however long backups may run.
THEOREM NoticeAlwaysKept == SchedSpec => FiredAnnounced
  <1>1. IntentInv /\ ToldInv /\ [SchedNext]_schedVars
          => [\A i \in Intents : fired'[i] > fired[i] /\ notice = i
                => i \in announced]_schedVars
    BY ToldSteps
  <1> QED
    BY <1>1, ToldAlways, PTL DEF SchedSpec, FiredAnnounced

\* Where the longest backup is shorter than what makes a restart stale: a restart that was
\* armed with notice and since left alone is announced before it fires, and none is
\* discarded as stale unless the container went down since it was armed, whatever backups
\* and tasks the loop ran meanwhile.
THEOREM RestartsAlwaysTold == ASSUME BackupTime < Stale PROVE SchedSpec => RestartsTold
  <1>1. IntentInv /\ ToldInv /\ [SchedNext]_schedVars
          => [tick.at = "clear" /\ tick'.at = "rest" => tick.pend.id \in shaken]_schedVars
    BY ToldSteps, SchedAssumption DEF SchedAssumption
  <1> QED
    BY <1>1, ToldAlways, NoticeAlwaysKept, PTL DEF SchedSpec, RestartsTold, StaleMeansOutage

-----------------------------------------------------------------------------
(* The ledger                                                              *)

\* The inductive invariant holds at first.
LEMMA LedgerInvInit == ASSUME Init PROVE LedgerInv
  <1> USE LedgerAssumption DEF LedgerAssumption, Init
  <1>1. TypeOK
    <2>1. pc \in [Callers -> {"idle", "snapped"} \cup Saving]
      OBVIOUS
    <2>2. snap \in [Callers -> Nat] /\ snapGen \in [Callers -> Nat]
      OBVIOUS
    <2>3. had \subseteq Nat
      OBVIOUS
    <2> QED
      BY <2>1, <2>2, <2>3 DEF TypeOK
  <1>2. SaverOK
    BY DEF SaverOK, Saving
  <1>3. GensOK
    BY DEF GensOK, Saving
  <1>4. VersionsOK /\ SnapsOK /\ DownOK
    BY DEF VersionsOK, SnapsOK, DownOK
  <1> QED
    BY <1>1, <1>2, <1>3, <1>4 DEF LedgerInv

\* A change of the lists preserves it.
LEMMA ChangeInv == ASSUME LedgerInv, Change PROVE LedgerInv'
  BY LedgerAssumption
  DEF LedgerAssumption, Change, LedgerInv, TypeOK, SaverOK, GensOK, VersionsOK, SnapsOK,
      DownOK, Saving, callVars

\* Taking a snapshot preserves it: its generation is above all others, and its
\* version at least theirs.
LEMMA SnapshotInv ==
  ASSUME LedgerInv, NEW c \in Callers, Snapshot(c) PROVE LedgerInv'
  <1> USE DEF Snapshot, LedgerInv, TypeOK, ledgerVars
  <1>1. TypeOK'
    OBVIOUS
  <1>2. SaverOK'
    BY DEF SaverOK, Saving
  <1>3. GensOK'
    BY DEF GensOK, Saving
  <1>4. VersionsOK' /\ DownOK'
    BY DEF VersionsOK, DownOK
  <1>5. SnapsOK'
    BY DEF SnapsOK, VersionsOK, GensOK
  <1> QED
    BY <1>1, <1>2, <1>3, <1>4, <1>5

\* Taking saveMu, or skipping a stale write, preserves it.
LEMMA LockInv ==
  ASSUME LedgerInv, NEW c \in Callers, Lock(c) PROVE LedgerInv'
  <1> USE LedgerAssumption DEF LedgerAssumption, Lock, LedgerInv, TypeOK, ledgerVars
  <1>1. TypeOK'
    BY DEF Saving
  <1>2. SaverOK'
    BY DEF SaverOK, Saving
  <1>3. GensOK'
    BY DEF GensOK, SaverOK, Saving
  <1>4. VersionsOK' /\ DownOK'
    BY DEF VersionsOK, DownOK
  <1>5. SnapsOK'
    BY DEF SnapsOK
  <1> QED
    BY <1>1, <1>2, <1>3, <1>4, <1>5

\* So does writing the temporary file: whoever writes it holds saveMu.
LEMMA WriteInv ==
  ASSUME LedgerInv, NEW c \in Callers, OpenTmp(c) \/ WriteTmp(c) PROVE LedgerInv'
  <1> USE LedgerAssumption
      DEF LedgerAssumption, OpenTmp, WriteTmp, LedgerInv, TypeOK, ledgerVars
  <1>1. TypeOK'
    <2>1. CASE OpenTmp(c)
      BY <2>1 DEF Saving
    <2>2. CASE WriteTmp(c)
      BY <2>2 DEF Saving
    <2> QED
      BY <2>1, <2>2
  <1>2. SaverOK'
    BY DEF SaverOK, Saving
  <1>3. GensOK'
    BY DEF GensOK, SaverOK, Saving
  <1>4. VersionsOK' /\ DownOK'
    BY DEF VersionsOK, DownOK
  <1>5. SnapsOK'
    BY DEF SnapsOK
  <1> QED
    BY <1>1, <1>2, <1>3, <1>4, <1>5

\* The file becomes the snapshot of the newest generation saved so far.
LEMMA RenameInv ==
  ASSUME LedgerInv, NEW c \in Callers, Rename(c) PROVE LedgerInv'
  <1> USE LedgerAssumption DEF LedgerAssumption, Rename, LedgerInv, TypeOK
  <1>1. TypeOK'
    BY DEF Saving
  <1>2. SaverOK'
    BY DEF SaverOK, Saving
  <1>3. GensOK'
    <2>1. \A d \in Callers : d # c => pc[d] \notin Saving
      BY DEF SaverOK, Saving
    <2>2. snapGen[c] > lastSavedGen /\ snapGen[c] <= gen
      BY DEF GensOK, Saving
    <2> QED
      BY <2>1, <2>2 DEF GensOK, Saving
  <1>4. VersionsOK' /\ DownOK'
    BY DEF VersionsOK, DownOK, SnapsOK, GensOK
  <1>5. SnapsOK'
    <2>1. disk' = snap[c] /\ snapGen[c] # 0 /\ snapGen[c] > lastSavedGen
      BY DEF GensOK, Saving
    <2> QED
      BY <2>1 DEF SnapsOK, GensOK, VersionsOK
  <1> QED
    BY <1>1, <1>2, <1>3, <1>4, <1>5

\* A failed write preserves it: the generation counts for nothing.
LEMMA SaveFailsInv ==
  ASSUME LedgerInv, NEW c \in Callers, SaveFails(c) PROVE LedgerInv'
  <1> USE LedgerAssumption DEF LedgerAssumption, SaveFails, LedgerInv, TypeOK, ledgerVars
  <1>1. TypeOK'
    BY DEF Saving
  <1>2. SaverOK'
    BY DEF SaverOK, Saving
  <1>3. GensOK'
    BY DEF GensOK, SaverOK, Saving
  <1>4. VersionsOK' /\ DownOK'
    BY DEF VersionsOK, DownOK
  <1>5. SnapsOK'
    BY DEF SnapsOK
  <1> QED
    BY <1>1, <1>2, <1>3, <1>4, <1>5

\* Dying and booting preserve it.
LEMMA RestartInv ==
  ASSUME LedgerInv, Die \/ Boot \/ BootUnreadable PROVE LedgerInv'
  <1> USE LedgerAssumption DEF LedgerAssumption, LedgerInv, TypeOK, ledgerVars, callVars
  <1>1. CASE Die
    <2> USE <1>1 DEF Die
    <2>1. TypeOK'
      BY DEF Saving
    <2>2. SaverOK'
      BY DEF SaverOK, Saving
    <2>3. GensOK'
      BY DEF GensOK, Saving
    <2>4. VersionsOK' /\ SnapsOK' /\ DownOK'
      BY DEF VersionsOK, SnapsOK, DownOK
    <2> QED
      BY <2>1, <2>2, <2>3, <2>4
  <1>2. CASE Boot
    <2> USE <1>2 DEF Boot
    <2>1. TypeOK' /\ SaverOK' /\ GensOK'
      BY DEF SaverOK, GensOK
    <2>2. VersionsOK' /\ DownOK'
      BY DEF VersionsOK, DownOK
    <2>3. SnapsOK'
      BY DEF SnapsOK, DownOK
    <2> QED
      BY <2>1, <2>2, <2>3
  <1>3. CASE BootUnreadable
    <2> USE <1>3 DEF BootUnreadable
    <2>1. TypeOK' /\ SaverOK' /\ GensOK'
      BY DEF SaverOK, GensOK
    <2>2. VersionsOK' /\ DownOK'
      BY DEF VersionsOK, DownOK
    <2>3. SnapsOK'
      BY DEF SnapsOK, DownOK
    <2> QED
      BY <2>1, <2>2, <2>3
  <1> QED
    BY <1>1, <1>2, <1>3

\* Every reachable state of the ledger satisfies its inductive invariant: types,
\* mutual exclusion of the writers, and the order of generations, snapshots and file.
THEOREM LedgerInvariant == Spec => []LedgerInv
  <1>1. Init => LedgerInv
    BY LedgerInvInit
  <1>2. LedgerInv /\ [Next]_vars => LedgerInv'
    <2> SUFFICES ASSUME LedgerInv, [Next]_vars PROVE LedgerInv'
      OBVIOUS
    <2>1. CASE Change
      BY <2>1, ChangeInv
    <2>2. ASSUME NEW c \in Callers, Persist(c) PROVE LedgerInv'
      BY <2>2, SnapshotInv, LockInv, WriteInv, RenameInv, SaveFailsInv DEF Persist
    <2>3. CASE Die \/ Boot \/ BootUnreadable
      BY <2>3, RestartInv
    <2>4. CASE UNCHANGED vars
      BY <2>4 DEF vars, ledgerVars, callVars, LedgerInv, TypeOK, SaverOK, GensOK,
                  VersionsOK, SnapsOK, DownOK
    <2> QED
      BY <2>1, <2>2, <2>3, <2>4 DEF Next
  <1> QED
    BY <1>1, <1>2, PTL DEF Spec

\* A persist that returned without an error is on disk, or a newer one is.
THEOREM LedgerDurable == Spec => []Durable
  <1>1. LedgerInv => Durable
    BY DEF LedgerInv, TypeOK, GensOK, SnapsOK, Durable
  <1> QED
    BY <1>1, LedgerInvariant, PTL

\* The persist protocol implements the register: the file is never torn, never goes
\* back, and only ever holds a state the spawner had.
THEOREM LedgerImplementsRegister == Spec => IsRegister
  <1>1. Init => Register!RegisterInit
    BY DEF Init, Register!RegisterInit
  <1>2. LedgerInv /\ [Next]_vars => [Register!RegisterNext]_(Register!registerVars)
    <2> SUFFICES ASSUME LedgerInv, [Next]_vars
                 PROVE  Register!RegisterNext \/ UNCHANGED <<mem, newest, had, disk>>
      BY DEF Register!registerVars
    <2> USE DEF Register!RegisterNext, ledgerVars
    <2>1. CASE Change
      BY <2>1 DEF Change, Register!Advance
    <2>2. ASSUME NEW c \in Callers, Persist(c)
          PROVE  Register!RegisterNext \/ UNCHANGED <<mem, newest, had, disk>>
      <3>1. CASE Rename(c)
        <4>1. disk' = snap[c] /\ snap[c] \in had /\ snap[c] >= disk
          BY <3>1 DEF Rename, LedgerInv, TypeOK, GensOK, SnapsOK, Saving
        <4>2. snap[c] > disk \/ snap[c] = disk
          BY <4>1 DEF LedgerInv, TypeOK
        <4> QED
          BY <3>1, <4>1, <4>2 DEF Rename, Register!Store
      <3>2. CASE ~Rename(c)
        BY <2>2, <3>2 DEF Persist, Snapshot, Lock, OpenTmp, WriteTmp, SaveFails
      <3> QED
        BY <3>1, <3>2
    <2>3. CASE Die
      BY <2>3 DEF Die
    <2>4. CASE Boot
      BY <2>4 DEF Boot, Register!TakeOver
    <2>5. CASE BootUnreadable
      BY <2>5 DEF BootUnreadable, Register!StartFresh
    <2>6. CASE UNCHANGED vars
      BY <2>6 DEF vars
    <2> QED
      BY <2>1, <2>2, <2>3, <2>4, <2>5, <2>6 DEF Next
  <1> QED
    BY <1>1, <1>2, LedgerInvariant, PTL DEF Spec, IsRegister, Register!RegisterSpec
=============================================================================
