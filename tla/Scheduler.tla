---- MODULE Scheduler ----
(***************************************************************************)
(* The scheduler, src/scripts/admin_schedule.py: the loop that fires armed *)
(* restarts, arms the daily one, announces it in the game, takes backups   *)
(* and runs the tasks of the configuration; and the commands the panel     *)
(* runs as processes of their own on the same ledger: arm-restart,         *)
(* run-restart, cancel-restart, set-config.                                *)
(*                                                                         *)
(* A tick is split where a commit, a call or another process can come      *)
(* between.  Time is counted in ticks and bounded by Horizon, a day with   *)
(* one slot of the restart schedule and one of the daily task.  A tick     *)
(* takes no time but while a backup runs.                                  *)
(***************************************************************************)
EXTENDS Integers

CONSTANTS
  Horizon,        \* bound: the last instant
  RestartSlot, Grace,   \* restart.time and catch_up_grace_secs
  Lead,           \* warn_lead_secs
  Stale,          \* STALE_RESTART_SECS
  BackupEvery, BackupTime,   \* every_hours; the longest a backup runs
  TaskSlot, TaskGrace,       \* the daily task and DAILY_CATCHUP_GRACE_SECS
  TaskEvery,      \* every_minutes of the interval task
  Delays,         \* delays an operator arms a restart with
  SchedFaults,    \* bound: failed calls, crashes
  SchedOps,       \* bound: commands of the panel
  Never

ASSUME SchedAssumption ==
  /\ {Horizon, RestartSlot, Grace, Lead, Stale, TaskSlot, TaskGrace} \subseteq Nat
  /\ {BackupEvery, BackupTime, TaskEvery} \subseteq Nat \ {0}
  /\ Delays \subseteq Nat
  /\ {SchedFaults, SchedOps} \subseteq Nat
  /\ Never \notin Int

VARIABLES
  now,
  pending,    \* ledger: PENDING_KEY, the intent and its instant, or Never
  warn,       \* ledger: PENDING_WARN_KEY, or Never
  lastWarn, lastBackup,          \* ledger: the last run of each, or Never
  taskRun, taskSettled,          \* ledger: last() and last_settled() of each task
  conf,       \* schedule.json: what is enabled
  configured, \* the panel's credentials are set
  tick,       \* the loop's tick
  ticked,     \* the loop has ticked at this instant
  command,    \* the panel's command under way
  armed,      \* intents armed so far
  countdown,  \* the game: the intent players count down to, or Never
  schedFaults, schedOps,
  fired,      \* history: how often each intent was fired
  notice,     \* history: the intent armed with enough notice and since then undisturbed
  announced,  \* history: the intents announced in the game
  shaken,     \* history: the intents armed before the container last went down
  slotRuns    \* history: the daily task's settled runs by the loop

Tasks == {"daily", "interval"}
Intents == 1..(2 * SchedOps + SchedFaults + 2)
restartLedger == <<pending, warn, lastWarn>>
taskLedger == <<lastBackup, taskRun, taskSettled>>
schedHistory == <<fired, notice, announced, shaken, slotRuns>>
schedVars == <<now, restartLedger, taskLedger, conf, configured, tick, ticked, command,
               armed, countdown, schedFaults, schedOps, schedHistory>>

Asleep == [at |-> "rest", pend |-> Never, since |-> 0, cfg |-> {}, todo |-> {}]
NoCommand == [op |-> "none", pend |-> Never, told |-> FALSE]

SchedInit ==
  /\ now = 0
  /\ pending = Never /\ warn = Never /\ lastWarn = Never /\ lastBackup = Never
  /\ taskRun = [t \in Tasks |-> Never]
  /\ taskSettled = [t \in Tasks |-> Never]
  /\ conf \in {{"restart", "backup"}, {"backup"} \cup Tasks, {"restart"}}
  /\ configured = (conf # {"restart"})
  /\ tick = Asleep
  /\ ticked = FALSE
  /\ command = NoCommand
  /\ armed = 0
  /\ countdown = Never
  /\ schedFaults = 0 /\ schedOps = 0
  /\ fired = [i \in Intents |-> 0]
  /\ notice = Never
  /\ announced = {}
  /\ shaken = {}
  /\ slotRuns = 0

SchedFault == schedFaults < SchedFaults /\ schedFaults' = schedFaults + 1

\* A call that may fail: ok says whether it did.
Calls(ok) == IF ok THEN UNCHANGED schedFaults ELSE SchedFault

Later(at, period) == at = Never \/ now >= at + period

-----------------------------------------------------------------------------
(* When things are due                                                     *)

RestartDue ==
  /\ "restart" \in tick.cfg
  /\ RestartSlot <= now /\ now < RestartSlot + Grace
  /\ lastWarn = Never \/ lastWarn < RestartSlot

BackupDue == "backup" \in tick.cfg /\ Later(lastBackup, BackupEvery)

\* A daily task keys off its last settled run, an interval one off any run.
TaskDue(t) ==
  IF t = "interval" THEN Later(taskRun[t], TaskEvery)
  ELSE /\ TaskSlot <= now /\ now < TaskSlot + TaskGrace
       /\ taskSettled[t] = Never \/ taskSettled[t] < TaskSlot

-----------------------------------------------------------------------------
(* run_tick                                                                *)

Step(at) == tick' = [tick EXCEPT !.at = at]

\* The tick reads the configuration and the pending restart.
BeginTick ==
  /\ tick.at = "rest" /\ ~ticked
  /\ ticked' = TRUE
  /\ tick' = [at |-> IF pending # Never /\ now >= pending.at THEN "due" ELSE "slot",
              pend |-> pending, since |-> now, cfg |-> conf, todo |-> conf \cap Tasks]
  /\ UNCHANGED <<now, restartLedger, taskLedger, conf, configured, command, armed, countdown,
                 schedFaults, schedOps, schedHistory>>

\* Broken form for FiresSafe: it is not consumed.
ClearNothing ==
  /\ tick.at = "due"
  /\ Step("clear")
  /\ UNCHANGED <<now, restartLedger, taskLedger, conf, configured, ticked, command, armed,
                 countdown, schedFaults, schedOps, schedHistory>>

\* The intent is consumed before anything is done about it.
ClearPending ==
  /\ tick.at = "due"
  /\ pending' = Never
  /\ Step("clear")
  /\ UNCHANGED <<now, warn, lastWarn, taskLedger, conf, configured, ticked, command, armed,
                 countdown, schedFaults, schedOps, schedHistory>>

\* An intent too old to act on is discarded.
ClearWarning ==
  /\ tick.at = "clear"
  /\ warn' = Never
  /\ tick' = IF tick.since - tick.pend.at > Stale THEN Asleep ELSE [tick EXCEPT !.at = "fire"]
  /\ UNCHANGED <<now, pending, lastWarn, taskLedger, conf, configured, ticked, command, armed,
                 countdown, schedFaults, schedOps, schedHistory>>

\* pelican_restart: the panel takes the container down and the loop with it,
\* or refuses and the tick ends.
FireRestart(ok) ==
  /\ tick.at = "fire"
  /\ Calls(ok)
  /\ fired' = [fired EXCEPT ![tick.pend.id] = @ + 1]
  /\ tick' = IF ok THEN [Asleep EXCEPT !.at = "down"] ELSE Asleep
  /\ countdown' = IF ok THEN Never ELSE countdown
  /\ command' = IF ok THEN NoCommand ELSE command
  /\ shaken' = IF ok THEN 1..armed ELSE shaken
  /\ UNCHANGED <<now, restartLedger, taskLedger, conf, configured, ticked, armed, schedOps,
                 notice, announced, slotRuns>>

\* A slot is due: without credentials that is only recorded; with them the
\* restart is armed Lead ahead, its announcement at once.
SlotCheck ==
  /\ tick.at = "slot"
  /\ LET due == tick.pend = Never /\ RestartDue IN
     IF due /\ configured
     THEN /\ armed' = armed + 1
          /\ pending' = [id |-> armed + 1, at |-> tick.since + Lead]
          /\ tick' = [tick EXCEPT !.at = "slotwarn", !.pend = pending']
          /\ notice' = IF command = NoCommand THEN armed + 1 ELSE Never
          /\ UNCHANGED lastWarn
     ELSE /\ lastWarn' = IF due THEN now ELSE lastWarn
          /\ Step("warn")
          /\ UNCHANGED <<armed, pending, notice>>
  /\ UNCHANGED <<now, warn, taskLedger, conf, configured, ticked, command, countdown,
                 schedFaults, schedOps, fired, announced, shaken, slotRuns>>

\* Broken form for RestartsTold: the announcement is due when the restart is.
SlotWarningAtRestart ==
  /\ tick.at = "slotwarn"
  /\ warn' = tick.pend.at
  /\ Step("warn")
  /\ UNCHANGED <<now, pending, lastWarn, taskLedger, conf, configured, ticked, command, armed,
                 countdown, schedFaults, schedOps, schedHistory>>

\* It is announced at once.
SlotWarning ==
  /\ tick.at = "slotwarn"
  /\ warn' = tick.since
  /\ Step("warn")
  /\ UNCHANGED <<now, pending, lastWarn, taskLedger, conf, configured, ticked, command, armed,
                 countdown, schedFaults, schedOps, schedHistory>>

\* The countdown is published for the restart the tick has read, once the
\* warning that is stored now is due.
Announce(ok) ==
  /\ tick.at = "warn"
  /\ IF tick.pend # Never /\ warn # Never /\ now >= warn
     THEN /\ Calls(ok)
          /\ countdown' = IF ok THEN tick.pend.id ELSE countdown
          /\ announced' = IF ok THEN announced \cup {tick.pend.id} ELSE announced
          /\ notice' = IF ok THEN notice ELSE Never
          /\ Step("warned")
     ELSE /\ ok
          /\ Step("backup")
          /\ UNCHANGED <<countdown, announced, notice, schedFaults>>
  /\ UNCHANGED <<now, restartLedger, taskLedger, conf, configured, ticked, command, armed,
                 schedOps, fired, shaken, slotRuns>>

ClearAnnounced ==
  /\ tick.at = "warned"
  /\ warn' = Never
  /\ Step("recordwarn")
  /\ UNCHANGED <<now, pending, lastWarn, taskLedger, conf, configured, ticked, command, armed,
                 countdown, schedFaults, schedOps, schedHistory>>

RecordAnnounced ==
  /\ tick.at = "recordwarn"
  /\ lastWarn' = now
  /\ Step("backup")
  /\ UNCHANGED <<now, pending, warn, taskLedger, conf, configured, ticked, command, armed,
                 countdown, schedFaults, schedOps, schedHistory>>

\* run_backup blocks the loop; its run is recorded when it ends.
BackupStarts ==
  /\ tick.at = "backup"
  /\ tick' = [tick EXCEPT !.at = IF BackupDue THEN "dumping" ELSE "tasks", !.since = now]
  /\ UNCHANGED <<now, restartLedger, taskLedger, conf, configured, ticked, command, armed,
                 countdown, schedFaults, schedOps, schedHistory>>

BackupEnds ==
  /\ tick.at = "dumping"
  /\ lastBackup' = now
  /\ Step("tasks")
  /\ UNCHANGED <<now, restartLedger, taskRun, taskSettled, conf, configured, ticked, command,
                 armed, countdown, schedFaults, schedOps, schedHistory>>

\* The next task that is due is run; what it did is recorded after it.
RunTask(t) ==
  /\ tick.at = "tasks" /\ t \in tick.todo
  /\ IF TaskDue(t)
     THEN /\ tick' = [tick EXCEPT !.at = "run", !.todo = @ \ {t}, !.pend = t]
          /\ slotRuns' = slotRuns + (IF t = "daily" THEN 1 ELSE 0)
     ELSE /\ tick' = [tick EXCEPT !.todo = @ \ {t}]
          /\ UNCHANGED slotRuns
  /\ UNCHANGED <<now, restartLedger, taskLedger, conf, configured, ticked, command, armed,
                 countdown, schedFaults, schedOps, fired, notice, announced, shaken>>

RecordTask(ok) ==
  /\ tick.at = "run"
  /\ Calls(ok)
  /\ LET t == tick.pend IN
     /\ taskRun' = [taskRun EXCEPT ![t] = now]
     /\ taskSettled' = [taskSettled EXCEPT ![t] = IF ok THEN now ELSE @]
     /\ slotRuns' = slotRuns - (IF t = "daily" /\ ~ok THEN 1 ELSE 0)
  /\ Step("tasks")
  /\ UNCHANGED <<now, restartLedger, lastBackup, conf, configured, ticked, command, armed,
                 countdown, schedOps, fired, notice, announced, shaken>>

TickEnds ==
  /\ tick.at = "tasks" /\ tick.todo = {}
  /\ tick' = Asleep
  /\ UNCHANGED <<now, restartLedger, taskLedger, conf, configured, ticked, command, armed,
                 countdown, schedFaults, schedOps, schedHistory>>

\* The container dies and everything in it; what is committed stays.
ContainerCrash ==
  /\ tick.at # "down" /\ SchedFault
  /\ tick' = [Asleep EXCEPT !.at = "down"]
  /\ command' = NoCommand
  /\ countdown' = Never
  /\ notice' = Never
  /\ shaken' = 1..armed
  /\ UNCHANGED <<now, restartLedger, taskLedger, conf, configured, ticked, armed, schedOps,
                 fired, announced, slotRuns>>

ContainerBoots ==
  /\ tick.at = "down"
  /\ tick' = Asleep
  /\ ticked' = FALSE
  /\ UNCHANGED <<now, restartLedger, taskLedger, conf, configured, command, armed, countdown,
                 schedFaults, schedOps, schedHistory>>

\* Time passes when the loop sleeps, is down, or waits for a backup, which
\* run_backup's timeout ends.  A command takes less than a tick.
Passes ==
  /\ now < Horizon /\ command = NoCommand
  /\ \/ tick.at = "rest" /\ ticked
     \/ tick.at = "down"
     \/ tick.at = "dumping" /\ now - tick.since < BackupTime
  /\ now' = now + 1
  /\ ticked' = (tick.at = "dumping")
  /\ UNCHANGED <<restartLedger, taskLedger, conf, configured, tick, command, armed, countdown,
                 schedFaults, schedOps, schedHistory>>

-----------------------------------------------------------------------------
(* The panel's commands, one at a time                                     *)

Command(op, pend, told) ==
  /\ tick.at # "down"
  /\ command = NoCommand
  /\ schedOps < SchedOps /\ schedOps' = schedOps + 1
  /\ command' = [op |-> op, pend |-> pend, told |-> told]

\* arm-restart: the restart's instant, then the announcement's.
ArmRestart(delay) ==
  /\ configured
  /\ armed' = armed + 1
  /\ pending' = [id |-> armed + 1, at |-> now + delay]
  /\ Command("arm", pending', FALSE)
  /\ notice' = Never
  /\ UNCHANGED <<now, warn, lastWarn, taskLedger, conf, configured, tick, ticked, countdown,
                 schedFaults, fired, announced, shaken, slotRuns>>

\* Broken form for ImplementsOnce: the restart's instant is written once more, last.
ArmWarningThenRestart(window) ==
  /\ command.op = "arm"
  /\ window <= command.pend.at - now
  /\ warn' = command.pend.at - window /\ pending' = command.pend
  /\ notice' = Never /\ command' = NoCommand
  /\ UNCHANGED <<now, lastWarn, taskLedger, conf, configured, tick, ticked, armed,
                 countdown, schedFaults, schedOps, fired, announced, shaken, slotRuns>>

\* The window is at most the delay, so that it opens now or later.
ArmWarning(window) ==
  /\ command.op = "arm"
  /\ LET at == command.pend.at - window IN
     /\ window <= command.pend.at - now
     /\ warn' = at
     /\ notice' = IF window > BackupTime /\ tick.at = "rest" THEN command.pend.id ELSE Never
  /\ command' = NoCommand
  /\ UNCHANGED <<now, pending, lastWarn, taskLedger, conf, configured, tick, ticked, armed,
                 countdown, schedFaults, schedOps, fired, announced, shaken, slotRuns>>

\* run-restart: announce now, then set the restart's instant only.
RunRestart(ok) ==
  /\ configured
  /\ Calls(ok)
  /\ armed' = armed + 1
  /\ Command("run", [id |-> armed + 1, at |-> now + Lead], ok)
  /\ countdown' = IF ok THEN armed + 1 ELSE countdown
  /\ announced' = IF ok THEN announced \cup {armed + 1} ELSE announced
  /\ notice' = Never
  /\ UNCHANGED <<now, restartLedger, taskLedger, conf, configured, tick, ticked,
                 fired, shaken, slotRuns>>

RunRestartArms ==
  /\ command.op = "run"
  /\ pending' = command.pend
  /\ lastWarn' = now
  /\ command' = NoCommand
  /\ UNCHANGED <<now, warn, taskLedger, conf, configured, tick, ticked, armed, countdown,
                 schedFaults, schedOps, fired, notice, announced, shaken, slotRuns>>

\* cancel-restart: whether players were told is what the two keys say.
CancelRestart ==
  /\ Command("cancel", Never, warn = Never /\ pending # Never)
  /\ pending' = Never
  /\ notice' = Never
  /\ UNCHANGED <<now, warn, lastWarn, taskLedger, conf, configured, tick, ticked, armed,
                 countdown, schedFaults, fired, announced, shaken, slotRuns>>

CancelTells(ok) ==
  /\ command.op = "cancel"
  /\ warn' = Never
  /\ IF command.told THEN Calls(ok) ELSE ok /\ UNCHANGED schedFaults
  /\ countdown' = IF command.told /\ ok THEN Never ELSE countdown
  /\ command' = NoCommand
  /\ UNCHANGED <<now, pending, lastWarn, taskLedger, conf, configured, tick, ticked, armed,
                 schedOps, schedHistory>>

\* set-config: an atomic replace of the file.
SetSchedule(enabled) ==
  /\ schedOps < SchedOps /\ schedOps' = schedOps + 1
  /\ conf' = enabled
  /\ UNCHANGED <<now, restartLedger, taskLedger, configured, tick, ticked, command, armed,
                 countdown, schedFaults, schedHistory>>

SchedNext ==
  \/ BeginTick \/ ClearPending \/ ClearWarning \/ SlotCheck \/ SlotWarning
  \/ ClearAnnounced \/ RecordAnnounced \/ BackupStarts \/ BackupEnds \/ TickEnds
  \/ ContainerCrash \/ ContainerBoots \/ Passes
  \/ RunRestartArms \/ CancelRestart
  \/ \E ok \in BOOLEAN : FireRestart(ok) \/ Announce(ok) \/ RecordTask(ok)
                         \/ RunRestart(ok) \/ CancelTells(ok)
  \/ \E t \in Tasks : RunTask(t)
  \/ \E delay \in Delays : ArmRestart(delay)
  \/ \E window \in Delays : ArmWarning(window)
  \/ SetSchedule({"restart"})

SchedSpec == SchedInit /\ [][SchedNext]_schedVars

-----------------------------------------------------------------------------
(* Properties                                                              *)

Intent == [id : Intents, at : Int]

\* Every stored value stays in its range, and intents are numbered as armed.
SchedTypeOK ==
  /\ now \in 0..Horizon
  /\ pending \in {Never} \cup [id : 1..armed, at : Int]
  /\ warn \in {Never} \cup Int
  /\ {lastWarn, lastBackup} \subseteq {Never} \cup 0..Horizon
  /\ tick.at \in {"rest", "due", "clear", "fire", "slot", "slotwarn", "warn", "warned",
                  "recordwarn", "backup", "dumping", "tasks", "run", "down"}
  /\ command.op \in {"none", "arm", "run", "cancel"}
  /\ countdown \in {Never} \cup 1..armed
  /\ armed \in Nat

\* A restart that was armed is asked of the panel at most once, whatever dies
\* and whoever arms or cancels meanwhile (run_tick: "each new boot read a
\* still-armed, past-due restart and fired again").
FireOnce == \A i \in Intents : fired[i] <= 1

\* The stages of an intent, for the abstract specification.
Taking == tick.at \in {"due", "clear", "fire"}
Stage(i) ==
  IF fired[i] > 0 THEN "fired"
  ELSE IF Taking /\ tick.pend.id = i THEN "taken"
  ELSE IF pending # Never /\ pending.id = i THEN "armed"
  ELSE IF i <= armed /\ ~(command.op = "run" /\ command.pend.id = i) THEN "dropped"
  ELSE "new"
Once == INSTANCE AtMostOnce WITH stage <- [i \in Intents |-> Stage(i)]

\* The scheduler implements the at-most-once protocol of an intent.
ImplementsOnce == Once!OnceSpec

\* A restart armed with enough notice, and neither replaced nor disturbed by a
\* crash or a failed broadcast since, is announced in the game before it is
\* fired (arm_restart: "published later, at restart_at - warn_window").
FiredAnnounced ==
  [][\A i \in Intents : fired'[i] > fired[i] /\ notice = i => i \in announced]_schedVars

\* A restart is discarded as stale only if the loop was down since it was
\* armed ("a leftover from a crash or a clock jump"): waiting for a backup
\* does not make it stale.
StaleMeansOutage ==
  [][tick.at = "clear" /\ tick'.at = "rest"
       => tick.pend.id \in shaken]_schedVars

\* The daily task settles at most once in its slot, but for crashes between
\* a run and its record.
DailyOnce == slotRuns <= 1 + schedFaults

\* A run is not repeated: neither an armed restart nor the daily task.
FiresSafe == FireOnce /\ DailyOnce

\* What players may rely on: a restart is announced, and not quietly dropped.
RestartsTold == FiredAnnounced /\ StaleMeansOutage
====
