---- MODULE MapScaler ----
(***************************************************************************)
(* The autoscaler of the on-demand maps: src/scripts/admin_autoscaler.py   *)
(* (run_tick, run_wake, decide_map and their ledger), together with the    *)
(* other two writers of a map's replicas, the panel's scale route          *)
(* (admin-http.py) and the scheduler's scale-instance task                 *)
(* (admin_schedule.py).  All three read mock-k8s's /status, decide, and    *)
(* then PATCH an absolute number of replicas: what they read may be old    *)
(* when they write.                                                        *)
(*                                                                         *)
(* A pass of the loop is split where another process can step in: after    *)
(* the log is read, after /status, after the player counts, after each     *)
(* map's decision is persisted, after each PATCH.  A second process runs   *)
(* a full tick on demand (POST /api/autoscaler/tick).                      *)
(*                                                                         *)
(* Time is counted in wake polls.  A stored instant is its age, which      *)
(* stops at the longest age anything is compared with.  A pass takes no    *)
(* time of the clock: the clock waits for passes to end.                   *)
(***************************************************************************)
EXTENDS Integers, FiniteSetsExt

CONSTANTS
  Maps,        \* managed maps
  Procs,       \* "loop", and "cli" for the on-demand tick
  ScaleMax,    \* SCALE_REPLICAS_MAX
  MinReplicas, MaxReplicas,   \* the maps' configured band
  PerInstance, \* players_per_instance
  IdleDrain,   \* idle_drain_secs, in wake polls
  DemandGrace, \* demand_grace_secs, in wake polls
  ScanEvery,   \* scan_interval_secs / wake_poll_secs
  Crowd,       \* bound: players on a map
  MaxFaults,   \* bound: failed reads and calls, crashes
  MaxOps,      \* bound: scale requests and configuration changes
  None, Unread

ASSUME ScalerAssumption ==
  /\ {ScaleMax, IdleDrain, DemandGrace, ScanEvery, PerInstance} \subseteq Nat \ {0}
  /\ {MinReplicas, MaxReplicas, Crowd, MaxFaults, MaxOps} \subseteq Nat
  /\ None \notin Int /\ Unread \notin Int
  /\ "loop" \in Procs

VARIABLES
  replicas, \* mock-k8s: each map's spec.replicas
  online,   \* the game: players connected to each map
  settled,  \* the game: somebody has been on the map since before this instant
  travel,   \* director.log: an unread record with num > 0 for the map
  offset,   \* ledger: log_offset is set
  idle,     \* ledger: age of idle:<map>, or None
  demand,   \* ledger: age of demand:<map>, or None
  config,   \* autoscaler.json: enabled, and the maps that are enabled
  pass,     \* what each process is doing
  due,      \* the loop has slept
  nextFull, \* polls until the loop's next full tick
  request,  \* a scale request of the panel or the scheduler, about to PATCH
  faults, ops,
  busyAge,  \* history: since a full tick last saw players, or could not see
  armedAge  \* history: since a pass last recorded demand for the map

scalerLedger == <<offset, idle, demand>>
scalerHistory == <<busyAge, armedAge>>
scalerVars == <<replicas, online, settled, travel, scalerLedger, config, pass, due,
                nextFull, request, faults, ops, scalerHistory>>

Ages(limit) == {None} \cup 0..limit
Older(age, limit) == IF age = None THEN None ELSE Min({age + 1, limit})

\* A process between passes; also what a crash leaves of it.
AtRest == [at |-> "rest", kind |-> "none", wants |-> {}, seen |-> [m \in Maps |-> None],
           count |-> [m \in Maps |-> Unread], todo |-> {}, map |-> None, to |-> None]

\* A recipe of mock-k8s has one replica or none.
ScalerInit ==
  /\ replicas \in [Maps -> 0..1]
  /\ online = [m \in Maps |-> 0]
  /\ settled = [m \in Maps |-> FALSE]
  /\ travel = [m \in Maps |-> FALSE]
  /\ offset = FALSE
  /\ idle = [m \in Maps |-> None]
  /\ demand = [m \in Maps |-> None]
  /\ config = [enabled |-> TRUE, maps |-> Maps]
  /\ pass = [p \in Procs |-> AtRest]
  /\ due = TRUE
  /\ nextFull = 0
  /\ request = None
  /\ faults = 0
  /\ ops = 0
  /\ busyAge = [m \in Maps |-> IdleDrain]
  /\ armedAge = [m \in Maps |-> DemandGrace]

-----------------------------------------------------------------------------
(* The decision                                                            *)

\* _needed_for_load: instances for that many players.
Needed(count) ==
  IF count = Unread \/ count = 0 THEN 0 ELSE (count + PerInstance - 1) \div PerInstance

\* decide_map's answer: the replicas to set (the current ones to hold), and
\* the two timers to persist.  Ages are as of the tick's now.
Decision(enabled, current, count, wanted, idleAge, demandAge) ==
  LET high == Min({MaxReplicas, ScaleMax})
      low == Min({MinReplicas, high})
      want == Min({Max({low, Needed(count), IF wanted THEN 1 ELSE 0}), high})
      lastDemand == IF wanted THEN 0 ELSE demandAge
      started == IF idleAge = None THEN 0 ELSE idleAge
      inGrace == lastDemand # None /\ lastDemand < DemandGrace
      mayDrain == want <= current /\ current > low /\ count = 0
  IN  IF ~enabled
      THEN [to |-> current, idle |-> idleAge, demand |-> demandAge]
      ELSE [to |-> IF want > current THEN want
                   ELSE IF mayDrain /\ started >= IdleDrain /\ ~inGrace THEN low
                   ELSE current,
            idle |-> IF mayDrain /\ ~(started >= IdleDrain /\ ~inGrace)
                     THEN started ELSE None,
            demand |-> lastDemand]

-----------------------------------------------------------------------------
(* A pass                                                                  *)

Fault == faults < MaxFaults /\ faults' = faults + 1
NoFault == UNCHANGED faults

\* The loop's pass is over: it sleeps one wake poll; a full tick puts the
\* next one off.
Done(p) ==
  /\ pass' = [pass EXCEPT ![p] = AtRest]
  /\ due' = (due /\ p # "loop")
  /\ nextFull' = IF p = "loop" /\ pass[p].kind = "full" THEN ScanEvery ELSE nextFull

Goto(p, step) ==
  /\ pass' = [pass EXCEPT ![p] = step]
  /\ UNCHANGED <<due, nextFull>>

\* read_new_log_lines and set_offset: every complete new record is consumed;
\* the first read ever skips the backlog.
ConsumeLog(p, kind) ==
  LET wants == IF offset THEN {m \in Maps : travel[m]} ELSE {} IN
  /\ travel' = [m \in Maps |-> FALSE]
  /\ offset' = TRUE
  /\ Goto(p, [pass[p] EXCEPT !.at = IF kind = "wake" THEN "arm" ELSE "status",
                             !.kind = kind, !.wants = wants])
  /\ NoFault

\* director.log cannot be read: nothing is consumed.  With no offset stored
\* yet, set_offset(None) raises and the pass is given up.
LogUnreadable(p, kind) ==
  /\ Fault
  /\ IF offset
     THEN Goto(p, [pass[p] EXCEPT !.at = IF kind = "wake" THEN "arm" ELSE "status",
                                  !.kind = kind])
     ELSE pass' = pass /\ due' = (due /\ p # "loop") /\ UNCHANGED nextFull
  /\ UNCHANGED <<travel, offset>>

StartPass(p) ==
  LET kind == IF p = "loop" /\ nextFull > 0 THEN "wake" ELSE "full" IN
  /\ pass[p].at = "rest"
  /\ p = "loop" => due /\ config.enabled
  /\ p = "cli" => ops < MaxOps
  /\ ConsumeLog(p, kind) \/ LogUnreadable(p, kind)
  /\ ops' = IF p = "cli" THEN ops + 1 ELSE ops
  /\ UNCHANGED <<replicas, online, settled, idle, demand, config, request, busyAge, armedAge>>

\* enabled:false - the loop sleeps without a pass.
SkipPass ==
  /\ pass["loop"].at = "rest" /\ due /\ ~config.enabled
  /\ due' = FALSE
  /\ UNCHANGED <<replicas, online, settled, travel, scalerLedger, config, pass, nextFull,
                 request, faults, ops, scalerHistory>>

\* Broken form for DrainsSafe: a wake pass arms no grace.
ArmNothing(p) ==
  LET wants == pass[p].wants IN
  /\ pass[p].at = "arm"
  /\ armedAge' = [m \in Maps |-> IF m \in wants THEN 0 ELSE armedAge[m]]
  /\ IF wants = {} THEN Done(p) ELSE Goto(p, [pass[p] EXCEPT !.at = "status"])
  /\ UNCHANGED <<replicas, online, settled, travel, offset, idle, demand, config, request,
                 faults, ops, busyAge>>

\* run_wake arms the grace of every demanded map before anything else, and
\* ends here when there is none.
Arm(p) ==
  LET wants == pass[p].wants IN
  /\ pass[p].at = "arm"
  /\ demand' = [m \in Maps |-> IF m \in wants THEN 0 ELSE demand[m]]
  /\ armedAge' = [m \in Maps |-> IF m \in wants THEN 0 ELSE armedAge[m]]
  /\ IF wants = {} THEN Done(p) ELSE Goto(p, [pass[p] EXCEPT !.at = "status"])
  /\ UNCHANGED <<replicas, online, settled, travel, offset, idle, config, request,
                 faults, ops, busyAge>>

\* fetch_mock_status and resolve_scale_key: the replicas of every tracked
\* map, or no key at all.  A wake pass decides only for the demanded maps.
ReadStatus(p) ==
  LET wake == pass[p].kind = "wake"
      asked == IF wake THEN pass[p].wants ELSE Maps
      next(seen) == [pass[p] EXCEPT !.at = IF wake THEN "decide" ELSE "count", !.seen = seen,
                                    !.todo = {m \in asked : seen[m] # None}]
  IN
  /\ pass[p].at = "status"
  /\ \/ NoFault /\ Goto(p, next(replicas))
     \/ Fault /\ Goto(p, next([m \in Maps |-> None]))
  /\ UNCHANGED <<replicas, online, settled, travel, scalerLedger, config, request, ops,
                 scalerHistory>>

\* read_online_counts, on a full tick only.
ReadCounts(p) ==
  /\ pass[p].at = "count"
  /\ \/ NoFault /\ Goto(p, [pass[p] EXCEPT !.at = "decide", !.count = online])
     \/ Fault /\ Goto(p, [pass[p] EXCEPT !.at = "decide"])
  /\ UNCHANGED <<replicas, online, settled, travel, scalerLedger, config, request, ops,
                 scalerHistory>>

\* One map of a full tick: decide from what was read, persist both timers.
DecideFull(p, m) ==
  LET d == Decision(m \in config.maps, pass[p].seen[m], pass[p].count[m],
                    m \in pass[p].wants, idle[m], demand[m])
      managed == m \in config.maps
  IN
  /\ pass[p].at = "decide" /\ pass[p].kind = "full" /\ m \in pass[p].todo
  /\ idle' = [idle EXCEPT ![m] = d.idle]
  /\ demand' = [demand EXCEPT ![m] = d.demand]
  /\ Goto(p, [pass[p] EXCEPT !.at = IF d.to = pass[p].seen[m] THEN "decide" ELSE "patch",
                             !.todo = pass[p].todo \ {m}, !.map = m, !.to = d.to])
  /\ busyAge' = [busyAge EXCEPT ![m] = IF managed /\ pass[p].count[m] # 0 THEN 0 ELSE @]
  /\ armedAge' = [armedAge EXCEPT ![m] = IF managed /\ m \in pass[p].wants THEN 0 ELSE @]
  /\ UNCHANGED <<replicas, online, settled, travel, offset, config, request, faults, ops>>

\* Broken form for TravelWakes: a wake pass decides without the demand it has read.
DecideWakeUnasked(p, m) ==
  LET d == Decision(m \in config.maps, pass[p].seen[m], Unread, FALSE, None, 0) IN
  /\ pass[p].at = "decide" /\ pass[p].kind = "wake" /\ m \in pass[p].todo
  /\ Goto(p, [pass[p] EXCEPT !.at = IF d.to > pass[p].seen[m] THEN "patch" ELSE "decide",
                             !.todo = pass[p].todo \ {m}, !.map = m, !.to = d.to])
  /\ UNCHANGED <<replicas, online, settled, travel, scalerLedger, config, request, faults,
                 ops, scalerHistory>>

\* One map of a wake pass: no count, so never down; no timer is written.
DecideWake(p, m) ==
  LET d == Decision(m \in config.maps, pass[p].seen[m], Unread, TRUE, None, 0) IN
  /\ pass[p].at = "decide" /\ pass[p].kind = "wake" /\ m \in pass[p].todo
  /\ Goto(p, [pass[p] EXCEPT !.at = IF d.to > pass[p].seen[m] THEN "patch" ELSE "decide",
                             !.todo = pass[p].todo \ {m}, !.map = m, !.to = d.to])
  /\ UNCHANGED <<replicas, online, settled, travel, scalerLedger, config, request, faults,
                 ops, scalerHistory>>

\* Fewer replicas stop servers; players may go with them, and all do at 0.
Resize(m, n) ==
  /\ replicas' = [replicas EXCEPT ![m] = n]
  /\ IF n >= replicas[m]
     THEN UNCHANGED <<online, settled>>
     ELSE \E left \in 0..(IF n = 0 THEN 0 ELSE online[m]) :
            /\ online' = [online EXCEPT ![m] = left]
            /\ settled' = [settled EXCEPT ![m] = @ /\ left > 0]

\* The PATCH of the decided number; a failed one is recorded, not retried.
Patch(p) ==
  /\ pass[p].at = "patch"
  /\ \/ NoFault /\ Resize(pass[p].map, pass[p].to)
     \/ Fault /\ UNCHANGED <<replicas, online, settled>>
  /\ Goto(p, [pass[p] EXCEPT !.at = "decide", !.map = None, !.to = None])
  /\ UNCHANGED <<travel, scalerLedger, config, request, ops, scalerHistory>>

EndPass(p) ==
  /\ pass[p].at = "decide" /\ pass[p].todo = {}
  /\ Done(p)
  /\ UNCHANGED <<replicas, online, settled, travel, scalerLedger, config, request, faults,
                 ops, scalerHistory>>

\* The process dies anywhere in a pass; the loop starts again with a full tick.
Crash(p) ==
  /\ pass[p].at # "rest"
  /\ Fault
  /\ pass' = [pass EXCEPT ![p] = AtRest]
  /\ nextFull' = IF p = "loop" THEN 0 ELSE nextFull
  /\ UNCHANGED <<replicas, online, settled, travel, scalerLedger, config, due, request, ops,
                 scalerHistory>>

-----------------------------------------------------------------------------
(* The other writers of replicas                                           *)

\* POST /api/instances/<map>/scale up to its PATCH.  The guard counts the
\* players on the map; a count that cannot be read is taken for zero.
PanelScale(m, n, force) ==
  /\ request = None /\ ops < MaxOps
  /\ \/ NoFault /\ (n < replicas[m] => online[m] = 0 \/ force)
     \/ Fault /\ n < replicas[m]
  /\ request' = [map |-> m, to |-> n, by |-> "panel", seen |-> replicas[m]]
  /\ ops' = ops + 1
  /\ UNCHANGED <<replicas, online, settled, travel, scalerLedger, config, pass, due,
                 nextFull, scalerHistory>>

\* run_scale_instance of an unforced task: an unreadable count is a "skipped"
\* run, and so is one that is not zero.
TaskScale(m, n) ==
  /\ request = None /\ ops < MaxOps
  /\ n # replicas[m]
  /\ n < replicas[m] => online[m] = 0
  /\ request' = [map |-> m, to |-> n, by |-> "task", seen |-> replicas[m]]
  /\ ops' = ops + 1
  /\ UNCHANGED <<replicas, online, settled, travel, scalerLedger, config, pass, due,
                 nextFull, faults, scalerHistory>>

RequestPatch ==
  /\ request # None
  /\ Resize(request.map, request.to)
  /\ request' = None
  /\ UNCHANGED <<travel, scalerLedger, config, pass, due, nextFull, faults, ops,
                 scalerHistory>>

\* set-config replaces autoscaler.json.
SetConfig ==
  /\ ops < MaxOps /\ ops' = ops + 1
  /\ \/ config' = [config EXCEPT !.enabled = ~@]
     \/ \E m \in Maps : config' = [config EXCEPT !.maps = IF m \in @ THEN @ \ {m} ELSE @ \cup {m}]
  /\ UNCHANGED <<replicas, online, settled, travel, scalerLedger, pass, due, nextFull,
                 request, faults, scalerHistory>>

-----------------------------------------------------------------------------
(* The game and the clock                                                  *)

\* A player sets out for the map: the Director logs it.
Travel(m) ==
  /\ ~travel[m]
  /\ travel' = [travel EXCEPT ![m] = TRUE]
  /\ UNCHANGED <<replicas, online, settled, scalerLedger, config, pass, due, nextFull,
                 request, faults, ops, scalerHistory>>

JoinMap(m) ==
  /\ replicas[m] > 0 /\ online[m] < Crowd
  /\ online' = [online EXCEPT ![m] = @ + 1]
  /\ UNCHANGED <<replicas, settled, travel, scalerLedger, config, pass, due, nextFull,
                 request, faults, ops, scalerHistory>>

LeaveMap(m) ==
  /\ online[m] > 0
  /\ online' = [online EXCEPT ![m] = @ - 1]
  /\ settled' = [settled EXCEPT ![m] = @ /\ online[m] > 1]
  /\ UNCHANGED <<replicas, travel, scalerLedger, config, pass, due, nextFull, request,
                 faults, ops, scalerHistory>>

\* One wake poll goes by.
ScalerClock ==
  /\ \A p \in Procs : pass[p].at = "rest"
  /\ ~due /\ request = None
  /\ due' = TRUE
  /\ nextFull' = Max({nextFull - 1, 0})
  /\ idle' = [m \in Maps |-> Older(idle[m], IdleDrain)]
  /\ demand' = [m \in Maps |-> Older(demand[m], DemandGrace)]
  /\ busyAge' = [m \in Maps |-> Older(busyAge[m], IdleDrain)]
  /\ armedAge' = [m \in Maps |-> Older(armedAge[m], DemandGrace)]
  /\ settled' = [m \in Maps |-> online[m] > 0]
  /\ UNCHANGED <<replicas, online, travel, offset, config, pass, request, faults, ops>>

PassStep(p) ==
  \/ Arm(p) \/ ReadStatus(p) \/ ReadCounts(p) \/ Patch(p) \/ EndPass(p)
  \/ \E m \in Maps : DecideFull(p, m) \/ DecideWake(p, m)

ScalerNext ==
  \/ \E p \in Procs : StartPass(p) \/ PassStep(p) \/ Crash(p)
  \/ SkipPass \/ RequestPatch \/ SetConfig \/ ScalerClock
  \/ \E m \in Maps, n \in 0..ScaleMax :
       (\E force \in BOOLEAN : PanelScale(m, n, force)) \/ TaskScale(m, n)
  \/ \E m \in Maps : Travel(m) \/ JoinMap(m) \/ LeaveMap(m)

\* The loop's process runs, an on-demand tick ends, requests are answered and
\* time passes.  Nothing is assumed of the players.
ScalerFairness ==
  /\ \A p \in Procs : WF_scalerVars(PassStep(p))
  /\ WF_scalerVars(StartPass("loop")) /\ WF_scalerVars(SkipPass)
  /\ WF_scalerVars(RequestPatch)
  /\ WF_scalerVars(ScalerClock)

ScalerSpec == ScalerInit /\ [][ScalerNext]_scalerVars /\ ScalerFairness

-----------------------------------------------------------------------------
(* Properties                                                              *)

PassRecords ==
  [at : {"rest", "arm", "status", "count", "decide", "patch"},
   kind : {"none", "full", "wake"}, wants : SUBSET Maps,
   seen : [Maps -> {None} \cup 0..ScaleMax], count : [Maps -> {Unread} \cup 0..Crowd],
   todo : SUBSET Maps, map : {None} \cup Maps, to : {None} \cup 0..ScaleMax]

\* The types of the variables; every stored target is within 0..ScaleMax.
ScalerTypeOK ==
  /\ replicas \in [Maps -> 0..ScaleMax]
  /\ online \in [Maps -> 0..Crowd]
  /\ settled \in [Maps -> BOOLEAN] /\ travel \in [Maps -> BOOLEAN]
  /\ offset \in BOOLEAN
  /\ idle \in [Maps -> Ages(IdleDrain)] /\ demand \in [Maps -> Ages(DemandGrace)]
  /\ config \in [enabled : BOOLEAN, maps : SUBSET Maps]
  /\ pass \in [Procs -> PassRecords]
  /\ due \in BOOLEAN /\ nextFull \in 0..ScanEvery
  /\ request \in {None} \cup [map : Maps, to : 0..ScaleMax, by : {"panel", "task"},
                              seen : 0..ScaleMax]
  /\ faults \in 0..MaxFaults /\ ops \in 0..MaxOps
  /\ busyAge \in [Maps -> 0..IdleDrain]
  /\ armedAge \in [Maps -> 0..DemandGrace]

\* p has just decided to take m down.
DecidesDown(p, m) ==
  /\ pass[p].at = "decide" /\ pass'[p].at = "patch"
  /\ pass'[p].map = m /\ pass'[p].to < pass[p].seen[m]

\* A drain is earned (decide_map's "past both the post-demand grace and the
\* idle-drain timer"): whatever passes, crashes, failed reads and
\* configuration changes came before, no full tick that looked at the managed
\* map in the last IdleDrain saw a player or failed to see, and no pass
\* recorded demand for it in the last DemandGrace.
DrainEarned ==
  [][\A p \in Procs, m \in Maps : DecidesDown(p, m) =>
       busyAge[m] >= IdleDrain /\ armedAge[m] >= DemandGrace]_scalerVars

\* Nobody who was on a map before the instant of a pass is put off it by a
\* drain or an unforced task, whoever else scales the map meanwhile: the
\* guards ("never evict a non-empty map", admin_schedule's "a scale-down with
\* players online is skipped") look at the players of this very pass.
SettledStay ==
  [][\A m \in Maps :
       /\ \A p \in Procs : pass[p].at = "patch" /\ pass[p].map = m
                             /\ pass[p].to < pass[p].seen[m] /\ pass'[p].at = "decide"
                             /\ replicas'[m] # replicas[m] => ~settled[m]
       /\ request # None /\ request' = None /\ request.by = "task" /\ request.map = m
             /\ request.to < request.seen => ~settled[m]]_scalerVars

\* A map that players keep setting out for comes up again and again, once its
\* autoscaling is on for good (the cold-wake path of run_wake and run_tick).
TravelWakes ==
  \A m \in Maps :
    []<>travel[m] /\ <>[](config.enabled /\ m \in config.maps) => []<>(replicas[m] > 0)

\* Both, of every way a map goes down.
DrainsSafe == DrainEarned /\ SettledStay
====
