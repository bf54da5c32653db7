# TLA+ models of the Dune: Awakening egg's control plane

The repository runs a self-hosted Dune: Awakening world in one container. Its own
program logic is `mock-k8s` (Go), which stands in for the Kubernetes API the game's
Director expects and turns `ServerSetScale.spec.replicas` into running UE5 servers,
and a set of Python daemons around it (autoscaler, scheduler, grant engines, admin
panel). The models here start from the part on which everything else leans: the
spawner, its restart, and the instance ledger.

## 1. Inventory

| Component | State | Operations | What is hard | What makes it correct |
|---|---|---|---|---|
| **spawner** (`internal/spawner`) | instance lists per map, draining counts, backoff, persist generations | `OnSpecChange`, `scaleDown`, `teardown`, `spawnOne`, `capturePID`, `reconcileTick`/`sweep`, `Recycle`, `persist` | one goroutine per spawn and per teardown, two mutexes dropped around slow work, processes that die, linger or never come up | no two servers on one slot or one map partition; nothing runs unowned; slots and draining counts add up; wanted maps come up |
| **port pool** (`internal/pool`) | used slots | `Acquire`, `AcquireSpecific`, `Release` | released from four paths | used = held |
| **process control** (`internal/proc`) | none | `Alive`, `SameProcess`, `Terminate` | the pid file names the `sh` leader, not the server; pids are reused | only the right group is signalled, and "gone" means the whole group |
| **instance ledger** (`internal/state`, `Spawner.persist`, `Restore`) | file, temporary file | `Save`, `Load`, `Restore` | concurrent persists, failed writes, death at any point | never torn, never older, covers every tracked server |
| **boot** (`cmd/mock-k8s`) | - | wire, `Restore`, `MaterializeAll`, serve | order of callbacks and restoration | survivors are re-adopted, and stay |
| **ServerSetScale store** (`internal/serversetscale/store.go`) | objects, resource version, watcher channels | `Patch`, `ScaleUpTo`, `ScaleToZero`, `Create`, `Update`, `UpdateStatus`, `Delete`, `List`, `GetOrLazyCreate`, `MaterializeAll`, `Subscribe`, `broadcast` | callbacks after the unlock, spec maps shared and changed in place, dropped events | the spawner ends up with the last spec; watchers converge |
| **HTTP API and watches** (`handler.go`) | connections | CRUD, list and watch | events between list and subscribe | no event is missed silently |
| **travel demand** (`internal/traveldemand/watcher.go`) | log offset | `Tick`, `haveRoomFor` | the cap is compared with a count that leaves draining servers out | never more servers than the cap, no travel request lost |
| **idle reaper** (`reaper.go`, `storyend.go`, `occupancy`, `logtail`) | idle timers | `Tick`, `FreeSlot`, `stopFinishedStory` | polls see a map's past, players arrive in between | no map with a player on it is stopped; no always-warm map |
| **Coriolis recycler** (`internal/coriolis`) | tails, acted and attempted boundaries, the replacement waited for | `Tick`, `maybeRecycle`, `DimensionSource.Recycle` | half-done down/up, stale targets | one at a time, once per boundary, comes back |
| **autoscaler, maps** (`admin_autoscaler.py`) | sqlite ledger: timers per map, log offset | `run_tick`, `run_wake`, `decide_map`; the panel's and a task's own scaling | decides from old reads and patches absolute numbers; a log line is read once; two processes on one ledger | nobody is drained who was seen, or who asked, within the grace; a traveller's map comes up |
| **autoscaler, dimensions** | spawn in flight, cooldown, empty timers | `run_dd_tick`, `decide_dimension_pool` | minutes-long spawns; command and marker are two steps; the panel behind its back | one spawn at a time, spaced, reaped only when long empty |
| **scheduler** (`admin_schedule.py`) | sqlite: pending restart, announcement, runs | `run_tick`, arm, run, cancel, tasks, backups | the restart kills the process that fires it; three keys written one by one | at most once per armed restart; no countdown to nothing |
| **events, rewards** (`admin_events.py`, `admin_rewards.py`) | definitions, completions, claims with a cursor | tick, backfill, retry, deliver | payments that no rollback undoes; rewards edited between two attempts | paid in full, twice only when an answer was lost |
| **battle pass** (`admin_battlepass.py`) | tiers, seen marks, claims, grant ledger | scan, grant, demote, purge | purges beside running scans, answers lost | what was earned is paid once |
| **welcome kits** (`admin_welcome.py`) | rows per account and version | scan, retry | loop and panel scan at once, grant before record | one kit, and a row only for what went out |
| **chat commands** (`admin_chatcmd.py`) | broker queue, state file | drain, execute, save | the file at the end, the queue gone with the container | kits stay a cooldown apart |
| **market bot** (`admin_market.py`) | database listings and orders | post, buy | counts and lists older than their use | an order is bought once; listings stay under the limit |
| **panel front door** (`admin-http.py`) | connection slots, attempts, revocations | connect, login, serve, logout | threads, windows, restart | quota kept, logout final, slots come back |
| **settings** (`admin-http.py`, `admin_pelican.py`, `apply-config.sh`) | INI file, egg variables | submit, pin, write, boot | two stores, non-atomic write | what was applied survives the boot |
| **INI engine** (`admin_ini_merge.py`) | none | upserts and reads | files of any shape | read back as asked, the rest untouched |
| **certificate** (`admin_acme*.py`, `admin_tls.py`) | key, certificate, DNS record, served context | order, reload | stops between steps | what is served fits its key; records withdrawn |
| **world reset** (`admin_worldreset.py`, `apply-world-reset.sh`, `prestart.sh`) | data directories, sentinel, markers | arm, apply, roll back, prune | power cuts between renames | no world lost, none wiped |
| dimension scripts, other panel routes, publisher, map helpers, FLS stub, web UI, install and supervision scripts, BattleGroup API, discovery | files, caches | requests | I/O around external programs | not modelled |

How they interact: the Director, the panel, the autoscaler (HTTP `PATCH`), the travel
watcher and the reaper (`ScaleUpTo`, `ScaleToZero`) write replicas into the store; the
store calls `Spawner.OnSpecChange` after dropping its lock; the spawner's reconcile
loop reads the store every 30 s; the Coriolis watcher calls `Spawner.Recycle`; the
spawner starts `start-ue5.sh`, which starts the server and writes its pid file; every
change of the lists goes to the ledger, which the next boot reads. The Python daemons are
processes of their own, each with a sqlite file that the panel's one-shot commands share;
they meet mock-k8s through `/status` and `PATCH`, the game through `admin-publish.sh`, and
the boot through files under `server/state`.

The hazards of this code are listed with their lines and the properties that cover
them in `PROJECT.json`, under `hazards`.

## 2. Plan

| Order | Modules | Aim |
|---|---|---|
| 1 | `Spawner` | the controller with its store, pool, launchers and processes |
| 2 | `SpawnerRestart` EXTENDS `Spawner` | death, `Restore`, boot |
| 3 | `Ledger` implements `LedgerRegister` | how the lists reach the disk |
| 4 | `SpawnerProofs`, `RefinementProofs` (of `Ledger` and `Scheduler`) | invariants for all constants, and the two refinements |
| 5 | `MapScaler`, `DimPool`, `Scheduler` (implements `AtMostOnce`); the first composed with 9 by `MCOnDemand` | the loops that start, stop and restart things |
| 6 | `EventEngine`, `BattlePass`, `Welcome`, `ChatCommands`, `MarketBot` | what is handed out, and once |
| 7 | `PanelSessions`, `PanelSettings`, `IniMerge`, `Certificates`, `WorldReset`; with 3, 6, `DimPool` and `Scheduler` composed by `MCPanel` | what the panel keeps |
| 8 | `HandoutProofs`, `PanelProofs`, `IniProofs`, `NumberLemmas`; `MCPanelProofs` on top of them and of 4 | theorems on the panel's side, and of the composition |
| 9 | `TravelDemand`, `OnDemandProofs` | what starts and stops maps on demand inside mock-k8s |

All of this is done. What a further step would take up first: watches over bounded
channels, and the Coriolis watcher.

Every module has parameters as CONSTANTS with a named ASSUME, one action per operation,
invariants as conjunctions of named parts and no RECURSIVE operator, so that it can be
proved about as it stands.

## 3. Modules

### Spawner

One action per critical section. What runs under `Spawner.mu` alone is one step; what
holds `reconcileMu` is a sequence of steps while `holder` is not `"none"`, so that
captures, teardowns, the `persist` calls, launchers, crashes and spec writers interleave with it.

| Code | Model |
|---|---|
| `Store.objects`, spec maps shared by reference | `base` (which map the stored object holds), `heap` (what is in it) |
| `OnSpecChange` calls made after the unlock | `calls`, a set of `[key, spec, want]`, handled in any order |
| `Spawner.instances`, `instance` | `keyOf`, `slotOf`, `phase`, `cap` (PID), `st` (a StartTime is known), `capturing` (pidReady is open) |
| `reconcileMu` and its holder's locals | `holder`, `target`, `left`, `todo`, `listed`, `reaped` |
| `pool.used`, `draining`, `backoff` | `used`, `draining`, `failures` and `held` |
| the ledger file | `ledger` (written atomically here; `Ledger` shows why that is right) |
| launcher, process group, pid file | `launching`, `proc`, `pidfile` |

An id names a spawn and stands for the `(pid, start time)` pair of the process it starts.
`proc = "lingering"` is a group whose leader (the `sh` wrapper) has died while the UE5
binary is still there: `AliveAs` says dead, `Live` says running, exactly the difference
between `Alive` and `groupRunning`.

`Spec` has the failures named in `Faults`: `"crash"` (a server dies), `"launch"`
(`start-ue5.sh` dies early), `"start"` (`cmd.Start` fails), `"kill"` (a process outlives
SIGKILL by 2 s), `"slow"` (a launcher outlives the teardown's 22 s or the capture's hard cap).

Abstractions: the order of an instance list is left out, so `ScaleDown` may keep any
`want` instances where the code keeps the oldest; `Recycle` may be called for any tracked
instance with a pid; delays are "not yet" and "passed" (`held`); failure counts above
one are alike; metrics counters and the status written back by `UpdateStatus` are left
out; a pid given to a stranger process is not modelled; unsafe map names are refused by
the code before anything happens and are left out. `Entry` keeps what `Restore` uses.

### SpawnerRestart

`Die` wipes everything kept in memory and keeps processes, launchers, pid files and the
ledger. `Restart`, `RestoreEntry`, `RestoreDone` are `Restore`; `Materialize` is one
object of `MaterializeAll`, whose callback main's goroutine waits for; `Serve` ends the boot.
While booting, no tick and no HTTP request runs (`BootStep`). `quiet` records whether every
death so far fell on a moment without a spawn or a teardown under way.

### Ledger and LedgerRegister

`Ledger` opens `persist` up: snapshot and generation under `mu`, `saveMu`, the comparison
of generations, truncating and writing the temporary file, the rename; any of them may
fail, and the process may die between any two. The lists are one version number.
`LedgerRegister` is the promise: the file holds a state the spawner really had since it
booted, never goes back, and is taken over at boot. `Ledger` may persist without a change
(as `teardown` does).

### TravelDemand

The travel watcher and the idle reaper are two goroutines over one store and one spawner. Each tick
is cut where the other loop, a player or another writer can step in: after the log is
read, after `IsUp` and the count of tracked servers, after `PlayerCounts`, after the reaper's lock
is taken, after a map is stopped and before the count is read again.

| Code | Model |
|---|---|
| `director.log`, `Tailer.offset` | `asked` (requests not read yet), `past` (read, and still in the file) |
| `Watcher.Tick`, `haveRoomFor`, `FreeSlot` | `watch.at`: `"next"` map, `"query"` the players, `"free"` a slot, `"recheck"`, `"start"`; `"raise"` for a map that is up |
| `Reaper.Tick` under `mu` | `reap`: the list it took, the counts it took before |
| `emptySince` | the age of each timer |
| `StoryEnd.state`, the server's log | `verdict`, `lines` (those not read yet) |
| `MapsUp`, `TrackedInstances`, draining | `up`, `live`, `draining`: what the loops see of `Spawner` |

What a map's server writes to its log is the game's: a story completes, its players travel on or drop
out, the level reloads, who comes back is caught in the loop. A new server continues the log of the last
one. Time is a number of steps, up to `IdleAfter`; it stands still in a reaper's tick, since the code
takes `now` once. The reaper's query and its listing of the maps are one step, both under its lock: what
comes between them is as if it came before or after. `boot` lines matter only on maps that play stories. Histories
say what the loops cannot see: how long a map has really been empty (`vacant`), visits and restarts that fell
between two polls (`missed`), who came since the players were counted (`joined`), maps that came up
without having been counted (`late`), servers judged by an earlier one's log (`haunted`), travellers that still wait.

### MapScaler

A pass of the loop is cut where another process can step in: after the log is read, after
`/status`, after the player counts, after each decision is stored, after each PATCH. The
same pass run on demand is a second member of `Procs`; the panel's route and the scheduler's
task are `PanelScale`, `TaskScale` and `RequestPatch`. `Decision` is `decide_map`. An instant stored in the ledger is
its age. A failed read of the log, of `/status` or of the counts, a failed PATCH and a dead
pass are bounded by `MaxFaults`.

### DimPool

`ReadRows`, `DecideDims`, `CommandDim`, `MarkDim` are the stages of `run_dd_tick`; `DimDecision` is
`decide_dimension_pool`. The loop may crash between any two. The scripts behind
`dimension-up` and `-down` are external: a start takes a while and may die.

### Scheduler and AtMostOnce

`tick.at` is the place in `run_tick`; each commit of a key is a step, because the commands
(`arm-restart`, `run-restart`, `cancel-restart`, the panel's and the tasks') write the same keys from
their own processes. Every arming gets a number, its intent; `fired` counts how often
it was carried out. `AtMostOnce` is the promise, a set of intents each `"idle"`, armed, taken,
fired or dropped; `Once` is the INSTANCE with the refinement mapping `Stage`, and
`ImplementsOnce` the property.

### EventEngine, BattlePass, Welcome, ChatCommands, MarketBot

A transaction's view is a record (`job`, `bpJob`) that replaces the store at its commit and
vanishes at a rollback; what was commanded to the game (`landed`, `intel`, `received`) stays.
A command may fail, or land and lose its answer. Each module counts in
history variables what really reached a player, and its property compares that with
what the ledger says.

### PanelSessions, PanelSettings, IniMerge, Certificates, WorldReset

`PanelSessions` has a thread per connection slot, with login, serving and logout cut at the
locks. `PanelSettings` has two editors and the boot; a file is a value per setting, and the truncated
file is a state of its own. `IniMerge` is the engine itself: each loop is a step on one abstract line (`UpsertKeyed` and
its like) taken along the file by `Pass`, a recursive function; runs take every file of up to `MaxLines` lines. `Certificates` steps through one
order. `WorldReset` has one action per rename, touch or removal of the
hook, and `PowerCut` between any two.

### Composition for TLC

`MCOnDemand` and `MCPanel` put modules that share no state side by side: a variable
`focus`, chosen at the start, says which one runs, and the others keep their initial state.
Since none of them reads another's variables, what holds of each such behaviour holds of
the modules running together; nothing is claimed about relations between two of them. It lets
a run cover all of them without the product of their state spaces. `MCOnDemand` has the two
programs that start maps for travellers, of which a server runs one; `MCPanel` has the
ledger of mock-k8s and the panel's side. A property
such as `PassSafe` is a conjunction of named parts, each commented where it is defined.

`MCSpawner`, `MCSpawnerLive` and `MCTravelDemand` use the same device for instances of one module: each value of
`focus` selects an `INSTANCE` of it with some of its constants set (fewer writers and no faults, for
example), so that one run asks the same question of a map under every
fault and of a larger instance that is calm.

### Broken forms

Operators commented "Broken form for P" are used by no specification. Each is a definition
with a plausible mistake in it, kept beside the right one to show that P notices it.

## 4. Runs

| Run | Instance | Shows |
|---|---|---|
| `spawner` | 1 map, 1 replica, 3 slots, 3 spawns, 2 spec maps, all writers, crashes, failing launches and starts; and 1 map of up to 2 replicas with patches only | `SafeInv` (the proofs' invariant), `NoOrphan`, `NotOverspawned`, `LedgerSound`, `NoOverlap`, with several drains at once |
| `spawner_maps` | 1 map with `"kill"` and `"slow"`; and 2 maps on 2 slots | `CountsInv` survives every fault; `MapsApart`, that is `PortExclusive` and `OwnVictim` between maps |
| `spawner_live` | 1 map, 1 slot, 2 spawns, fairness: `"patched"` with patches, crashes and failing launches; `"stubborn"` with the other writers and `"kill"` | `Converges` and `WantedRuns` of patches (`PatchesConverge`, `PatchedRuns`), `DrainsEnd` of both |
| `restart` | 1 always-warm map, 2 deaths | `RestartAccounts`, `QuietRestartSafe`, `QuietRestartAdopts`, `WarmStays` |
| `travel` | a warm map and 2 on-demand maps on a budget of 2: `"room"` with 1 fault; `"story"` with a story's log and 1 write by others; `"trims"` with 1 trim of the Director's log | `BudgetHeld`; room is made, and idle maps stopped, only as promised (`NobodyPutOut`, `KeptWhileFresh`); a finished story is stopped (`StoryStopped`) |
| `on_demand` | the panel's scaler: 1 map, 2 processes; the watcher and reaper: 2 maps, a budget of 1; fairness | the scaler drains on fresh news only (`DrainsSafe`) and wakes what is travelled to (`TravelWakes`); `SlotsReturn`, `TravelAnswered` |
| `panel` | 3 persists, 3 versions, 4 generations of the ledger; 2 dimensions; a day of 5 ticks with 1 restart slot and 1 task; 1 event, 2 players of a pass, 2 kits, 2 orders, 2 connections, 3 settings, files of 3 lines, 3 orders of a certificate, 3 worlds | below |
| `stale_call` | 1 map, travel demand and reaper as writers | `Converges` fails |
| `boot` | 1 on-demand map | `AdoptedStays` fails |
| `travel_replay` | 1 map, 1 trim of the Director's log | `NoReplay` fails |
| `travel_budget` | 2 maps, a budget of 1 | `BudgetKept` fails |
| `rollback_wipe` | 3 worlds, 1 power cut or failed touch | `NeverResetOverData` fails |

The properties of `panel`: `Durable`, `IsRegister`, the ledger on disk is one the spawner had and
never an older one; `PoolSafe`, one spaced dimension spawn at a time, reaped only when
long empty; `FiresSafe`, `ImplementsOnce`, a restart fires at most once, and
`RestartsTold`, not unannounced; `RewardsSafe`, a step of a reward is paid twice only if an
answer or a commit was lost, and a claim sealed granted was paid in full; `PassSafe`, intel
earned while the pass watched is paid once and never recorded unpaid; `KitsSafe`, a kit goes
out once but for lost answers and rival scanners, and a row says granted only for a whole kit; `ChatSafe`, kits
are a cooldown apart, nothing is stamped for nothing, no copy of the chat is left behind;
`MarketSafe`, an order is bought once, listings stay under the limit; `SessionsSafe`, the login
quota is kept and a logout is final; `AppliedSurvives`, a setting the panel said it applied is there after
the next boot; `MergedAsAsked`; `CertSafe`; `WorldsKept`. `PanelTypeOK` includes that the free slots are those no
connection holds.

Bounds. A spawn id is reused as soon as nothing in the program, the ledger or a pid file
refers to it, so a run is not limited to as many spawns as there are ids; where an id more
than slots exists, a spawn can come while all slots' old servers are still draining. Three
slots leave room for a server too many beside a replacement and the one it replaces. Two
are enough to give one out again while the other is in use; two spec maps are enough
for a writer's copy and the stored one; two deaths let a boot die. The run of
`"kill"` and `"slow"` has two spawns, one that goes and one that comes; `CountsInvariant` is proved for
any number. `Ledger` needs three
callers so that one holds `saveMu` while two race for it. `SpawnFails` also covers a
machine out of processes, which is what running out of ids stands for. On the panel's side
every timer's bound is one beyond the threshold it is compared with; two processes are what
the code can run at once (a daemon and a command of the panel); the scheduler's day is long
enough for a slot to come due, be announced, go stale and be followed by a boot; fault and
operator bounds let a fault fall on each step and one follow another where a recovery could
itself fail. Three lines hold a header, the key and one line that is neither, in every order.
For `TravelDemand`, two on-demand maps for whom the budget (less the warm map, in `travel`) leaves
one place make every request compete; `IdleAfter` above `MinEmpty` in `travel` separates the two promises; `Visited` names the maps
players enter, one is enough since the loops treat each map by itself; `LogBound` of two holds the
line that ends a story with the one that reloads it.

Deadlock is checked in the runs of `Spawner` and `SpawnerRestart`. `Ledger` and the panel's modules are
bounded in operations, faults and time, and stop when these are used up; so does `rollback_wipe`. In
`TravelDemand` the loops rest while nothing is asked, a log at its bound takes no more lines, and
faults and writes by others are bounded. Symmetry is used on spawn ids only, in runs without
liveness properties.

Findings (details in `PROJECT.json`): a late callback of `ScaleUpTo` starts a server on a
map already stopped, and the up-only tick never stops it; the boot takes down on-demand
servers it has just re-adopted; a rollback cut short, or whose `touch` fails, between parking one sentinel and
making the other has `resetdb` run over the world it restored; a trim of the Director's log has the tailer serve
requests that were answered long ago; two servers run on a budget of one, since what is started or comes
back without being counted does not wait for a place.

Behaviour met while modelling that no run states as a finding: a
ledger left alone because it was unreadable is overwritten by the first persist of the same boot; a
recycled server that survives SIGKILL loses its slot to the next sweep, one that is scaled down
keeps it for good, so that `WantedRuns` can fail for want of a slot; `upsert_keyed` rewrites a
commented `;key=` even when a live `key=` follows; a value with a double quote is pinned to its variable
before `write_setting` refuses it; a dimension that died with its `server_id` set is picked for every spawn;
a chat queue whose removal failed is never removed; a key file cut short stops every later
renewal; a power cut between `mv pg` and the parking of the sentinel in a reset leaves a boot that
dies for want of a schema; `Forget` reaches only the loops' own stops, so a server that others stopped or
that died leaves its verdict to the next one of its map until that one's first line is read; a server just started can have an idle timer older than
itself, when others stopped its map and a request started it again between two polls; a player
who enters between the count and the stop is put out.

### Fairness

`Fairness` of `Spawner` is used by `spawner_live` (`LiveSpec`) and `stale_call` (`FairSpec`). Weak fairness: the holder of `reconcileMu` goes on
(it blocks on nothing else), a goroutine that can move moves, the clock passes a backoff,
a launcher reaches `launch_bg`, a signalled server exits (Terminate escalates to SIGKILL).
Strong fairness: whatever starts by locking `reconcileMu` - the tick, an `OnSpecChange` call,
the end of a Recycle - because Go's mutex hands itself to a waiter that has starved
for 1 ms. Nothing obliges anybody to write a spec, to crash, to fail or to recycle.
`WantedRuns` assumes that launchers stop failing from some point on.

`TravelFairness` is used for `SlotsReturn` and `TravelAnswered`: weak fairness of each loop's steps (tickers
in goroutines of their own), of the reconcile loop's start of what is up and not tracked, and of draining
(`Terminate` escalates). Strong fairness: making room, which waits for the reaper's mutex, and
time, which the model stops while a reaper's tick goes on. Nobody has to ask, enter, leave or fail.

`ScalerFairness` is used for `TravelWakes`: weak fairness of the loop's start and of every step of a
pass (the daemon's `while True`, one thread, sleeping between passes), of a request already under way, and of
the clock. Travellers, players, operators and faults are not obliged to anything; faults are
bounded, so passes stop failing. No other property of those modules is a liveness property.

## 5. Proofs

Checked by TLAPS for every value of the constants, from the named assumptions of the
modules. Each invariant below was checked by TLC on an instance before it was proved; one
lemma per action (or per group of actions that touch the same thing) shows it preserved, and
PTL takes the temporal step.

`SpawnerProofs` (`ConstantsAssumption`: at least one slot, one map and one spec map, finitely many
spawns):

- `CountsInvariant`: `CountsInv == TypeOK /\ PoolAccounts /\ DrainingCounts /\ LockOK` is
  inductive under every fault. `LockOK` is needed because `draining` is read when the
  lock is taken and slots are acquired later. From it: `TypeCorrect`,
  `PoolAccountsInvariant`, `DrainingCountsInvariant`.
- `NeverOverspawned`: `NotOverspawned` under every fault. It is not inductive: `RoomOK` adds that
  what the holder of `reconcileMu` still has to spawn fits beside what is listed and the instance that a
  recycle takes off the list and may put back when its process would not die.
- `SafeInvariant`: `SafeInv` adds `InstancesOK` and `PidfilesOK`, which tie an instance to the
  process it started, its pid and its pid file. `PortExclusive` alone is not
  inductive: whether a slot may be released depends on what pid the teardown reads, which
  depends on who wrote the pid file last. Assumed: `Healthy`, no process outlives SIGKILL and
  no launcher outlives the teardown's wait; without it the statements are false (a
  recycled server that survives SIGKILL is an example). From it: `PortsExclusive`, `NoServerOrphaned`, `VictimIsOwn`,
  `NoOverlapHolds`.
- `LedgerRestorable`: `LedgerSound`, that is `LedgerCovers` and `LedgerSlotsDistinct`, under every fault.
- Restarts: `RestartAlwaysAccounts` (`RestartCounts` adds that while mock-k8s is down or reads its ledger nothing
  is on its way), under every fault. `QuietRestartsSafe` and `EveryServerAdopted`, after deaths that interrupted no spawn
  and no teardown, and under `Healthy`: `QuietSafe` hands `SafeInv` over to `Adoptable` (a server that runs is
  named by its pid file and by an entry, which is its own) and back. `WarmAlwaysStays` (`BootCalls`: until the
  HTTP servers start, an always-warm map is only ever wanted once).
- `MapsAlwaysApart`: `MapsApart` of run `spawner_maps`, for any number of maps, replicas and slots. `MCSpawner` first
  chooses an instance (`MapsInv`: until then nothing is left to tear down); the steps of the calm one, with the
  Director's patches and no fault, are steps of `HealthyNext`, which keeps `SafeInv` with no assumption on
  the faults that the other instance may have. Assumed: the Director's patches are among the writers of the module.

`RefinementProofs`, of `Ledger`: `LedgerInvariant` (`LedgerInv` orders generations, snapshots and the file),
`LedgerDurable`, and `LedgerImplementsRegister`, the refinement step by step.

and of `Scheduler` (`SchedAssumption`: the calendar and the bounds are naturals, `Never` is no number):

- `OnceImplemented`: `SchedSpec` implements `AtMostOnce`. `IntentInv` says that an intent is in
  one place, stored, read by the tick, or about to be stored by `run-restart`, but while
  the tick that has read it has not consumed it; and that a fired intent is in none. The
  mapped stage alone is not inductive: that a fired intent cannot be armed again
  depends on the tick's copy and the command's copy having gone too.
- `NothingRepeated`: `FiresSafe`. Its second half, the daily task, needs `SlotInv`: a run
  begins in the slot and before the task has settled there, and each run is settled, being
  recorded, or paid for by a fault.
- `NoticeAlwaysKept`: a restart armed with enough notice, and neither replaced nor disturbed since, is announced
  before it is carried out (`FiredAnnounced`, one half of `RestartsTold`); `NoticeOK` says so of an intent with notice until it is announced.
- `RestartsAlwaysTold`: `RestartsTold` where `BackupTime < Stale`. `ToldInv` adds `Punctual`: while the
  container stays up, the loop comes back to an intent a backup and one sleep after its instant. The
  margin is a hypothesis because the code does not guarantee it: with its defaults a backup may run for
  600 s (`admin_schedule.py:396`), an intent is stale after 600 s (`:47`) and a tick
  sleeps 30 s more, so a backup that uses all of its time can make an announced restart go stale with
  nothing having failed.

`PanelProofs`:

- `AppliedAlways`: `AppliedSurvives` for any editors, settings and failed writes.
- `RenewalSafe`: `CertSafe` under every failure and stop. `CertInv` adds to it that a
  key is made only while there is no certificate, that an order past its key finds a whole one on
  disk, and that the chain it carries is for that key: `FillKey` and `WriteCert`
  need them. It also adds that an order that has not published, or has withdrawn, leaves no record.
- `PoolAlwaysSafe`: `PoolSafe` of the dimension pool. `PoolInv` adds that the cooldown is no older than the last command and
  the last spawn script of the loop (`CooldownOK`), that a drain timer is no older than the last decision that
  saw the dimension occupied or not live (`DrainsOK`), and what a tick holds between them.
- `FrontDoorSafe`: `SessionsSafe`. `FrontInv` adds that a bucket of login attempts is an end of what was let
  through, what it lacks being older than the window (the gate drops old ones from the left and appends on the right), that an
  attempt is filed under its client, and that a token that was logged out has expired or is revoked in memory,
  and in the file unless that write was lost.
- `NoWorldLost`: `WorldsKept` for any number of resets, rollbacks, failed moves and power cuts.
  `ResetInv` adds `PlacesOK` (a world is in one place only, and pg is empty between the renames of a
  rollback), `SwapOK` (what each step of the boot still has in hand) and `SentinelOK` (without a
  sentinel the boot is in no rollback). Lemmas say what each list operation does to the set
  of kept worlds and to their being distinct.
- `NeverWipedUndisturbed`: with no failed move and no boot cut short (`Undisturbed`), what the hook's
  comment says of resetdb is true. Run `rollback_wipe` shows that it is not without that assumption.

`IniProofs`: `FilesAsAsked`, `MergedAsAsked` for files of any length and any number of writes. The state of the
module is no help here, a write being one step; the induction is over the lines of the file. Three things hold
after every part of the file, for each kind of write (`SoFar`): a second pass over what is out
comes to the same state as the first over what went in, and puts out the same; the entries that the write is about read back as they
should so far (`FitsWrite`: none of them while the section has not had the new lines, what was asked for after); what the write
spares is the same before and after. The second alone is not inductive, since whether the next line goes
depends on what a pass has seen; it is the agreement of the two passes that says so. `PutEntries` is the induction over the lines put
in at once, `PutAtEnd` where a blank line stays behind them; `FlatSoFar` is the shorter argument for
files without sections. `SequenceInduction` stands in for the library's theorem, as below.

`HandoutProofs`: `RewardsAlwaysSafe`, `PassAlwaysSafe`, `KitsAlwaysSafe`, `ChatAlwaysSafe`, `MarketAlwaysSafe`, one for each
module that hands something out. Each invariant ties what has landed to what the rows say and to what each process
still has in hand (`TickFits`, `JobFits`, `GivenAndOwed`): between the landing and its record, only a fault that
is counted can part the two. Assumptions beside ranges:
the steps of a reward are distinct, `Nobody` is not a transaction, there are finitely many scanners, `Unset` is
not an editor.

`OnDemandProofs` (`TravelAssumption`: finitely many maps, times and bounds are naturals, `freeSlotMinEmpty` is at
most `AutomaticStopDuration`; `ScalerAssumption`):

- `NobodyIsPutOut` (`NobodyPutOut`) and `KeptWhilePromised` (`KeptWhileFresh`), for any maps with and without stories.
  `TravelInv` adds to the ranges `CountsInv` (who is inside was counted, or has come since), `TimersInv`
  and `GuardInv`. A timer is no older than the emptiness it stands for, unless a visit or a restart
  was missed; that is not inductive alone: between a poll that saw a player and the step that
  deletes the timer the player may leave, and the timer is then older than the emptiness; `Deleting` says
  that this map is still on the list of the tick and will lose its timer.
- `StoryAlwaysStopped` (`StoryStopped`), where no story map is always warm (`reaper.go:121`: the reaper passes those by).
  `GuardInv` says that what the guard concludes from all the log holds fits the story of the server that
  runs (`Fits`), unless the server has not booted and the log is an earlier one's (`haunted`), and that of a
  map with no server no verdict is left, or it is haunted. It speaks of verdicts over logs of any length: `ReadThrough` is a recursive
  function, and `ReadMore` says that one more line is read after the others. `StepsExist` and `UpTo` in
  `NumberLemmas` give recursion and induction up to a bound without an operator as parameter.
- `BudgetAlwaysHeld`: `BudgetHeld` with stories, faults and trims. `BudgetInv` adds that what is charged to the
  budget is tracked, and that there is room from the watcher's look to its `ScaleToOne`: nobody else charges a map in between.
- `DrainsAlwaysSafe`: `DrainsSafe` of the panel's map scaler. `ScalerInv` follows every pass with what it has read
  and decided and with the age of each map's evidence (`PassOK`, `AgesOK`, `NobodySettled`), which the property only
  looks at when a map is drained.
- `OnDemandTyped`: `OnDemandTypeOK` of both programs.

`MCPanelProofs`, of the composition that run `panel` checks:

- `PartsBehave`: a behaviour of `PanelSpec` is one of each of the thirteen parts, since a step of one leaves the
  variables of the others as they are. `PanelSafe` carries what is proved of the parts over to it.
- `PanelTyped`: `PanelTypeOK`. The invariants of the parts keep the shapes that their own arguments need; the ranges come on
  top of them, one inductive strengthening for each part that needs one. `RangesFit`: the announcement is
  for an intent that was armed while the tick that looks at it holds it. `TicksFit`: a claim
  that is still owed has an attempt left, in the table and in the copy of a tick under way. `ValuesFit`: no text with a quote in it
  is in the file. `NumbersFit`: keys and orders are numbered as they were made. `WorldsFit`: a marker names a
  world that was made. `SlotsFit`: slots free and held add up, whoever hangs up or restarts.
  Assumed: `MaxAttempts > 1` (`MAX_ATTEMPTS` is 3, `admin_events.py:56`); a first failure leaves the
  claim pending whatever the limit is, so that with a limit of one its retry would be one too many.

`NumberLemmas`: least and largest numbers of sets (`LeastNatural`, `Min` and `Max`), recursion and induction
up to a bound. The library's induction theorems take an operator as a parameter, which no backend
instantiates; `LeastNatural`, from the well-foundedness of `<`, stands in for them.

Only model-checked:

- liveness (`PatchesConverge`, `PatchedRuns`, `DrainsEnd`, `TravelWakes`, `SlotsReturn`, `TravelAnswered`): fairness needs ENABLED,
  which no backend handles;
- the five runs that expect a violation.

## 6. Not modelled

See `components` in `PROJECT.json`. In the modelled parts: `Store.Update`, watches,
status, resource versions and `GetOrLazyCreate`; the backoff's shift, whose overflow the code
maps to its cap; the Coriolis watcher's own targets; the announcement at the cap and its rate limit; the quarantine of a corrupt ledger (no write
of this code produces one; a power failure could, since `Save` does not fsync); reuse of a
pid by a stranger; the server after its pid file is written (UDP bind, farm registration). On the
panel's side: prices, catalogue and parsing of game data; item rewards of the battle pass,
which are best effort and recorded nowhere; creation and removal of events; `ping`; the greeting; the
acme-dns backend; all routes that run one command and keep nothing. Shell scripts are modelled where they
decide over persistent state (`apply-world-reset.sh`, `apply-config.sh`, the schema part of `prestart.sh`,
`start-ue5.sh`, and what a trim by `rotate-logs.sh` does to the Director's log); the rest starts external programs.
