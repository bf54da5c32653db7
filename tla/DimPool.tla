---- MODULE DimPool ----
(***************************************************************************)
(* The pool of Deep Desert dimensions: admin_autoscaler.py's run_dd_tick   *)
(* and decide_dimension_pool with the timers they keep, and the panel's    *)
(* up and down routes (admin-http.py), which command the same dimensions   *)
(* behind the loop's back.                                                 *)
(*                                                                         *)
(* dimension-up and dimension-down are scripts outside this module's       *)
(* sources: "up" answers at once and starts a script that waits for the    *)
(* server and then binds its row (guarded by the row still being unbound); *)
(* "down" kills the server and unbinds the row.                            *)
(*                                                                         *)
(* Time is counted in full ticks of the loop.  An age stops at the longest *)
(* one it is compared with.                                                *)
(***************************************************************************)
EXTENDS Integers, FiniteSets, FiniteSetsExt

CONSTANTS
  Dims,          \* partition ids of the declared dimensions
  MinDims, MaxDims, PlayersPerDim,
  DrainAfter,    \* idle_drain_secs, in ticks
  Cooldown,      \* demand_grace_secs, in ticks
  Window,        \* SPAWN_INFLIGHT_MAX_WAIT, in ticks
  SpawnTime,     \* the longest a spawn script runs, in ticks
  DimCrowd,      \* bound: players in a dimension
  DimFaults,     \* bound: failed reads, calls and spawns, crashes
  DimOps,        \* bound: requests of the panel
  NoDim, Off

\* SPAWN_COOLDOWN_FLOOR: the cooldown outlasts a spawn.
ASSUME DimAssumption ==
  /\ Dims \subseteq Nat /\ IsFiniteSet(Dims)
  /\ {MinDims, MaxDims, DimCrowd, DimFaults, DimOps} \subseteq Nat
  /\ {PlayersPerDim, DrainAfter, Cooldown, Window, SpawnTime} \subseteq Nat \ {0}
  /\ SpawnTime < Cooldown
  /\ NoDim \notin Int /\ Off \notin Int

VARIABLES
  script,    \* age of the spawn script the loop, or the panel, started, or NoDim
  server,    \* the dimension's UE5 runs
  bound,     \* world_partition.server_id is set
  players,   \* players in the dimension
  emptyAge,  \* ledger: age of dd_idle:<pid>, or NoDim
  actAge,    \* ledger: age of dd_last_spawn, or NoDim
  spawnPid,  \* ledger: dd_spawning_pid, or NoDim
  spawnAge,  \* ledger: age of dd_spawning_at, or NoDim
  ddTick,    \* what the loop's tick is doing
  ddDue,     \* a tick of this period is still to run
  downCall,  \* the dimension a down request of the panel has checked, or NoDim
  ddFaults, ddOps,
  cmdAge,    \* history: since the loop last commanded a dimension
  seenAge    \* history: since a decision last had the dimension occupied or not live

dimLedger == <<emptyAge, actAge, spawnPid, spawnAge>>
dimWorld == <<script, server, bound, players>>
dimHistory == <<cmdAge, seenAge>>

Starters == {"loop", "panel"}
dimVars == <<dimWorld, dimLedger, ddTick, ddDue, downCall, ddFaults, ddOps, dimHistory>>

Resting == [at |-> "rest", rows |-> [d \in Dims |-> Off], verb |-> "hold", dim |-> NoDim]

DimInit ==
  /\ script = [w \in Starters |-> [d \in Dims |-> NoDim]]
  /\ server = [d \in Dims |-> FALSE]
  /\ bound = [d \in Dims |-> FALSE]
  /\ players = [d \in Dims |-> 0]
  /\ emptyAge = [d \in Dims |-> NoDim]
  /\ actAge = NoDim /\ spawnPid = NoDim /\ spawnAge = NoDim
  /\ ddTick = Resting
  /\ ddDue = TRUE
  /\ downCall = NoDim
  /\ ddFaults = 0 /\ ddOps = 0
  /\ cmdAge = Cooldown
  /\ seenAge = [d \in Dims |-> 0]

Alive(d) == bound[d] /\ server[d]
Fails == ddFaults < DimFaults /\ ddFaults' = ddFaults + 1

-----------------------------------------------------------------------------
(* decide_dimension_pool, on the rows a tick read                          *)

LiveRows(rows) == {d \in Dims : rows[d] # Off}
CapDims == Min({MaxDims, Cardinality(Dims)})
FloorDims == Min({MinDims, CapDims})

\* A cooldown after every command.
\* Broken form for PoolSafe: there is none.
NeverCooling == FALSE

Cooling == actAge # NoDim /\ actAge < Cooldown

\* The players of all live dimensions.
PlayersOn(rows) == MapThenSumSet(LAMBDA d : rows[d], LiveRows(rows))

\* The timers to persist: started or kept for an empty live dimension only.
EmptyTimers(rows) ==
  [d \in Dims |-> IF rows[d] # 0 THEN NoDim
                  ELSE IF emptyAge[d] = NoDim THEN 0 ELSE emptyAge[d]]

DimDecision(rows, inFlight) ==
  LET live == LiveRows(rows)
      offline == Dims \ live
      timers == EmptyTimers(rows)
      drained == {d \in live : timers[d] # NoDim /\ timers[d] >= DrainAfter}
      short == Cardinality(live) < FloorDims
      loaded == /\ live # {} /\ Cardinality(live) < CapDims
                /\ PlayersOn(rows) >= PlayersPerDim * Cardinality(live)
      hold == [verb |-> "hold", dim |-> NoDim]
  IN  IF inFlight # NoDim \/ Cooling THEN hold
      ELSE IF offline # {} /\ (short \/ loaded)
           THEN [verb |-> "spawn", dim |-> Min(offline)]
      ELSE IF Cardinality(live) > FloorDims /\ drained # {}
           THEN [verb |-> "reap", dim |-> Max(drained)]
      ELSE hold

-----------------------------------------------------------------------------
(* run_dd_tick                                                             *)

\* read_dim_rows: players are believed of a live row only.
ReadRows ==
  /\ ddTick.at = "rest" /\ ddDue
  /\ ddTick' = [Resting EXCEPT !.at = "decide",
                  !.rows = [d \in Dims |-> IF Alive(d) THEN players[d] ELSE Off]]
  /\ ddDue' = FALSE
  /\ UNCHANGED <<dimWorld, dimLedger, downCall, ddFaults, ddOps, dimHistory>>

\* An unreadable topology holds; no timer is touched.
RowsUnreadable ==
  /\ ddTick.at = "rest" /\ ddDue /\ Fails
  /\ ddDue' = FALSE
  /\ UNCHANGED <<dimWorld, dimLedger, ddTick, downCall, ddOps, dimHistory>>

\* The marker of the spawn in flight is dropped once its dimension is live or
\* the window has lapsed; the decision's timers are persisted, the cooldown
\* among them, before anything is commanded.
DecideDims ==
  /\ ddTick.at = "decide"
  /\ LET rows == ddTick.rows
         over == spawnPid # NoDim /\ (rows[spawnPid] # Off \/ spawnAge > Window)
         inFlight == IF over THEN NoDim ELSE spawnPid
         decision == DimDecision(rows, inFlight)
     IN  /\ spawnPid' = inFlight
         /\ spawnAge' = IF over THEN NoDim ELSE spawnAge
         /\ emptyAge' = EmptyTimers(rows)
         /\ actAge' = IF decision.verb = "hold" THEN actAge ELSE 0
         /\ ddTick' = IF decision.verb = "hold" THEN Resting
                      ELSE [ddTick EXCEPT !.at = "act", !.verb = decision.verb,
                                          !.dim = decision.dim]
  /\ seenAge' = [d \in Dims |-> IF ddTick.rows[d] = 0 THEN seenAge[d] ELSE 0]
  /\ UNCHANGED <<dimWorld, ddDue, downCall, ddFaults, ddOps, cmdAge>>

\* dimension-up, by whoever calls it: a bound row is "already-online".
StartSpawn(who, d) ==
  /\ script' = IF bound[d] THEN script ELSE [script EXCEPT ![who][d] = 0]
  /\ server' = [server EXCEPT ![d] = @ \/ ~bound[d]]
  /\ UNCHANGED <<bound, players>>

TakeDown(d) ==
  /\ server' = [server EXCEPT ![d] = FALSE]
  /\ bound' = [bound EXCEPT ![d] = FALSE]
  /\ players' = [players EXCEPT ![d] = 0]
  /\ UNCHANGED script

\* _run_publish_dim: the command, which answers ok.
CommandDim ==
  /\ ddTick.at = "act"
  /\ IF ddTick.verb = "spawn"
     THEN StartSpawn("loop", ddTick.dim)
     ELSE TakeDown(ddTick.dim)
  /\ ddTick' = [ddTick EXCEPT !.at = "mark"]
  /\ cmdAge' = 0
  /\ UNCHANGED <<dimLedger, ddDue, downCall, ddFaults, ddOps, seenAge>>

\* The command fails: only the run is recorded.
CommandFails ==
  /\ ddTick.at = "act" /\ Fails
  /\ ddTick' = Resting
  /\ UNCHANGED <<dimWorld, dimLedger, ddDue, downCall, ddOps, dimHistory>>

\* What is known after the command that answered ok.
MarkDim ==
  /\ ddTick.at = "mark"
  /\ IF ddTick.verb = "spawn"
     THEN spawnPid' = ddTick.dim /\ spawnAge' = 0 /\ UNCHANGED emptyAge
     ELSE /\ emptyAge' = [emptyAge EXCEPT ![ddTick.dim] = NoDim]
          /\ UNCHANGED <<spawnPid, spawnAge>>
  /\ ddTick' = Resting
  /\ UNCHANGED <<dimWorld, actAge, ddDue, downCall, ddFaults, ddOps, dimHistory>>

\* The loop's process dies and is started again: the ledger and the game stay,
\* and its first tick is due at once.
LoopCrash ==
  /\ ddTick.at # "rest" /\ Fails
  /\ ddTick' = Resting
  /\ ddDue' = TRUE
  /\ UNCHANGED <<dimWorld, dimLedger, downCall, ddOps, dimHistory>>

-----------------------------------------------------------------------------
(* The panel's routes                                                      *)

PanelUp(d) ==
  /\ ddOps < DimOps /\ ddOps' = ddOps + 1
  /\ StartSpawn("panel", d)
  /\ UNCHANGED <<dimLedger, ddTick, ddDue, downCall, ddFaults, dimHistory>>

\* The guard: players on the partition ask for a confirmation, which is the
\* same request with force.
PanelDownChecked(d) ==
  /\ ddOps < DimOps /\ ddOps' = ddOps + 1
  /\ downCall = NoDim
  /\ \E force \in BOOLEAN :
       downCall' = IF Alive(d) /\ players[d] > 0 /\ ~force THEN NoDim ELSE d
  /\ UNCHANGED <<dimWorld, dimLedger, ddTick, ddDue, ddFaults, dimHistory>>

PanelDown ==
  /\ downCall # NoDim
  /\ TakeDown(downCall)
  /\ downCall' = NoDim
  /\ UNCHANGED <<dimLedger, ddTick, ddDue, ddFaults, ddOps, dimHistory>>

-----------------------------------------------------------------------------
(* The scripts, the servers and the players                                *)

\* The script saw its server ready, or gave up: the row is bound if a server
\* is registered and the row is still unbound.
SpawnEnds(who, d) ==
  /\ script[who][d] # NoDim
  /\ script' = [script EXCEPT ![who][d] = NoDim]
  /\ bound' = [bound EXCEPT ![d] = @ \/ server[d]]
  /\ UNCHANGED <<server, players, dimLedger, ddTick, ddDue, downCall, ddFaults, ddOps,
                 dimHistory>>

\* The server exits while it starts: its script finds nothing to bind.
SpawnDies(d) ==
  /\ ~bound[d] /\ server[d] /\ Fails
  /\ server' = [server EXCEPT ![d] = FALSE]
  /\ UNCHANGED <<script, bound, players, dimLedger, ddTick, ddDue, downCall, ddOps, dimHistory>>

PlayersMove(d) ==
  /\ Alive(d)
  /\ \E n \in {players[d] - 1, players[d] + 1} \cap 0..DimCrowd :
       players' = [players EXCEPT ![d] = n]
  /\ UNCHANGED <<script, server, bound, dimLedger, ddTick, ddDue, downCall, ddFaults,
                 ddOps, dimHistory>>

Aged(age, limit) == IF age = NoDim THEN NoDim ELSE Min({age + 1, limit})

\* A period passes: its tick has run, and no script outlives SpawnTime.
DimClock ==
  /\ ~ddDue /\ ddTick.at = "rest"
  /\ \A w \in Starters, d \in Dims : script[w][d] # SpawnTime
  /\ ddDue' = TRUE
  /\ script' = [w \in Starters |-> [d \in Dims |-> Aged(script[w][d], SpawnTime)]]
  /\ emptyAge' = [d \in Dims |-> Aged(emptyAge[d], DrainAfter)]
  /\ actAge' = Aged(actAge, Cooldown)
  /\ spawnAge' = Aged(spawnAge, Window + 1)
  /\ cmdAge' = Aged(cmdAge, Cooldown)
  /\ seenAge' = [d \in Dims |-> Aged(seenAge[d], DrainAfter)]
  /\ UNCHANGED <<server, bound, players, spawnPid, ddTick, downCall, ddFaults, ddOps>>

DimNext ==
  \/ ReadRows \/ RowsUnreadable \/ DecideDims \/ CommandDim \/ CommandFails \/ MarkDim
  \/ LoopCrash \/ PanelDown \/ DimClock
  \/ \E d \in Dims : PanelUp(d) \/ PanelDownChecked(d) \/ SpawnDies(d)
                     \/ PlayersMove(d)
  \/ \E w \in Starters, d \in Dims : SpawnEnds(w, d)

DimSpec == DimInit /\ [][DimNext]_dimVars

-----------------------------------------------------------------------------
(* Properties                                                              *)

\* Every stored value stays in its range, and a spawn marker has its instant.
DimTypeOK ==
  /\ script \in [Starters -> [Dims -> {NoDim} \cup 0..SpawnTime]]
  /\ server \in [Dims -> BOOLEAN] /\ bound \in [Dims -> BOOLEAN]
  /\ players \in [Dims -> 0..DimCrowd]
  /\ emptyAge \in [Dims -> {NoDim} \cup 0..DrainAfter]
  /\ actAge \in {NoDim} \cup 0..Cooldown
  /\ spawnPid \in {NoDim} \cup Dims
  /\ spawnAge \in {NoDim} \cup 0..(Window + 1) /\ (spawnAge = NoDim) = (spawnPid = NoDim)
  /\ ddTick.at \in {"rest", "decide", "act", "mark"}

\* The loop never starts a second script for a dimension while its own first
\* one is waiting for the server, whatever crashed between the command and the
\* marker (decide_dimension_pool: "a mid-spawning dim is never
\* double-spawned"): the cooldown, persisted first, outlasts the script.
OneSpawnInFlight ==
  [][\A d \in Dims : ddTick.at = "act" /\ ddTick'.at = "mark" /\ ddTick.verb = "spawn"
                     /\ ddTick.dim = d => script["loop"][d] = NoDim]_dimVars

\* Two commands of the loop are a cooldown apart, across crashes and failures
\* ("a reap also ARMS the cooldown (anti reap->respawn flap)").
CommandsSpaced ==
  [][ddTick.at = "act" /\ ddTick'.at = "mark" => cmdAge >= Cooldown]_dimVars

\* A dimension is reaped only after every decision of a whole drain had it
\* live and empty: a visit, a restart of the dimension or an operator's down in
\* between starts the drain again.
ReapEarned ==
  [][ddTick.at = "act" /\ ddTick'.at = "mark" /\ ddTick.verb = "reap"
       => seenAge[ddTick.dim] >= DrainAfter]_dimVars

\* The three, across crashes between the command, the marker and the timers.
PoolSafe == OneSpawnInFlight /\ CommandsSpaced /\ ReapEarned
====
