------------------------------- MODULE Spawner -------------------------------
(***************************************************************************)
(* mock-k8s/internal/spawner: the controller that turns ServerSetScale     *)
(* spec.replicas into running UE5 servers.                                 *)
(*                                                                         *)
(* A key is one ServerSetScale (one map, hence one world partition); a     *)
(* slot is an index of the port pool (one UDP game port and one IGW port); *)
(* an id names one spawn together with the process it starts, so as a pid  *)
(* value it stands for the (pid, start time) pair the code compares.       *)
(*                                                                         *)
(* The actors: the goroutines that write a spec and then call OnSpecChange *)
(* (after the store's lock is dropped, so calls may arrive in any order),  *)
(* the reconcile loop, one capturePID goroutine per spawn, one teardown    *)
(* goroutine per scaled-down instance, the Coriolis watcher's Recycle, the *)
(* start-ue5.sh launchers and the UE5 processes. reconcileMu is `holder`;  *)
(* what runs under Spawner.mu alone is one step.                           *)
(***************************************************************************)
EXTENDS Naturals, FiniteSets

CONSTANTS
    Keys,         \* the ServerSetScales
    Ids,          \* spawns not yet forgotten; reused once nothing refers to one
    NoId,         \* pid 0
    PoolSize,     \* pool.size
    MaxReplicas,  \* largest spec.replicas anyone writes
    Specs,        \* identities of spec maps still referred to, per key
    NoSpec,       \* the object does not exist
    Writers,      \* which writers of specs run: "patch", "scale", "delete"
    Faults        \* which failures the environment may produce

ASSUME ConstantsAssumption ==
    /\ PoolSize \in Nat \ {0}
    /\ MaxReplicas \in Nat \ {0}
    /\ NoId \notin Ids
    /\ NoSpec \notin Specs
    /\ Keys # {} /\ Specs # {}
    /\ IsFiniteSet(Ids)

Slots == 0 .. (PoolSize - 1)
Replicas == 0 .. MaxReplicas
Pids == Ids \cup {NoId}

VARIABLES
    heap,       \* contents (the replicas) of each spec map of each key
    base,       \* the spec map the stored object of the key holds
    calls,      \* OnSpecChange calls made and not yet through reconcileMu
    keyOf,      \* instance: its key
    slotOf,     \* instance: Allocation.Index
    phase,      \* instance: where it stands in the spawner
    recycling,  \* instance: it was taken off the list by Recycle
    capturing,  \* instances whose pidReady is still open
    cap,        \* instance: PID
    st,         \* instance: StartTime is known
    victim,     \* the pid a teardown is terminating
    used,       \* pool.used
    draining,   \* Spawner.draining
    failures,   \* backoffState.failures, all counts above one alike
    held,       \* now is before backoffState.nextRetry
    ledger,     \* the instance ledger on disk
    holder,     \* what holds reconcileMu
    target,     \* the key the holder is spawning for
    left,       \* how many spawnOne calls it still has to make
    todo,       \* keys the tick has not come to
    listed,     \* the objects the tick got from store.List
    reaped,     \* keys the tick's sweep reaped from
    launching,  \* launchers (bash start-ue5.sh) before their launch_bg
    proc,       \* UE5: "none", "up", or "lingering" once its sh wrapper died
    pidfile     \* runtime/pids/ue5-<map>-p<slot>.pid

storeVars == <<heap, base, calls>>
instVars  == <<keyOf, slotOf, phase, recycling, capturing, cap, st, victim>>
backVars  == <<failures, held>>
lockVars  == <<holder, target, left>>
tickVars  == <<todo, listed, reaped>>
procVars  == <<launching, proc, pidfile>>
vars == <<storeVars, instVars, used, draining, backVars, ledger, lockVars,
          tickVars, procVars>>

(***************************************************************************)
(* Phases. An instance is listed while it is in Spawner.instances: spawned *)
(* until spawnOne has persisted it, then tracked. scaleDown and Recycle    *)
(* take it off the list (removed until the shorter ledger is on disk);     *)
(* teardown waits for pidReady, kills, and releases the slot. A teardown   *)
(* that could not kill has failed, and its slot is stuck for good.         *)
(***************************************************************************)
Listed   == {"spawned", "tracked"}
Draining == {"removed", "waiting", "killing", "released", "failed"}
Holding  == Listed \cup {"removed", "waiting", "killing", "failed", "stuck"}
Phases   == {"none"} \cup Listed \cup Draining \cup {"stuck"}

Tracked(k) == {i \in Ids : keyOf[i] = k /\ phase[i] \in Listed}
Current(k) == Cardinality(Tracked(k))
Live(i)    == proc[i] # "none"

\* aliveAs and SameProcess look at the leader of the group only.
AliveAs(p) == p # NoId /\ proc[p] = "up"

Entry(i) == [id |-> i, pid |-> cap[i], st |-> st[i]]
\* Broken form for LedgerSound: persist() misses the instance just appended.
SnapshotBeforeAppend == {Entry(i) : i \in {j \in Ids : phase[j] = "tracked"}}

\* What persist() writes: every instance on the lists.
Snapshot == {Entry(i) : i \in {j \in Ids : phase[j] \in Listed}}
Entries  == [id : Ids, pid : Pids, st : BOOLEAN]

\* Nothing refers to the id any more, so a new spawn may be given it.
Fresh(i) ==
    /\ phase[i] = "none" /\ i \notin capturing
    /\ ~launching[i] /\ proc[i] = "none"
    /\ \A k \in Keys, s \in Slots : pidfile[k][s] # i
    /\ \A j \in Ids : cap[j] # i /\ victim[j] # i
    /\ \A e \in ledger : e.id # i /\ e.pid # i

NoSpawnUnsaved == \A i \in Ids : phase[i] # "spawned"

-----------------------------------------------------------------------------
(***************************************************************************)
(* The store, as far as the spawner sees it.                               *)
(***************************************************************************)

Call(k, b, n) == [key |-> k, spec |-> b, want |-> n]
Calls == [key : Keys, spec : Specs, want : Replicas]

\* A spec map nobody holds: not the stored one, not one of a pending call or of
\* the tick's list.
Unused(k, b) ==
    /\ b # base[k]
    /\ \A c \in calls : c.key = k => c.spec # b
    /\ holder = "tick" => listed[k] # b

\* Store.Patch merges into the stored map in place, so earlier readers of that
\* map see the new value; a change calls OnSpecChange.
Patch(k, n) ==
    /\ "patch" \in Writers
    /\ base[k] # NoSpec /\ heap[k][base[k]] # n
    /\ heap' = [heap EXCEPT ![k][base[k]] = n]
    /\ calls' = calls \cup {Call(k, base[k], n)}
    /\ UNCHANGED <<base, instVars, used, draining, backVars, ledger, lockVars,
                   tickVars, procVars>>

\* ScaleUpTo (only ever to one replica) and ScaleToZero store a copy of the map
\* and call OnSpecChange with that copy.
Scale(k, n) ==
    /\ "scale" \in Writers
    /\ base[k] # NoSpec
    /\ \/ n = 1 /\ heap[k][base[k]] < 1
       \/ n = 0 /\ heap[k][base[k]] # 0
    /\ \E b \in Specs :
        /\ Unused(k, b)
        /\ base' = [base EXCEPT ![k] = b]
        /\ heap' = [heap EXCEPT ![k][b] = n]
        /\ calls' = calls \cup {Call(k, b, n)}
    /\ UNCHANGED <<instVars, used, draining, backVars, ledger, lockVars,
                   tickVars, procVars>>

\* Store.Create, then OnSpecChange for the new object.
Create(k, n) ==
    /\ base[k] = NoSpec
    /\ \E b \in Specs :
        /\ Unused(k, b)
        /\ base' = [base EXCEPT ![k] = b]
        /\ heap' = [heap EXCEPT ![k][b] = n]
        /\ calls' = calls \cup {Call(k, b, n)}

\* A client creates an object over HTTP.
CreateObject(k, n) ==
    /\ "delete" \in Writers
    /\ Create(k, n)
    /\ UNCHANGED <<instVars, used, draining, backVars, ledger, lockVars,
                   tickVars, procVars>>

\* Store.Delete tells the watchers but not the spawner.
Delete(k) ==
    /\ "delete" \in Writers
    /\ base[k] # NoSpec
    /\ base' = [base EXCEPT ![k] = NoSpec]
    /\ UNCHANGED <<heap, calls, instVars, used, draining, backVars, ledger,
                   lockVars, tickVars, procVars>>

-----------------------------------------------------------------------------
(***************************************************************************)
(* Spawning, always under reconcileMu.                                     *)
(***************************************************************************)

\* Broken form for NoOverlap: spawn without asking whether the key drains.
ReconcileWhileDraining(who, otherwise, k, want, d) ==
    IF want > Current(k)
    THEN holder' = who /\ target' = k /\ left' = want - Current(k)
    ELSE holder' = otherwise /\ UNCHANGED <<target, left>>

\* Broken form for NotOverspawned: spawn as many as are wanted, not as are missing.
ReconcileAll(who, otherwise, k, want, d) ==
    IF want > Current(k) /\ d = 0
    THEN holder' = who /\ target' = k /\ left' = want
    ELSE holder' = otherwise /\ UNCHANGED <<target, left>>

\* reconcileUpLocked without its backoff test: take the lock as `who` to spawn
\* what is missing, or go on to `otherwise`. d is the draining count it reads.
ReconcileUp(who, otherwise, k, want, d) ==
    IF want > Current(k) /\ d = 0
    THEN holder' = who /\ target' = k /\ left' = want - Current(k)
    ELSE holder' = otherwise /\ UNCHANGED <<target, left>>

LowestFree(s) == s \in Slots \ used /\ \A t \in Slots \ used : s <= t

\* spawnOne up to the append: Acquire the lowest free slot and start the launcher.
SpawnOne(i) ==
    /\ left > 0 /\ NoSpawnUnsaved
    /\ Fresh(i)
    /\ \E s \in Slots :
        /\ LowestFree(s)
        /\ used' = used \cup {s}
        /\ slotOf' = [slotOf EXCEPT ![i] = s]
    /\ keyOf' = [keyOf EXCEPT ![i] = target]
    /\ phase' = [phase EXCEPT ![i] = "spawned"]
    /\ capturing' = capturing \cup {i}
    /\ launching' = [launching EXCEPT ![i] = TRUE]
    /\ left' = left - 1
    /\ UNCHANGED <<storeVars, recycling, cap, st, victim, draining, backVars,
                   ledger, holder, target, tickVars, proc, pidfile>>

\* The rest of spawnOne: persist.
PersistSpawn(i) ==
    /\ phase[i] = "spawned"
    /\ phase' = [phase EXCEPT ![i] = "tracked"]
    /\ ledger' = Snapshot
    /\ UNCHANGED <<storeVars, keyOf, slotOf, recycling, capturing, cap, st, victim,
                   used, draining, backVars, lockVars, tickVars, procVars>>

\* spawnOne on an exhausted pool, or when cmd.Start fails (the machine has no
\* process left) and the slot is given back; its caller goes on with the next
\* replica.
SpawnFails ==
    /\ left > 0 /\ NoSpawnUnsaved
    /\ \/ used = Slots
       \/ \A i \in Ids : ~Fresh(i)
       \/ "start" \in Faults
    /\ left' = left - 1
    /\ UNCHANGED <<storeVars, instVars, used, draining, backVars, ledger, holder,
                   target, tickVars, procVars>>

\* OnSpecChange or Recycle is done spawning and unlocks reconcileMu.
EndUp ==
    /\ holder \in {"spec", "recycle"} /\ left = 0 /\ NoSpawnUnsaved
    /\ holder' = "none"
    /\ UNCHANGED <<storeVars, instVars, used, draining, backVars, ledger, target,
                   left, tickVars, procVars>>

-----------------------------------------------------------------------------
(***************************************************************************)
(* OnSpecChange.                                                           *)
(***************************************************************************)

\* scaleDown up to its persist. The code keeps the entries at the front of the
\* list; the order of a list is abstracted, so any `want` of them may stay.
ScaleDown(k, want) ==
    /\ want < Current(k)
    /\ \E keep \in SUBSET Tracked(k) :
        /\ Cardinality(keep) = want
        /\ phase' = [i \in Ids |-> IF i \in Tracked(k) \ keep THEN "removed"
                                                              ELSE phase[i]]
    /\ draining' = [draining EXCEPT ![k] = @ + (Current(k) - want)]
    /\ holder' = "down" /\ UNCHANGED <<target, left>>

\* OnSpecChange decides with the replicas its object had when it was called
\* (c.want), but reconcileUpLocked reads the map again.
OnSpecChange(c) ==
    /\ holder = "none" /\ c \in calls
    /\ calls' = calls \ {c}
    /\ \/ ScaleDown(c.key, c.want)
       \/ /\ c.want > Current(c.key)
          /\ ReconcileUp("spec", "none", c.key, heap[c.key][c.spec],
                         draining[c.key])
          /\ UNCHANGED <<phase, draining>>
       \/ /\ c.want = Current(c.key)
          /\ UNCHANGED <<lockVars, phase, draining>>
    /\ UNCHANGED <<heap, base, keyOf, slotOf, recycling, capturing, cap, st, victim,
                   used, backVars, ledger, tickVars, procVars>>

\* The rest of scaleDown: persist, start the teardown goroutines, unlock.
PersistScaleDown ==
    /\ holder = "down"
    /\ ledger' = Snapshot
    /\ phase' = [i \in Ids |-> IF phase[i] = "removed" /\ ~recycling[i]
                               THEN "waiting" ELSE phase[i]]
    /\ holder' = "none"
    /\ UNCHANGED <<storeVars, keyOf, slotOf, recycling, capturing, cap, st, victim,
                   used, draining, backVars, target, left, tickVars, procVars>>

-----------------------------------------------------------------------------
(***************************************************************************)
(* The reconcile loop.                                                     *)
(***************************************************************************)

\* Broken form for WantedRuns: a phantom is never reaped.
DeadWithPid(i) ==
    phase[i] = "tracked" /\ cap[i] # NoId /\ ~AliveAs(cap[i])

\* sweep's classification: the recorded process is gone, or the wait for the
\* pidfile ended without one (a phantom).
Dead(i) ==
    /\ phase[i] = "tracked"
    /\ IF cap[i] # NoId THEN ~AliveAs(cap[i]) ELSE i \notin capturing

DeadIds == {i \in Ids : Dead(i)}

\* sweep. Its probe, classification and removal are one step: whoever removes an
\* instance needs reconcileMu, and what was dead stays dead.
Sweep ==
    /\ holder = "none"
    /\ holder' = IF DeadIds = {} THEN "tick" ELSE "sweep"
    /\ phase' = [i \in Ids |-> IF i \in DeadIds THEN "none" ELSE phase[i]]
    /\ cap'   = [i \in Ids |-> IF i \in DeadIds THEN NoId ELSE cap[i]]
    /\ st'    = [i \in Ids |-> IF i \in DeadIds THEN FALSE ELSE st[i]]
    /\ used'  = used \ {slotOf[i] : i \in DeadIds}
    /\ pidfile' = [k \in Keys |-> [s \in Slots |->
            IF \E i \in DeadIds : keyOf[i] = k /\ slotOf[i] = s
            THEN NoId ELSE pidfile[k][s]]]
    /\ reaped' = {keyOf[i] : i \in DeadIds}
    /\ failures' = [k \in Keys |-> IF k \in reaped' THEN
                        (IF failures[k] = 0 THEN 1 ELSE 2) ELSE failures[k]]
    /\ held' = [k \in Keys |-> IF k \in reaped' THEN failures[k] > 0 ELSE held[k]]
    /\ listed' = base /\ todo' = {k \in Keys : base[k] # NoSpec}
    /\ UNCHANGED <<storeVars, keyOf, slotOf, recycling, capturing, victim, draining,
                   ledger, target, left, launching, proc>>

\* sweep's persist, then store.List.
PersistSweep ==
    /\ holder = "sweep"
    /\ ledger' = Snapshot
    /\ holder' = "tick"
    /\ listed' = base /\ todo' = {k \in Keys : base[k] # NoSpec}
    /\ UNCHANGED <<storeVars, instVars, used, draining, backVars, target, left,
                   reaped, procVars>>

\* The tick comes to k: spawn what is missing unless k drains or backs off, or
\* forget its failures once it survived a tick. (The code does the forgetting
\* after the last key; no list changes in between but those it spawned for.)
TickKey(k) ==
    /\ holder = "tick" /\ left = 0 /\ NoSpawnUnsaved
    /\ k \in todo
    /\ todo' = todo \ {k}
    /\ LET want == heap[k][listed[k]] IN
       /\ IF held[k] THEN UNCHANGED lockVars
                     ELSE ReconcileUp("tick", "tick", k, want, draining[k])
       /\ failures' = [failures EXCEPT ![k] =
            IF k \notin reaped /\ want > 0 /\ Current(k) >= want THEN 0 ELSE @]
       /\ held' = [held EXCEPT ![k] = @ /\ failures'[k] > 0]
    /\ UNCHANGED <<storeVars, instVars, used, draining, ledger, listed, reaped,
                   procVars>>

\* The tick unlocks reconcileMu.
TickEnd ==
    /\ holder = "tick" /\ left = 0 /\ NoSpawnUnsaved /\ todo = {}
    /\ holder' = "none" /\ reaped' = {}
    /\ UNCHANGED <<storeVars, instVars, used, draining, backVars, ledger, target,
                   left, todo, listed, procVars>>

\* nextRetry passes.
BackoffExpires(k) ==
    /\ held[k]
    /\ held' = [held EXCEPT ![k] = FALSE]
    /\ UNCHANGED <<storeVars, instVars, used, draining, failures, ledger, lockVars,
                   tickVars, procVars>>

-----------------------------------------------------------------------------
(***************************************************************************)
(* capturePID.                                                             *)
(***************************************************************************)

\* It reads the pidfile of its key and slot, records the pid on whichever listed
\* instance of the key has that slot, persists, and closes pidReady.
Capture(i) ==
    LET pid == pidfile[keyOf[i]][slotOf[i]]
        matching == {j \in Tracked(keyOf[i]) : slotOf[j] = slotOf[i]}
    IN
    /\ i \in capturing /\ phase[i] # "spawned"
    /\ pid # NoId
    /\ capturing' = capturing \ {i}
    /\ cap' = [j \in Ids |-> IF j \in matching THEN pid ELSE cap[j]]
    /\ st'  = [j \in Ids |-> IF j \in matching THEN proc[pid] = "up" ELSE st[j]]
    /\ UNCHANGED phase
    /\ ledger' = IF matching = {} THEN ledger ELSE Snapshot'
    /\ UNCHANGED <<storeVars, keyOf, slotOf, recycling, victim, used,
                   draining, backVars, lockVars, tickVars, procVars>>

\* It gives up: the launcher is gone and left no pidfile, or the hard cap passed
\* with the launcher still at work.
CaptureTimeout(i) ==
    /\ i \in capturing /\ phase[i] # "spawned"
    /\ pidfile[keyOf[i]][slotOf[i]] = NoId
    /\ ~launching[i] \/ "slow" \in Faults
    /\ capturing' = capturing \ {i}
    /\ UNCHANGED <<storeVars, keyOf, slotOf, phase, recycling, cap, st, victim,
                   used, draining, backVars, ledger, lockVars, tickVars, procVars>>

-----------------------------------------------------------------------------
(***************************************************************************)
(* teardown.                                                               *)
(***************************************************************************)

\* Broken form for SafeInv: teardown does not wait for pidReady.
NoWait(i) == phase[i] = "waiting"

\* teardown has waited for pidReady, or for 22 s.
WaitOver(i) ==
    /\ phase[i] = "waiting"
    /\ i \notin capturing \/ ~launching[i] \/ "slow" \in Faults

\* Broken form for NoOrphan: teardown does not read the pidfile again.
RecordedPid(i) == cap[i]

\* The pid it acts on: the pidfile's, else the one recorded.
PidOf(i) == IF pidfile[keyOf[i]][slotOf[i]] # NoId
            THEN pidfile[keyOf[i]][slotOf[i]] ELSE cap[i]

\* inst.StartTime != 0 && !SameProcess(pid, inst.StartTime)
NotRecorded(i) == st[i] /\ ~(PidOf(i) = cap[i] /\ AliveAs(PidOf(i)))

\* Broken form for Converges: with nothing to kill, teardown returns at once.
TeardownNothingReturns(i) ==
    /\ WaitOver(i)
    /\ PidOf(i) = NoId \/ NotRecorded(i)
    /\ pidfile' = [pidfile EXCEPT ![keyOf[i]][slotOf[i]] = NoId]
    /\ phase' = [phase EXCEPT ![i] = "released"]
    /\ UNCHANGED <<storeVars, keyOf, slotOf, recycling, capturing, cap, st, victim,
                   used, draining, backVars, ledger, lockVars, tickVars, launching,
                   proc>>

\* Nothing to kill: no pid at all, or not the recorded process any more.
TeardownNothing(i) ==
    /\ WaitOver(i)
    /\ PidOf(i) = NoId \/ NotRecorded(i)
    /\ pidfile' = [pidfile EXCEPT ![keyOf[i]][slotOf[i]] = NoId]
    /\ used' = used \ {slotOf[i]}
    /\ phase' = [phase EXCEPT ![i] = "released"]
    /\ UNCHANGED <<storeVars, keyOf, slotOf, recycling, capturing, cap, st, victim,
                   draining, backVars, ledger, lockVars, tickVars, launching, proc>>

\* proc.Terminate sends SIGTERM to the group: the sh wrapper, its leader, dies at
\* once and the UE5 binary goes into PreShutdown.
TeardownSignal(i) ==
    /\ WaitOver(i)
    /\ PidOf(i) # NoId /\ ~NotRecorded(i)
    /\ victim' = [victim EXCEPT ![i] = PidOf(i)]
    /\ proc' = [proc EXCEPT ![PidOf(i)] = IF @ = "up" THEN "lingering" ELSE @]
    /\ phase' = [phase EXCEPT ![i] = "killing"]
    /\ UNCHANGED <<storeVars, keyOf, slotOf, recycling, capturing, cap, st, used,
                   draining, backVars, ledger, lockVars, tickVars, launching,
                   pidfile>>

\* Broken form for MapsApart: the pidfile stays behind for the next on the slot.
TeardownKeepsPidfile(i) ==
    /\ phase[i] = "killing" /\ ~Live(victim[i])
    /\ used' = used \ {slotOf[i]}
    /\ phase' = [phase EXCEPT ![i] = "released"]
    /\ victim' = [victim EXCEPT ![i] = NoId]
    /\ UNCHANGED <<storeVars, keyOf, slotOf, recycling, capturing, cap, st,
                   draining, backVars, ledger, lockVars, tickVars, procVars>>

\* The whole group is gone: drop the pidfile and release the slot.
TeardownKilled(i) ==
    /\ phase[i] = "killing" /\ ~Live(victim[i])
    /\ pidfile' = [pidfile EXCEPT ![keyOf[i]][slotOf[i]] = NoId]
    /\ used' = used \ {slotOf[i]}
    /\ phase' = [phase EXCEPT ![i] = "released"]
    /\ victim' = [victim EXCEPT ![i] = NoId]
    /\ UNCHANGED <<storeVars, keyOf, slotOf, recycling, capturing, cap, st,
                   draining, backVars, ledger, lockVars, tickVars, launching, proc>>

\* Something in the group is still there 2 s after SIGKILL: keep the slot.
TeardownFails(i) ==
    /\ "kill" \in Faults
    /\ phase[i] = "killing" /\ Live(victim[i])
    /\ phase' = [phase EXCEPT ![i] = "failed"]
    /\ victim' = [victim EXCEPT ![i] = NoId]
    /\ UNCHANGED <<storeVars, keyOf, slotOf, recycling, capturing, cap, st, used,
                   draining, backVars, ledger, lockVars, tickVars, procVars>>

\* The end of a scale-down but for the draining count.
FinishScaleDownBut(i) ==
    /\ phase[i] \in {"released", "failed"} /\ ~recycling[i]
    /\ phase' = [phase EXCEPT ![i] = IF @ = "failed" THEN "stuck" ELSE "none"]
    /\ cap' = [cap EXCEPT ![i] = NoId]
    /\ st' = [st EXCEPT ![i] = FALSE]
    /\ ledger' = IF phase[i] = "released" THEN Snapshot' ELSE ledger
    /\ UNCHANGED <<storeVars, keyOf, slotOf, recycling, capturing, victim, used,
                   backVars, lockVars, tickVars, procVars>>

\* Broken form for DrainsEnd: finishDrainingLocked is not called.
FinishNoDrain(i) == FinishScaleDownBut(i) /\ UNCHANGED draining

\* The rest of a scale-down's goroutine: persist, then finishDrainingLocked. It
\* does so whether teardown succeeded or not.
FinishScaleDown(i) ==
    /\ phase[i] \in {"released", "failed"} /\ ~recycling[i]
    /\ phase' = [phase EXCEPT ![i] = IF @ = "failed" THEN "stuck" ELSE "none"]
    /\ cap' = [cap EXCEPT ![i] = NoId]
    /\ st' = [st EXCEPT ![i] = FALSE]
    /\ draining' = [draining EXCEPT ![keyOf[i]] = @ - 1]
    /\ ledger' = IF phase[i] = "released" THEN Snapshot' ELSE ledger
    /\ UNCHANGED <<storeVars, keyOf, slotOf, recycling, capturing, victim, used,
                   backVars, lockVars, tickVars, procVars>>

-----------------------------------------------------------------------------
(***************************************************************************)
(* Recycle, called by one watcher goroutine.                               *)
(***************************************************************************)

\* It refuses an instance without a pid; otherwise takes it off the list.
Recycle(i) ==
    /\ holder = "none"
    /\ \A j \in Ids : ~recycling[j]
    /\ phase[i] = "tracked" /\ cap[i] # NoId
    /\ phase' = [phase EXCEPT ![i] = "removed"]
    /\ recycling' = [recycling EXCEPT ![i] = TRUE]
    /\ draining' = [draining EXCEPT ![keyOf[i]] = @ + 1]
    /\ UNCHANGED <<storeVars, keyOf, slotOf, capturing, cap, st, victim, used,
                   backVars, ledger, lockVars, tickVars, procVars>>

\* It persists outside reconcileMu, then calls teardown.
PersistRecycle(i) ==
    /\ phase[i] = "removed" /\ recycling[i]
    /\ phase' = [phase EXCEPT ![i] = "waiting"]
    /\ ledger' = Snapshot
    /\ UNCHANGED <<storeVars, keyOf, slotOf, recycling, capturing, cap, st, victim,
                   used, draining, backVars, lockVars, tickVars, procVars>>

\* teardown's persist, then under reconcileMu: finish draining and start the
\* replacement, unless the object is gone.
RecycleDone(i) ==
    /\ holder = "none"
    /\ phase[i] = "released" /\ recycling[i]
    /\ phase' = [phase EXCEPT ![i] = "none"]
    /\ cap' = [cap EXCEPT ![i] = NoId]
    /\ st' = [st EXCEPT ![i] = FALSE]
    /\ recycling' = [recycling EXCEPT ![i] = FALSE]
    /\ draining' = [draining EXCEPT ![keyOf[i]] = @ - 1]
    /\ ledger' = Snapshot'
    /\ IF base[keyOf[i]] = NoSpec THEN UNCHANGED lockVars
       ELSE ReconcileUp("recycle", "none", keyOf[i],
                        heap[keyOf[i]][base[keyOf[i]]], draining[keyOf[i]] - 1)
    /\ UNCHANGED <<storeVars, keyOf, slotOf, capturing, victim, used, backVars,
                   tickVars, procVars>>

\* Broken form for CountsInv: the failed recycle leaves its key draining.
RecycleKeptDraining(i) ==
    /\ holder = "none"
    /\ phase[i] = "failed" /\ recycling[i]
    /\ phase' = [phase EXCEPT ![i] = "tracked"]
    /\ recycling' = [recycling EXCEPT ![i] = FALSE]
    /\ UNCHANGED <<cap, st>>
    /\ ledger' = Snapshot'
    /\ UNCHANGED <<storeVars, keyOf, slotOf, capturing, victim, used, draining,
                   backVars, lockVars, tickVars, procVars>>

\* The process would not die: track it again as it was recorded.
RecycleKept(i) ==
    /\ holder = "none"
    /\ phase[i] = "failed" /\ recycling[i]
    /\ phase' = [phase EXCEPT ![i] = "tracked"]
    /\ recycling' = [recycling EXCEPT ![i] = FALSE]
    /\ draining' = [draining EXCEPT ![keyOf[i]] = @ - 1]
    /\ UNCHANGED <<cap, st>>
    /\ ledger' = Snapshot'
    /\ UNCHANGED <<storeVars, keyOf, slotOf, capturing, victim, used, backVars,
                   lockVars, tickVars, procVars>>

-----------------------------------------------------------------------------
(***************************************************************************)
(* Launchers and UE5 processes.                                            *)
(***************************************************************************)

\* launch_bg: setsid the server and write its pid at once. The launcher then
\* only waits for the UDP bind.
Launch(i) ==
    /\ launching[i]
    /\ launching' = [launching EXCEPT ![i] = FALSE]
    /\ proc' = [proc EXCEPT ![i] = "up"]
    /\ pidfile' = [pidfile EXCEPT ![keyOf[i]][slotOf[i]] = i]
    /\ UNCHANGED <<storeVars, instVars, used, draining, backVars, ledger, lockVars,
                   tickVars>>

\* start-ue5.sh dies before launch_bg (no env file, no server binary).
LaunchFails(i) ==
    /\ "launch" \in Faults
    /\ launching[i]
    /\ launching' = [launching EXCEPT ![i] = FALSE]
    /\ UNCHANGED <<storeVars, instVars, used, draining, backVars, ledger, lockVars,
                   tickVars, proc, pidfile>>

\* A running server crashes, or exits by itself; its wrapper returns with it.
Crash(i) ==
    /\ "crash" \in Faults
    /\ proc[i] = "up"
    /\ proc' = [proc EXCEPT ![i] = "none"]
    /\ UNCHANGED <<storeVars, instVars, used, draining, backVars, ledger, lockVars,
                   tickVars, launching, pidfile>>

\* A signalled server leaves PreShutdown, or SIGKILL takes effect.
Exit(i) ==
    /\ proc[i] = "lingering"
    /\ proc' = [proc EXCEPT ![i] = "none"]
    /\ UNCHANGED <<storeVars, instVars, used, draining, backVars, ledger, lockVars,
                   tickVars, launching, pidfile>>

-----------------------------------------------------------------------------
Init ==
    /\ heap = [k \in Keys |-> [b \in Specs |-> 0]]
    /\ base = [k \in Keys |-> CHOOSE b \in Specs : TRUE]
    /\ calls = {}
    /\ keyOf = [i \in Ids |-> CHOOSE k \in Keys : TRUE]
    /\ slotOf = [i \in Ids |-> 0]
    /\ phase = [i \in Ids |-> "none"]
    /\ recycling = [i \in Ids |-> FALSE]
    /\ capturing = {}
    /\ cap = [i \in Ids |-> NoId]
    /\ st = [i \in Ids |-> FALSE]
    /\ victim = [i \in Ids |-> NoId]
    /\ used = {}
    /\ draining = [k \in Keys |-> 0]
    /\ failures = [k \in Keys |-> 0]
    /\ held = [k \in Keys |-> FALSE]
    /\ ledger = {}
    /\ holder = "none" /\ target = (CHOOSE k \in Keys : TRUE) /\ left = 0
    /\ todo = {} /\ listed = base /\ reaped = {}
    /\ launching = [i \in Ids |-> FALSE]
    /\ proc = [i \in Ids |-> "none"]
    /\ pidfile = [k \in Keys |-> [s \in Slots |-> NoId]]

\* One step of a spec writer, of the holder of reconcileMu, of an instance's own
\* goroutines, of the world outside.
Write ==
    \E k \in Keys :
        \/ \E n \in Replicas : Patch(k, n) \/ Scale(k, n) \/ CreateObject(k, n)
        \/ Delete(k)

Locked ==
    \/ \E i \in Ids : SpawnOne(i) \/ PersistSpawn(i)
    \/ SpawnFails
    \/ EndUp
    \/ PersistScaleDown
    \/ PersistSweep
    \/ \E k \in Keys : TickKey(k)
    \/ TickEnd

Changes == \E c \in calls : OnSpecChange(c)

Goroutine(i) ==
    \/ Capture(i) \/ CaptureTimeout(i)
    \/ PersistRecycle(i)
    \/ TeardownNothing(i) \/ TeardownSignal(i) \/ TeardownKilled(i)
    \/ FinishScaleDown(i)

Recycled(i) == RecycleDone(i) \/ RecycleKept(i)

Environment ==
    \E i \in Ids : Launch(i) \/ LaunchFails(i) \/ Crash(i) \/ Exit(i)

SpawnerNext ==
    \/ Write \/ Changes \/ Locked \/ Sweep
    \/ \E i \in Ids : Goroutine(i) \/ TeardownFails(i) \/ Recycle(i) \/ Recycled(i)
    \/ \E k \in Keys : BackoffExpires(k)

Next == SpawnerNext \/ Environment

Spec == Init /\ [][Next]_vars

(***************************************************************************)
(* Fairness. Goroutines run; the ticker keeps firing; Go's mutex hands the *)
(* lock to a goroutine that has waited for it, hence strong fairness for   *)
(* what begins by locking reconcileMu; a launcher goes on to launch_bg and *)
(* a signalled server exits (the escalation to SIGKILL sees to it). Nobody *)
(* has to write specs, recycle, crash, or fail.                            *)
(***************************************************************************)
Fairness ==
    /\ WF_vars(Locked)
    /\ SF_vars(Sweep)
    /\ \A c \in Calls : SF_vars(OnSpecChange(c))
    /\ \A i \in Ids : /\ SF_vars(Recycled(i)) /\ WF_vars(Goroutine(i))
                      /\ WF_vars(Launch(i)) /\ WF_vars(Exit(i))
    /\ \A k \in Keys : WF_vars(BackoffExpires(k))

FairSpec == Spec /\ Fairness

-----------------------------------------------------------------------------
(***************************************************************************)
(* Properties.                                                             *)
(***************************************************************************)

\* The types of the variables.
TypeOK ==
    /\ heap \in [Keys -> [Specs -> Replicas]]
    /\ base \in [Keys -> Specs \cup {NoSpec}]
    /\ calls \subseteq Calls
    /\ keyOf \in [Ids -> Keys] /\ slotOf \in [Ids -> Slots]
    /\ phase \in [Ids -> Phases]
    /\ recycling \in [Ids -> BOOLEAN]
    /\ capturing \subseteq Ids
    /\ cap \in [Ids -> Pids] /\ st \in [Ids -> BOOLEAN]
    /\ victim \in [Ids -> Pids]
    /\ used \subseteq Slots
    /\ draining \in [Keys -> Nat]
    /\ failures \in [Keys -> 0 .. 2] /\ held \in [Keys -> BOOLEAN]
    /\ ledger \subseteq Entries
    /\ holder \in {"none", "spec", "down", "sweep", "tick", "recycle"}
    /\ target \in Keys /\ left \in Replicas
    /\ todo \subseteq Keys /\ reaped \subseteq Keys
    /\ listed \in [Keys -> Specs \cup {NoSpec}]
    /\ launching \in [Ids -> BOOLEAN]
    /\ proc \in [Ids -> {"none", "up", "lingering"}]
    /\ pidfile \in [Keys -> [Slots -> Pids]]

\* A server that runs, or that a launcher is about to start.
Present(i) == Live(i) \/ launching[i]

\* No two servers are ever on the same game and IGW ports: a slot is only given
\* out again once the whole process group that had it is gone (teardown's "release
\* the slot only now that the port is actually free", sweep's reaping, spawnOne).
PortExclusive ==
    \A i, j \in Ids : i # j /\ Present(i) /\ Present(j) => slotOf[i] # slotOf[j]

\* The pool's used slots are exactly those of the instances that hold one, and no
\* two hold the same: no path through spawnOne, sweep, teardown and Recycle leaks
\* a slot, frees it twice, or frees it under somebody else.
PoolAccounts ==
    /\ used = {slotOf[i] : i \in {j \in Ids : phase[j] \in Holding}}
    /\ \A i, j \in Ids : i # j /\ phase[i] \in Holding /\ phase[j] \in Holding
                          => slotOf[i] # slotOf[j]

\* Every server is somebody's responsibility: it is on a list or some goroutine is
\* bringing it down. Nothing runs that no later step would stop.
NoOrphan == \A i \in Ids : Present(i) => phase[i] \in Holding

DrainingIds(k) == {i \in Ids : keyOf[i] = k /\ phase[i] \in Draining}

\* The draining counter of a key counts the instances being brought down for it,
\* so reconcileUpLocked's `draining > 0` is the test it is meant to be.
DrainingCounts == \A k \in Keys : draining[k] = Cardinality(DrainingIds(k))

\* A new server is never started for a map while one that was taken off its list
\* is still running: the two would share the map's partition.
NoOverlap ==
    [][\A i \in Ids : phase'[i] = "spawned" /\ phase[i] # "spawned" =>
          \A j \in Ids : keyOf[j] = keyOf'[i] /\ Present(j)
                            => phase[j] \in Listed]_vars

\* A key never has more instances listed than the largest replicas ever written.
NotOverspawned == \A k \in Keys : Current(k) <= MaxReplicas

\* Every tracked instance is in the ledger, whatever order the persists of its
\* spawn, of other instances' scale-downs and of recycles came in: a restart finds
\* it there.
LedgerCovers ==
    \A i \in Ids : phase[i] = "tracked" => \E e \in ledger : e.id = i

\* The ledger never names two instances on one slot, so that Restore's
\* AcquireSpecific cannot fail between two of its entries.
LedgerSlotsDistinct ==
    \A e, f \in ledger : e.id # f.id => slotOf[e.id] # slotOf[f.id]

\* Both: what a restart needs of the ledger.
LedgerSound == LedgerCovers /\ LedgerSlotsDistinct

\* What a teardown signals is the process its own instance started, never the one
\* that has since been started on the same slot.
OwnVictim == \A i \in Ids : victim[i] \in {i, NoId}

\* If the desired replicas of a key settle, the number of listed instances keeps
\* coming back to it.
Converges ==
    \A k \in Keys : \A n \in Replicas :
        <>[](base[k] # NoSpec /\ heap[k][base[k]] = n) => []<>(Current(k) = n)

\* A map that stays wanted keeps getting a server that runs, through crashes,
\* backoff, drains and recycles, once its launchers stop failing.
WantedRuns ==
    \A k \in Keys :
        /\ <>[](base[k] # NoSpec /\ heap[k][base[k]] > 0)
        /\ <>[][\A i \in Ids : ~LaunchFails(i)]_vars
        => []<>(\E i \in Tracked(k) : proc[i] = "up")

\* A server that was taken off its list goes away, and the key stops draining.
DrainsEnd == \A k \in Keys : draining[k] > 0 ~> draining[k] = 0

(***************************************************************************)
(* The inductive invariant behind the safety properties, while no process  *)
(* survives its SIGKILL and no launcher outlives the hard cap (Healthy).   *)
(***************************************************************************)
Healthy == "kill" \notin Faults /\ "slow" \notin Faults

\* Between spawnOne and its release an instance owns one process, knows it by its
\* own pid only, and its pidfile names it while it runs.
InstancesOK ==
    \A i \in Ids :
        /\ phase[i] \notin {"failed", "stuck"}
        /\ Present(i) => phase[i] \in Holding
        /\ launching[i] => proc[i] = "none" /\ i \in capturing /\ phase[i] # "killing"
        /\ proc[i] = "lingering" => phase[i] = "killing"
        /\ proc[i] = "up" => pidfile[keyOf[i]][slotOf[i]] = i
        /\ cap[i] \in {i, NoId}
        /\ cap[i] = i => ~launching[i]
        /\ st[i] => cap[i] = i
        /\ victim[i] = IF phase[i] = "killing" THEN i ELSE NoId
        /\ phase[i] \in Listed /\ i \notin capturing /\ cap[i] = NoId => proc[i] = "none"

\* A pidfile names an instance that holds the file's slot for the file's map.
PidfilesOK ==
    \A k \in Keys, s \in Slots : \A i \in Ids : pidfile[k][s] = i =>
        phase[i] \in Holding /\ keyOf[i] = k /\ slotOf[i] = s /\ ~launching[i]

\* Whoever spawns holds reconcileMu and its key does not drain; the tick has the
\* objects it has yet to come to.
LockOK ==
    /\ left > 0 => holder \in {"spec", "tick", "recycle"} /\ draining[target] = 0
    /\ \A k \in todo : listed[k] # NoSpec

CountsInv == TypeOK /\ PoolAccounts /\ DrainingCounts /\ LockOK
SafeInv == CountsInv /\ InstancesOK /\ PidfilesOK
=============================================================================
