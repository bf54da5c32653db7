---------------------------- MODULE SpawnerProofs ----------------------------
(***************************************************************************)
(* What TLAPS proves of Spawner, and of SpawnerRestart, for every number   *)
(* of maps, slots, spawns, replicas and restarts. CountsInv is inductive   *)
(* under every fault. SafeInv adds what ties an instance to its process    *)
(* and its pidfile; it is inductive while no process survives its SIGKILL  *)
(* and no launcher outlives the hard cap of capturePID (Healthy), or over  *)
(* the steps in which that does not happen (HealthyNext). RestartCounts    *)
(* and QuietSafe carry the two over deaths, Restore and the boot.          *)
(***************************************************************************)
EXTENDS SpawnerRestart, MCSpawner, FiniteSetTheorems, TLAPS

USE ConstantsAssumption DEF ConstantsAssumption
USE DEF storeVars, instVars, backVars, lockVars, tickVars, procVars, Replicas, Pids,
        Phases, Holding, Listed, Draining

-----------------------------------------------------------------------------
(***************************************************************************)
(* Types.                                                                  *)
(***************************************************************************)

\* What persist() writes is a well-formed ledger.
LEMMA SnapshotType == ASSUME TypeOK PROVE Snapshot \subseteq Entries
  BY DEF TypeOK, Snapshot, Entry, Entries

\* The number of listed instances of a key is a natural number.
LEMMA CurrentType == ASSUME NEW k PROVE Current(k) \in Nat
  <1>1. IsFiniteSet(Tracked(k))
    BY FS_Subset DEF Tracked
  <1> QED
    BY <1>1, FS_CardinalityType DEF Current

\* A call for a key, a spec map and a replica count is a call.
LEMMA CallType == ASSUME NEW k \in Keys, NEW b \in Specs, NEW n \in Replicas
                  PROVE  Call(k, b, n) \in Calls
  BY DEF Call, Calls

\* Store.Patch keeps the types.
LEMMA PatchType == ASSUME TypeOK, NEW k \in Keys, NEW n \in Replicas, Patch(k, n) PROVE TypeOK'
  <1>1. heap' \in [Keys -> [Specs -> Replicas]]
    BY DEF TypeOK, Patch
  <1>2. calls' \subseteq Calls
    BY CallType DEF TypeOK, Patch
  <1> QED
    BY <1>1, <1>2 DEF TypeOK, Patch

\* ScaleUpTo and ScaleToZero keep the types.
LEMMA ScaleType == ASSUME TypeOK, NEW k \in Keys, NEW n \in Replicas, Scale(k, n) PROVE TypeOK'
  <1>1. PICK b \in Specs : /\ base' = [base EXCEPT ![k] = b]
                           /\ heap' = [heap EXCEPT ![k][b] = n]
                           /\ calls' = calls \cup {Call(k, b, n)}
    BY DEF Scale
  <1>2. heap' \in [Keys -> [Specs -> Replicas]]
    BY <1>1 DEF TypeOK
  <1>3. calls' \subseteq Calls /\ base' \in [Keys -> Specs \cup {NoSpec}]
    BY <1>1, CallType DEF TypeOK
  <1> QED
    BY <1>2, <1>3 DEF TypeOK, Scale

\* Store.Create keeps the types.
LEMMA CreateObjectType ==
  ASSUME TypeOK, NEW k \in Keys, NEW n \in Replicas, CreateObject(k, n) PROVE TypeOK'
  <1>1. PICK b \in Specs : /\ base' = [base EXCEPT ![k] = b]
                           /\ heap' = [heap EXCEPT ![k][b] = n]
                           /\ calls' = calls \cup {Call(k, b, n)}
    BY DEF CreateObject, Create
  <1>2. heap' \in [Keys -> [Specs -> Replicas]]
    BY <1>1 DEF TypeOK
  <1>3. calls' \subseteq Calls /\ base' \in [Keys -> Specs \cup {NoSpec}]
    BY <1>1, CallType DEF TypeOK
  <1> QED
    BY <1>2, <1>3 DEF TypeOK, CreateObject

\* reconcileUpLocked leaves a key to spawn for and a count in range.
LEMMA ReconcileUpType ==
  ASSUME TypeOK, NEW who, NEW otherwise, NEW k \in Keys, NEW want \in Replicas, NEW d,
         ReconcileUp(who, otherwise, k, want, d)
  PROVE  target' \in Keys /\ left' \in Replicas /\ holder' \in {who, otherwise}
  BY CurrentType DEF TypeOK, ReconcileUp

\* capturePID records a pid, so the types are kept.
LEMMA CaptureType == ASSUME TypeOK, NEW i \in Ids, Capture(i) PROVE TypeOK'
  <1>1. pidfile[keyOf[i]][slotOf[i]] \in Ids
    BY DEF TypeOK, Capture
  <1>2. cap' \in [Ids -> Pids] /\ st' \in [Ids -> BOOLEAN] /\ capturing' \subseteq Ids
    BY <1>1 DEF TypeOK, Capture
  <1>3. phase' = phase
    BY DEF Capture
  <1>4. ledger' \subseteq Entries
    <2>1. Snapshot' \subseteq Entries
      BY <1>2, <1>3 DEF TypeOK, Snapshot, Entry, Entries
    <2> QED
      BY <2>1 DEF TypeOK, Capture
  <1> QED
    BY <1>2, <1>3, <1>4 DEF TypeOK, Capture

\* The pid a teardown signals is a pid.
LEMMA TeardownSignalType == ASSUME TypeOK, NEW i \in Ids, TeardownSignal(i) PROVE TypeOK'
  <1>1. PidOf(i) \in Ids
    BY DEF TypeOK, TeardownSignal, PidOf
  <1>2. proc' \in [Ids -> {"none", "up", "lingering"}]
    BY <1>1 DEF TypeOK, TeardownSignal
  <1>3. victim' \in [Ids -> Pids] /\ phase' \in [Ids -> Phases]
    BY <1>1 DEF TypeOK, TeardownSignal
  <1> QED
    BY <1>2, <1>3 DEF TypeOK, TeardownSignal

\* Finitely many instances of a key are being brought down.
LEMMA DrainingFinite == ASSUME NEW k PROVE IsFiniteSet(DrainingIds(k))
  BY FS_Subset DEF DrainingIds

\* The counter of a key with an instance being brought down is positive, so
\* finishDrainingLocked never takes it below zero.
LEMMA DrainingPositive ==
  ASSUME DrainingCounts, NEW k \in Keys, NEW i \in DrainingIds(k)
  PROVE  draining[k] \in Nat \ {0}
  BY DrainingFinite, FS_EmptySet, FS_CardinalityType DEF DrainingCounts

\* The end of a scale-down keeps the types; its decrement stays a natural number.
LEMMA FinishScaleDownType ==
  ASSUME TypeOK, DrainingCounts, NEW i \in Ids, FinishScaleDown(i) PROVE TypeOK'
  <1>1. draining' \in [Keys -> Nat]
    <2>1. i \in DrainingIds(keyOf[i])
      BY DEF FinishScaleDown, DrainingIds
    <2>2. draining[keyOf[i]] \in Nat \ {0}
      BY <2>1, DrainingPositive DEF TypeOK
    <2>3. draining \in [Keys -> Nat] /\ keyOf[i] \in Keys
      BY DEF TypeOK
    <2>4. draining' = [draining EXCEPT ![keyOf[i]] = @ - 1]
      BY DEF FinishScaleDown
    <2> QED
      BY <2>2, <2>3, <2>4
  <1>2. phase' \in [Ids -> Phases] /\ cap' \in [Ids -> Pids] /\ st' \in [Ids -> BOOLEAN]
    BY DEF TypeOK, FinishScaleDown
  <1>3. ledger' \subseteq Entries
    <2>1. Snapshot' \subseteq Entries
      BY <1>2 DEF Snapshot, Entry, Entries
    <2> QED
      BY <2>1 DEF TypeOK, FinishScaleDown
  <1> QED
    BY <1>1, <1>2, <1>3 DEF TypeOK, FinishScaleDown

\* The end of a Recycle keeps the types.
LEMMA RecycleDoneType ==
  ASSUME TypeOK, DrainingCounts, NEW i \in Ids, RecycleDone(i) PROVE TypeOK'
  <1>1. draining' \in [Keys -> Nat]
    <2>1. i \in DrainingIds(keyOf[i])
      BY DEF RecycleDone, DrainingIds
    <2>2. draining[keyOf[i]] \in Nat \ {0}
      BY <2>1, DrainingPositive DEF TypeOK
    <2>3. draining \in [Keys -> Nat] /\ keyOf[i] \in Keys
      BY DEF TypeOK
    <2>4. draining' = [draining EXCEPT ![keyOf[i]] = @ - 1]
      BY DEF RecycleDone
    <2> QED
      BY <2>2, <2>3, <2>4
  <1>2. phase' \in [Ids -> Phases] /\ cap' \in [Ids -> Pids] /\ st' \in [Ids -> BOOLEAN]
        /\ recycling' \in [Ids -> BOOLEAN]
    BY DEF TypeOK, RecycleDone
  <1>3. ledger' \subseteq Entries
    <2>1. Snapshot' \subseteq Entries
      BY <1>2 DEF Snapshot, Entry, Entries
    <2> QED
      BY <2>1 DEF TypeOK, RecycleDone
  <1>4. target' \in Keys /\ left' \in Replicas
        /\ holder' \in {"none", "spec", "down", "sweep", "tick", "recycle"}
    <2> DEFINE k == keyOf[i]
    <2>1. CASE base[k] = NoSpec
      BY <2>1 DEF TypeOK, RecycleDone
    <2>2. CASE base[k] # NoSpec
      <3>1. k \in Keys /\ heap[k][base[k]] \in Replicas
        BY <2>2 DEF TypeOK
      <3>2. ReconcileUp("recycle", "none", k, heap[k][base[k]], draining[k] - 1)
        BY <2>2 DEF RecycleDone
      <3> QED
        BY <3>1, <3>2, ReconcileUpType
    <2> QED
      BY <2>1, <2>2
  <1> QED
    BY <1>1, <1>2, <1>3, <1>4 DEF TypeOK, RecycleDone

\* A Recycle that could not kill keeps the types.
LEMMA RecycleKeptType ==
  ASSUME TypeOK, DrainingCounts, NEW i \in Ids, RecycleKept(i) PROVE TypeOK'
  <1>1. draining' \in [Keys -> Nat]
    <2>1. i \in DrainingIds(keyOf[i])
      BY DEF RecycleKept, DrainingIds
    <2>2. draining[keyOf[i]] \in Nat \ {0}
      BY <2>1, DrainingPositive DEF TypeOK
    <2>3. draining \in [Keys -> Nat] /\ keyOf[i] \in Keys
      BY DEF TypeOK
    <2>4. draining' = [draining EXCEPT ![keyOf[i]] = @ - 1]
      BY DEF RecycleKept
    <2> QED
      BY <2>2, <2>3, <2>4
  <1>2. phase' \in [Ids -> Phases] /\ recycling' \in [Ids -> BOOLEAN]
    BY DEF TypeOK, RecycleKept
  <1>3. ledger' \subseteq Entries
    BY <1>2 DEF TypeOK, RecycleKept, Snapshot, Entry, Entries
  <1> QED
    BY <1>1, <1>2, <1>3 DEF TypeOK, RecycleKept

\* The sweep keeps the types.
LEMMA SweepType == ASSUME TypeOK, Sweep PROVE TypeOK'
  <1>1. phase' \in [Ids -> Phases] /\ cap' \in [Ids -> Pids] /\ st' \in [Ids -> BOOLEAN]
    BY DEF TypeOK, Sweep
  <1>2. used' \subseteq Slots /\ pidfile' \in [Keys -> [Slots -> Pids]]
    BY DEF TypeOK, Sweep
  <1>3. reaped' \subseteq Keys /\ todo' \subseteq Keys
    BY DEF TypeOK, Sweep, DeadIds
  <1>4. failures' \in [Keys -> 0 .. 2]
    BY DEF TypeOK, Sweep
  <1>5. held' \in [Keys -> BOOLEAN]
    <2>1. \A k \in Keys : (failures[k] > 0) \in BOOLEAN
      BY DEF TypeOK
    <2>2. \A k \in Keys :
            (IF k \in reaped' THEN failures[k] > 0 ELSE held[k]) \in BOOLEAN
      BY <2>1, Zenon DEF TypeOK
    <2> QED
      BY <2>2, Zenon DEF Sweep
  <1>6. holder' \in {"none", "spec", "down", "sweep", "tick", "recycle"}
        /\ listed' \in [Keys -> Specs \cup {NoSpec}]
    BY DEF TypeOK, Sweep
  <1> QED
    BY <1>1, <1>2, <1>3, <1>4, <1>5, <1>6 DEF TypeOK, Sweep

\* The tick keeps the types: every object it has yet to come to has a spec map.
LEMMA TickKeyType == ASSUME TypeOK, LockOK, NEW k \in Keys, TickKey(k) PROVE TypeOK'
  <1> DEFINE want == heap[k][listed[k]]
  <1>1. want \in Replicas
    BY DEF TypeOK, LockOK, TickKey
  <1>2. target' \in Keys /\ left' \in Replicas
        /\ holder' \in {"none", "spec", "down", "sweep", "tick", "recycle"}
    <2>1. CASE held[k]
      BY <2>1 DEF TypeOK, TickKey
    <2>2. CASE ~held[k]
      <3>1. ReconcileUp("tick", "tick", k, want, draining[k])
        BY <2>2 DEF TickKey
      <3> QED
        BY <1>1, <3>1, ReconcileUpType
    <2> QED
      BY <2>1, <2>2
  <1>3. failures' \in [Keys -> 0 .. 2]
    BY DEF TypeOK, TickKey
  <1>4. held' \in [Keys -> BOOLEAN]
    BY DEF TypeOK, TickKey
  <1>5. todo' \subseteq Keys
    BY DEF TypeOK, TickKey
  <1> QED
    BY <1>2, <1>3, <1>4, <1>5 DEF TypeOK, TickKey

\* OnSpecChange keeps the types on each of its three branches.
LEMMA OnSpecChangeType == ASSUME TypeOK, NEW c \in calls, OnSpecChange(c) PROVE TypeOK'
  <1>1. c.key \in Keys /\ c.want \in Replicas /\ heap[c.key][c.spec] \in Replicas
    BY DEF TypeOK, Calls
  <1>2. calls' \subseteq Calls
    BY DEF TypeOK, OnSpecChange
  <1>3. CASE ScaleDown(c.key, c.want)
    <2>1. phase' \in [Ids -> Phases]
      BY <1>3 DEF TypeOK, ScaleDown
    <2>2. draining' \in [Keys -> Nat]
      BY <1>1, <1>3, CurrentType DEF TypeOK, ScaleDown
    <2>3. target' \in Keys /\ left' \in Replicas /\ holder' = "down"
      BY <1>3 DEF TypeOK, ScaleDown
    <2> QED
      BY <1>2, <2>1, <2>2, <2>3 DEF TypeOK, OnSpecChange
  <1>4. CASE /\ ReconcileUp("spec", "none", c.key, heap[c.key][c.spec], draining[c.key])
             /\ UNCHANGED <<phase, draining>>
    <2>1. target' \in Keys /\ left' \in Replicas /\ holder' \in {"spec", "none"}
      BY <1>1, <1>4, ReconcileUpType
    <2> QED
      BY <1>2, <1>4, <2>1 DEF TypeOK, OnSpecChange
  <1>5. CASE UNCHANGED <<lockVars, phase, draining>>
    BY <1>2, <1>5 DEF TypeOK, OnSpecChange
  <1> QED
    BY <1>3, <1>4, <1>5 DEF OnSpecChange

\* Every step keeps the types.
LEMMA TypeStep == ASSUME TypeOK, DrainingCounts, LockOK, [Next]_vars PROVE TypeOK'
  <1>1. ASSUME NEW k \in Keys, NEW n \in Replicas,
               Patch(k, n) \/ Scale(k, n) \/ CreateObject(k, n)
        PROVE  TypeOK'
    BY <1>1, PatchType, ScaleType, CreateObjectType
  <1>2. ASSUME NEW k \in Keys, Delete(k) PROVE TypeOK'
    BY <1>2 DEF TypeOK, Delete
  <1>3. ASSUME NEW c \in calls, OnSpecChange(c) PROVE TypeOK'
    BY <1>3, OnSpecChangeType
  <1>4. ASSUME NEW i \in Ids, SpawnOne(i) PROVE TypeOK'
    BY <1>4 DEF TypeOK, SpawnOne
  <1>5. ASSUME NEW i \in Ids, PersistSpawn(i) PROVE TypeOK'
    BY <1>5, SnapshotType DEF TypeOK, PersistSpawn
  <1>6. CASE SpawnFails
    BY <1>6 DEF TypeOK, SpawnFails
  <1>7. CASE EndUp \/ TickEnd
    BY <1>7 DEF TypeOK, EndUp, TickEnd
  <1>8. CASE PersistScaleDown
    BY <1>8, SnapshotType DEF TypeOK, PersistScaleDown
  <1>9. CASE PersistSweep
    BY <1>9, SnapshotType DEF TypeOK, PersistSweep
  <1>10. CASE Sweep
    BY <1>10, SweepType
  <1>11. ASSUME NEW k \in Keys, TickKey(k) PROVE TypeOK'
    BY <1>11, TickKeyType
  <1>12. ASSUME NEW k \in Keys, BackoffExpires(k) PROVE TypeOK'
    BY <1>12 DEF TypeOK, BackoffExpires
  <1>13. ASSUME NEW i \in Ids, Capture(i) \/ TeardownSignal(i) \/ FinishScaleDown(i)
                               \/ RecycleDone(i) \/ RecycleKept(i)
         PROVE  TypeOK'
    BY <1>13, CaptureType, TeardownSignalType, FinishScaleDownType, RecycleDoneType,
       RecycleKeptType
  <1>14. ASSUME NEW i \in Ids, CaptureTimeout(i) PROVE TypeOK'
    BY <1>14 DEF TypeOK, CaptureTimeout
  <1>15. ASSUME NEW i \in Ids, PersistRecycle(i) PROVE TypeOK'
    BY <1>15, SnapshotType DEF TypeOK, PersistRecycle
  <1>16. ASSUME NEW i \in Ids, TeardownNothing(i) PROVE TypeOK'
    BY <1>16 DEF TypeOK, TeardownNothing
  <1>17. ASSUME NEW i \in Ids, TeardownKilled(i) PROVE TypeOK'
    BY <1>17 DEF TypeOK, TeardownKilled
  <1>18. ASSUME NEW i \in Ids, TeardownFails(i) PROVE TypeOK'
    BY <1>18 DEF TypeOK, TeardownFails
  <1>19. ASSUME NEW i \in Ids, Recycle(i) PROVE TypeOK'
    BY <1>19 DEF TypeOK, Recycle
  <1>20. ASSUME NEW i \in Ids, Launch(i) PROVE TypeOK'
    BY <1>20 DEF TypeOK, Launch
  <1>21. ASSUME NEW i \in Ids, LaunchFails(i) \/ Crash(i) \/ Exit(i) PROVE TypeOK'
    BY <1>21 DEF TypeOK, LaunchFails, Crash, Exit
  <1>22. CASE UNCHANGED vars
    BY <1>22 DEF TypeOK, vars
  <1> QED
    BY <1>1, <1>2, <1>3, <1>4, <1>5, <1>6, <1>7, <1>8, <1>9, <1>10, <1>11, <1>12,
       <1>13, <1>14, <1>15, <1>16, <1>17, <1>18, <1>19, <1>20, <1>21, <1>22
    DEF Next, SpawnerNext, Environment, Write, Changes, Locked, Goroutine, Recycled

-----------------------------------------------------------------------------
(***************************************************************************)
(* The port pool.                                                          *)
(***************************************************************************)

\* The pool accounts depend on the slots used, the slots given and who holds one.
LEMMA PoolFrame ==
  ASSUME PoolAccounts, UNCHANGED <<used, slotOf>>,
         \A i \in Ids : phase'[i] \in Holding <=> phase[i] \in Holding
  PROVE  PoolAccounts'
  BY DEF PoolAccounts

\* Instances that stop holding and give their slots back keep the accounts.
LEMMA PoolRelease ==
  ASSUME PoolAccounts, slotOf' = slotOf,
         NEW D \in SUBSET Ids, \A i \in D : phase[i] \in Holding,
         used' = used \ {slotOf[i] : i \in D},
         \A i \in Ids : phase'[i] \in Holding <=> phase[i] \in Holding /\ i \notin D
  PROVE  PoolAccounts'
  BY DEF PoolAccounts

\* The slot spawnOne takes was nobody else's.
LEMMA SpawnOnePool ==
  ASSUME TypeOK, PoolAccounts, NEW i \in Ids, SpawnOne(i) PROVE PoolAccounts'
  <1>1. PICK s \in Slots : s \notin used /\ used' = used \cup {s}
                           /\ slotOf' = [slotOf EXCEPT ![i] = s]
    BY DEF SpawnOne, LowestFree
  <1>2. phase[i] = "none" /\ phase' = [phase EXCEPT ![i] = "spawned"]
    BY DEF SpawnOne, Fresh
  <1>3. \A j \in Ids : j # i /\ phase[j] \in Holding => slotOf[j] # s
    BY <1>1 DEF PoolAccounts
  <1> QED
    BY <1>1, <1>2, <1>3 DEF PoolAccounts, TypeOK

\* Every step keeps the pool's accounts, whatever faults occur.
LEMMA PoolStep == ASSUME TypeOK, PoolAccounts, [Next]_vars PROVE PoolAccounts'
  <1> USE DEF TypeOK
  <1>1. ASSUME NEW i \in Ids, SpawnOne(i) PROVE PoolAccounts'
    BY <1>1, SpawnOnePool
  <1>2. CASE Sweep
    <2>1. \A i \in DeadIds : phase[i] = "tracked"
      BY DEF DeadIds, Dead
    <2>2. DeadIds \subseteq Ids
      BY DEF DeadIds
    <2> QED
      BY <1>2, <2>1, <2>2, PoolRelease DEF Sweep
  <1>3. ASSUME NEW i \in Ids, TeardownNothing(i) \/ TeardownKilled(i) PROVE PoolAccounts'
    <2>1. phase[i] \in Holding /\ phase' = [phase EXCEPT ![i] = "released"]
          /\ used' = used \ {slotOf[i]} /\ slotOf' = slotOf
      BY <1>3 DEF TeardownNothing, TeardownKilled, WaitOver
    <2> DEFINE D == {i}
    <2>2. D \in SUBSET Ids /\ used' = used \ {slotOf[j] : j \in D}
      BY <2>1
    <2>3. \A j \in D : phase[j] \in Holding
      BY <2>1
    <2>4. \A j \in Ids : phase'[j] \in Holding <=> phase[j] \in Holding /\ j \notin D
      BY <2>1
    <2> HIDE DEF D
    <2> QED
      BY <2>1, <2>2, <2>3, <2>4, PoolRelease
  <1>4. ASSUME NEW c \in calls, OnSpecChange(c) PROVE PoolAccounts'
    BY <1>4, PoolFrame DEF OnSpecChange, ScaleDown, Tracked
  <1>5. ASSUME NEW i \in Ids,
               \/ PersistSpawn(i) \/ Capture(i) \/ CaptureTimeout(i) \/ PersistRecycle(i)
               \/ TeardownSignal(i) \/ TeardownFails(i) \/ FinishScaleDown(i)
               \/ Recycle(i) \/ RecycleDone(i) \/ RecycleKept(i)
        PROVE  PoolAccounts'
    <2>1. UNCHANGED <<used, slotOf>>
      BY <1>5
      DEF PersistSpawn, Capture, CaptureTimeout, PersistRecycle, TeardownSignal,
          TeardownFails, FinishScaleDown, Recycle, RecycleDone, RecycleKept
    <2>2. \A j \in Ids : phase'[j] \in Holding <=> phase[j] \in Holding
      <3>1. CASE PersistSpawn(i) \/ Capture(i) \/ CaptureTimeout(i) \/ PersistRecycle(i)
        BY <3>1 DEF PersistSpawn, Capture, CaptureTimeout, PersistRecycle
      <3>2. CASE TeardownSignal(i) \/ TeardownFails(i)
        BY <3>2 DEF TeardownSignal, TeardownFails, WaitOver
      <3>3. CASE FinishScaleDown(i)
        BY <3>3 DEF FinishScaleDown
      <3>4. CASE Recycle(i) \/ RecycleDone(i) \/ RecycleKept(i)
        BY <3>4 DEF Recycle, RecycleDone, RecycleKept
      <3> QED
        BY <1>5, <3>1, <3>2, <3>3, <3>4
    <2> QED
      BY <2>1, <2>2, PoolFrame
  <1>6. CASE PersistScaleDown
    BY <1>6, PoolFrame DEF PersistScaleDown
  <1>7. CASE UNCHANGED <<used, slotOf, phase>>
    BY <1>7, PoolFrame
  <1>8. ASSUME Environment \/ Write PROVE UNCHANGED <<used, slotOf, phase>>
    BY <1>8 DEF Environment, Launch, LaunchFails, Crash, Exit, Write, Patch, Scale,
                CreateObject, Delete
  <1>9. ASSUME \/ SpawnFails \/ EndUp \/ PersistSweep \/ TickEnd
               \/ \E k \in Keys : TickKey(k) \/ BackoffExpires(k)
               \/ UNCHANGED vars
        PROVE  UNCHANGED <<used, slotOf, phase>>
    BY <1>9 DEF SpawnFails, EndUp, PersistSweep, TickEnd, TickKey, BackoffExpires, vars
  <1> QED
    BY <1>1, <1>2, <1>3, <1>4, <1>5, <1>6, <1>7, <1>8, <1>9
    DEF Next, SpawnerNext, Changes, Locked, Goroutine, Recycled

-----------------------------------------------------------------------------
(***************************************************************************)
(* The draining counters and reconcileMu.                                  *)
(***************************************************************************)

\* The draining counts depend on the counters and on who is being brought down.
LEMMA DrainFrame ==
  ASSUME DrainingCounts, UNCHANGED draining,
         \A i \in Ids : /\ phase'[i] \in Draining <=> phase[i] \in Draining
                        /\ phase[i] \in Draining => keyOf'[i] = keyOf[i]
  PROVE  DrainingCounts'
  <1>1. \A k \in Keys : DrainingIds(k)' = DrainingIds(k)
    BY DEF DrainingIds
  <1> QED
    BY <1>1 DEF DrainingCounts

\* One instance is done being brought down, and one is subtracted.
LEMMA DrainRemove ==
  ASSUME TypeOK, DrainingCounts, NEW i \in Ids, keyOf' = keyOf,
         phase[i] \in Draining, phase'[i] \notin Draining,
         \A j \in Ids : j # i => phase'[j] = phase[j],
         draining' = [draining EXCEPT ![keyOf[i]] = @ - 1]
  PROVE  DrainingCounts'
  <1> SUFFICES ASSUME NEW k \in Keys PROVE draining'[k] = Cardinality(DrainingIds(k)')
    BY DEF DrainingCounts
  <1>1. CASE k = keyOf[i]
    <2>1. DrainingIds(k)' = DrainingIds(k) \ {i} /\ i \in DrainingIds(k)
      BY <1>1 DEF DrainingIds
    <2>2. Cardinality(DrainingIds(k) \ {i}) = Cardinality(DrainingIds(k)) - 1
      BY <2>1, DrainingFinite, FS_RemoveElement
    <2> QED
      BY <1>1, <2>1, <2>2 DEF DrainingCounts, TypeOK
  <1>2. CASE k # keyOf[i]
    <2>1. DrainingIds(k)' = DrainingIds(k)
      BY <1>2 DEF DrainingIds
    <2> QED
      BY <1>2, <2>1 DEF DrainingCounts, TypeOK
  <1> QED
    BY <1>1, <1>2

\* Recycle takes one instance off the list and adds one.
LEMMA RecycleDrain ==
  ASSUME TypeOK, DrainingCounts, NEW i \in Ids, Recycle(i) PROVE DrainingCounts'
  <1> SUFFICES ASSUME NEW k \in Keys PROVE draining'[k] = Cardinality(DrainingIds(k)')
    BY DEF DrainingCounts
  <1>1. CASE k = keyOf[i]
    <2>1. DrainingIds(k)' = DrainingIds(k) \cup {i} /\ i \notin DrainingIds(k)
      BY <1>1 DEF DrainingIds, Recycle, TypeOK
    <2>2. Cardinality(DrainingIds(k) \cup {i}) = Cardinality(DrainingIds(k)) + 1
      BY <2>1, DrainingFinite, FS_AddElement
    <2> QED
      BY <1>1, <2>1, <2>2 DEF DrainingCounts, TypeOK, Recycle
  <1>2. CASE k # keyOf[i]
    <2>1. DrainingIds(k)' = DrainingIds(k)
      BY <1>2 DEF DrainingIds, Recycle, TypeOK
    <2> QED
      BY <1>2, <2>1 DEF DrainingCounts, TypeOK, Recycle
  <1> QED
    BY <1>1, <1>2

\* scaleDown adds as many as it takes off the list.
LEMMA ScaleDownDrain ==
  ASSUME TypeOK, DrainingCounts, NEW q \in Keys, NEW want \in Replicas,
         ScaleDown(q, want), keyOf' = keyOf
  PROVE  DrainingCounts'
  <1> SUFFICES ASSUME NEW k \in Keys PROVE draining'[k] = Cardinality(DrainingIds(k)')
    BY DEF DrainingCounts
  <1>1. PICK keep \in SUBSET Tracked(q) :
          /\ Cardinality(keep) = want
          /\ phase' = [i \in Ids |-> IF i \in Tracked(q) \ keep THEN "removed" ELSE phase[i]]
    BY DEF ScaleDown
  <1>2. CASE k = q
    <2> DEFINE gone == Tracked(q) \ keep
    <2>1. IsFiniteSet(Tracked(q)) /\ IsFiniteSet(keep) /\ IsFiniteSet(gone)
      BY FS_Subset DEF Tracked
    <2>2. Cardinality(gone) = Current(q) - want
      <3>1. Tracked(q) \cap keep = keep
        OBVIOUS
      <3> QED
        BY <1>1, <2>1, <3>1, FS_Difference DEF Current
    <2>3. DrainingIds(k)' = DrainingIds(k) \cup gone /\ DrainingIds(k) \cap gone = {}
      BY <1>1, <1>2 DEF DrainingIds, Tracked, TypeOK
    <2>4. Cardinality(DrainingIds(k) \cup gone)
            = Cardinality(DrainingIds(k)) + Cardinality(gone) - Cardinality({})
      BY <2>1, <2>3, DrainingFinite, FS_Union
    <2>5. Cardinality({}) = 0 /\ Current(q) \in Nat
      BY FS_EmptySet, CurrentType
    <2> QED
      BY <1>2, <2>2, <2>3, <2>4, <2>5 DEF DrainingCounts, TypeOK, ScaleDown
  <1>3. CASE k # q
    <2>1. DrainingIds(k)' = DrainingIds(k)
      BY <1>1, <1>3 DEF DrainingIds, Tracked, TypeOK
    <2> QED
      BY <1>3, <2>1 DEF DrainingCounts, TypeOK, ScaleDown
  <1> QED
    BY <1>2, <1>3

\* Every step keeps the draining counts, whatever faults occur.
LEMMA DrainingStep == ASSUME TypeOK, DrainingCounts, [Next]_vars PROVE DrainingCounts'
  <1>1. ASSUME NEW c \in calls, OnSpecChange(c) PROVE DrainingCounts'
    <2>1. c.key \in Keys /\ c.want \in Replicas
      BY DEF TypeOK, Calls
    <2>2. CASE ScaleDown(c.key, c.want)
      BY <1>1, <2>1, <2>2, ScaleDownDrain DEF OnSpecChange
    <2>3. CASE UNCHANGED <<phase, draining>>
      BY <1>1, <2>3, DrainFrame DEF OnSpecChange
    <2> QED
      BY <1>1, <2>2, <2>3 DEF OnSpecChange
  <1>2. ASSUME NEW i \in Ids, Recycle(i) PROVE DrainingCounts'
    BY <1>2, RecycleDrain
  <1>3. ASSUME NEW i \in Ids, FinishScaleDown(i) \/ RecycleDone(i) \/ RecycleKept(i)
        PROVE  DrainingCounts'
    <2>1. keyOf' = keyOf /\ phase[i] \in Draining /\ phase'[i] \notin Draining
          /\ \A j \in Ids : j # i => phase'[j] = phase[j]
      BY <1>3 DEF FinishScaleDown, RecycleDone, RecycleKept, TypeOK
    <2>2. draining' = [draining EXCEPT ![keyOf[i]] = @ - 1]
      BY <1>3 DEF FinishScaleDown, RecycleDone, RecycleKept
    <2> QED
      BY <2>1, <2>2, DrainRemove
  <1>4. ASSUME NEW i \in Ids, SpawnOne(i) PROVE DrainingCounts'
    BY <1>4, DrainFrame DEF SpawnOne, Fresh, TypeOK
  <1>5. ASSUME NEW i \in Ids,
               \/ PersistSpawn(i) \/ Capture(i) \/ CaptureTimeout(i) \/ PersistRecycle(i)
               \/ TeardownNothing(i) \/ TeardownSignal(i) \/ TeardownKilled(i)
               \/ TeardownFails(i)
        PROVE  DrainingCounts'
    BY <1>5, DrainFrame
    DEF PersistSpawn, Capture, CaptureTimeout, PersistRecycle, TeardownNothing,
        TeardownSignal, TeardownKilled, TeardownFails, WaitOver, TypeOK
  <1>6. CASE Sweep
    BY <1>6, DrainFrame DEF Sweep, DeadIds, Dead, TypeOK
  <1>7. CASE PersistScaleDown
    BY <1>7, DrainFrame DEF PersistScaleDown, TypeOK
  <1>8. CASE UNCHANGED <<draining, keyOf, phase>>
    BY <1>8, DrainFrame
  <1>9. ASSUME Environment \/ Write PROVE UNCHANGED <<draining, keyOf, phase>>
    BY <1>9 DEF Environment, Launch, LaunchFails, Crash, Exit, Write, Patch, Scale,
                CreateObject, Delete
  <1>10. ASSUME \/ SpawnFails \/ EndUp \/ PersistSweep \/ TickEnd
                \/ \E k \in Keys : TickKey(k) \/ BackoffExpires(k)
                \/ UNCHANGED vars
         PROVE  UNCHANGED <<draining, keyOf, phase>>
    BY <1>10 DEF SpawnFails, EndUp, PersistSweep, TickEnd, TickKey, BackoffExpires, vars
  <1> QED
    BY <1>1, <1>2, <1>3, <1>4, <1>5, <1>6, <1>7, <1>8, <1>9, <1>10
    DEF Next, SpawnerNext, Changes, Locked, Goroutine, Recycled

\* Every step keeps what the holder of reconcileMu relies on.
LEMMA LockStep == ASSUME TypeOK, DrainingCounts, LockOK, [Next]_vars PROVE LockOK'
  <1> USE DEF LockOK, TypeOK
  <1>1. ASSUME NEW c \in calls, OnSpecChange(c) PROVE LockOK'
    BY <1>1 DEF OnSpecChange, ScaleDown, ReconcileUp
  <1>2. ASSUME NEW i \in Ids, RecycleDone(i) PROVE LockOK'
    BY <1>2 DEF RecycleDone, ReconcileUp
  <1>3. ASSUME NEW i \in Ids, Recycle(i) \/ RecycleKept(i) PROVE LockOK'
    BY <1>3 DEF Recycle, RecycleKept
  <1>4. ASSUME NEW i \in Ids, FinishScaleDown(i) PROVE LockOK'
    <2>1. draining[keyOf[i]] # 0
      BY <1>4, DrainingPositive DEF FinishScaleDown, DrainingIds
    <2> QED
      BY <1>4, <2>1 DEF FinishScaleDown
  <1>5. CASE Sweep \/ PersistSweep
    BY <1>5 DEF Sweep, PersistSweep
  <1>6. ASSUME NEW k \in Keys, TickKey(k) PROVE LockOK'
    BY <1>6 DEF TickKey, ReconcileUp
  <1>7. ASSUME NEW i \in Ids, SpawnOne(i) PROVE LockOK'
    BY <1>7 DEF SpawnOne
  <1>8. CASE SpawnFails \/ EndUp \/ TickEnd \/ PersistScaleDown
    BY <1>8 DEF SpawnFails, EndUp, TickEnd, PersistScaleDown
  <1>9. CASE UNCHANGED <<draining, lockVars, tickVars>>
    BY <1>9
  <1>10. ASSUME NEW i \in Ids,
                \/ PersistSpawn(i) \/ Capture(i) \/ CaptureTimeout(i) \/ PersistRecycle(i)
                \/ TeardownNothing(i) \/ TeardownSignal(i) \/ TeardownKilled(i)
                \/ TeardownFails(i)
         PROVE  UNCHANGED <<draining, lockVars, tickVars>>
    BY <1>10
    DEF PersistSpawn, Capture, CaptureTimeout, PersistRecycle, TeardownNothing,
        TeardownSignal, TeardownKilled, TeardownFails
  <1>11. ASSUME Environment \/ Write \/ \E k \in Keys : BackoffExpires(k)
         PROVE  UNCHANGED <<draining, lockVars, tickVars>>
    BY <1>11 DEF Environment, Launch, LaunchFails, Crash, Exit, Write, Patch, Scale,
                 CreateObject, Delete, BackoffExpires
  <1>12. ASSUME UNCHANGED vars PROVE UNCHANGED <<draining, lockVars, tickVars>>
    BY <1>12 DEF vars
  <1> QED
    BY <1>1, <1>2, <1>3, <1>4, <1>5, <1>6, <1>7, <1>8, <1>9, <1>10, <1>11, <1>12
    DEF Next, SpawnerNext, Changes, Locked, Goroutine, Recycled

\* The counts hold when main starts: nothing is spawned.
LEMMA CountsInit == ASSUME Init PROVE CountsInv
  <1>1. (CHOOSE b \in Specs : TRUE) \in Specs /\ (CHOOSE k \in Keys : TRUE) \in Keys
    OBVIOUS
  <1>2. 0 \in Slots
    BY DEF Slots
  <1>3. TypeOK
    BY <1>1, <1>2 DEF Init, TypeOK
  <1>4. PoolAccounts
    BY DEF Init, PoolAccounts
  <1>5. DrainingCounts
    <2>1. \A k \in Keys : DrainingIds(k) = {}
      BY DEF Init, DrainingIds
    <2> QED
      BY <2>1, FS_EmptySet DEF Init, DrainingCounts
  <1>6. LockOK
    BY DEF Init, LockOK
  <1> QED
    BY <1>3, <1>4, <1>5, <1>6 DEF CountsInv

\* No step breaks the counts.
LEMMA CountsStep == ASSUME CountsInv, [Next]_vars PROVE CountsInv'
  BY TypeStep, PoolStep, DrainingStep, LockStep DEF CountsInv

\* The counts are an invariant of the spawner, whatever faults occur: processes
\* that survive SIGKILL and launchers that outlive the hard cap included.
THEOREM CountsInvariant == Spec => []CountsInv
  BY CountsInit, CountsStep, PTL DEF Spec

\* The variables keep their types.
THEOREM TypeCorrect == Spec => []TypeOK
  BY CountsInvariant, PTL DEF CountsInv

\* pool.used is exactly the slots of the instances that hold one, each held once:
\* no path through spawnOne, sweep, teardown and Recycle leaks or double-frees.
THEOREM PoolAccountsInvariant == Spec => []PoolAccounts
  BY CountsInvariant, PTL DEF CountsInv

\* Spawner.draining counts the instances being brought down, through concurrent
\* scale-downs and recycles of one key, whether their kills succeed or not.
THEOREM DrainingCountsInvariant == Spec => []DrainingCounts
  BY CountsInvariant, PTL DEF CountsInv

-----------------------------------------------------------------------------
(***************************************************************************)
(* Instances, their processes and their pidfiles, while every kill succeeds. *)
(***************************************************************************)

\* The pidfile of an instance's slot names that instance or does not exist.
LEMMA HolderPidfile ==
  ASSUME TypeOK, PoolAccounts, PidfilesOK, NEW i \in Ids, phase[i] \in Holding
  PROVE  pidfile[keyOf[i]][slotOf[i]] \in {i, NoId}
  <1> DEFINE p == pidfile[keyOf[i]][slotOf[i]]
  <1>1. keyOf[i] \in Keys /\ slotOf[i] \in Slots /\ p \in Pids
    BY DEF TypeOK
  <1>2. ASSUME p \in Ids PROVE p = i
    <2>1. phase[p] \in Holding /\ slotOf[p] = slotOf[i]
      BY <1>1, <1>2 DEF PidfilesOK
    <2> HIDE DEF p
    <2> QED
      BY <1>2, <2>1 DEF PoolAccounts
  <1> QED
    BY <1>1, <1>2

\* A step that writes no pidfile, and after which everybody who held a slot holds
\* it and has launched, keeps the pidfiles right.
LEMMA PidfileFrame ==
  ASSUME PidfilesOK, UNCHANGED <<pidfile, keyOf, slotOf>>,
         \A i \in Ids : phase[i] \in Holding /\ ~launching[i]
                          => phase'[i] \in Holding /\ ~launching'[i]
  PROVE  PidfilesOK'
  BY DEF PidfilesOK

\* So does one that removes the pidfiles of the instances whose slots it frees.
LEMMA PidfileDrop ==
  ASSUME PidfilesOK, UNCHANGED <<keyOf, slotOf, launching>>, NEW D \in SUBSET Ids,
         \A k \in Keys, s \in Slots :
            pidfile'[k][s] = IF \E i \in D : keyOf[i] = k /\ slotOf[i] = s
                             THEN NoId ELSE pidfile[k][s],
         \A i \in Ids \ D : phase'[i] = phase[i]
  PROVE  PidfilesOK'
  <1> SUFFICES ASSUME NEW k \in Keys, NEW s \in Slots, NEW i \in Ids, pidfile'[k][s] = i
               PROVE  /\ phase'[i] \in Holding
                      /\ keyOf'[i] = k /\ slotOf'[i] = s /\ ~launching'[i]
    BY DEF PidfilesOK
  <1>1. pidfile[k][s] = i
    OBVIOUS
  <1>2. phase[i] \in Holding /\ keyOf[i] = k /\ slotOf[i] = s /\ ~launching[i]
    BY <1>1 DEF PidfilesOK
  <1>3. i \notin D
    BY <1>2
  <1> QED
    BY <1>2, <1>3

\* A fresh spawn has no pidfile.
LEMMA SpawnOnePidfile ==
  ASSUME TypeOK, PidfilesOK, NEW i \in Ids, SpawnOne(i) PROVE PidfilesOK'
  <1> SUFFICES ASSUME NEW k \in Keys, NEW s \in Slots, NEW j \in Ids, pidfile'[k][s] = j
               PROVE  /\ phase'[j] \in Holding
                      /\ keyOf'[j] = k /\ slotOf'[j] = s /\ ~launching'[j]
    BY DEF PidfilesOK
  <1>1. pidfile[k][s] = j /\ j # i
    BY DEF SpawnOne, Fresh
  <1>2. phase[j] \in Holding /\ keyOf[j] = k /\ slotOf[j] = s /\ ~launching[j]
    BY <1>1 DEF PidfilesOK
  <1>3. phase'[j] = phase[j] /\ keyOf'[j] = keyOf[j] /\ slotOf'[j] = slotOf[j]
        /\ launching'[j] = launching[j]
    BY <1>1 DEF SpawnOne, TypeOK
  <1> QED
    BY <1>2, <1>3

\* launch_bg writes the pidfile of the slot its instance holds.
LEMMA LaunchPidfile ==
  ASSUME TypeOK, PoolAccounts, InstancesOK, PidfilesOK, NEW i \in Ids, Launch(i)
  PROVE  PidfilesOK'
  <1> SUFFICES ASSUME NEW k \in Keys, NEW s \in Slots, NEW j \in Ids, pidfile'[k][s] = j
               PROVE  /\ phase'[j] \in Holding
                      /\ keyOf'[j] = k /\ slotOf'[j] = s /\ ~launching'[j]
    BY DEF PidfilesOK
  <1>0. UNCHANGED <<phase, keyOf, slotOf>> /\ launching' = [launching EXCEPT ![i] = FALSE]
        /\ pidfile' = [pidfile EXCEPT ![keyOf[i]][slotOf[i]] = i] /\ launching[i]
    BY DEF Launch
  <1>1. CASE k = keyOf[i] /\ s = slotOf[i]
    <2>1. j = i
      BY <1>0, <1>1 DEF TypeOK
    <2>2. phase[i] \in Holding
      BY <1>0 DEF InstancesOK, Present
    <2> QED
      BY <1>0, <1>1, <2>1, <2>2 DEF TypeOK
  <1>2. CASE ~(k = keyOf[i] /\ s = slotOf[i])
    <2>1. pidfile[k][s] = j
      BY <1>0, <1>2 DEF TypeOK
    <2>2. phase[j] \in Holding /\ keyOf[j] = k /\ slotOf[j] = s /\ ~launching[j]
      BY <2>1 DEF PidfilesOK
    <2> QED
      BY <1>0, <2>2 DEF TypeOK
  <1> QED
    BY <1>1, <1>2

\* Every step keeps the pidfiles right while every kill succeeds.
LEMMA PidfileStep == ASSUME SafeInv, [Next]_vars PROVE PidfilesOK'
  <1> USE DEF SafeInv, CountsInv
  <1>1. ASSUME NEW i \in Ids, SpawnOne(i) PROVE PidfilesOK'
    BY <1>1, SpawnOnePidfile
  <1>2. ASSUME NEW i \in Ids, Launch(i) PROVE PidfilesOK'
    BY <1>2, LaunchPidfile
  <1>3. CASE Sweep
    <2>1. \A k \in Keys, s \in Slots :
            pidfile'[k][s] = IF \E i \in DeadIds : keyOf[i] = k /\ slotOf[i] = s
                             THEN NoId ELSE pidfile[k][s]
      BY <1>3 DEF Sweep
    <2>2. DeadIds \in SUBSET Ids /\ \A i \in Ids \ DeadIds : phase'[i] = phase[i]
      BY <1>3 DEF Sweep, DeadIds
    <2>3. UNCHANGED <<keyOf, slotOf, launching>>
      BY <1>3 DEF Sweep
    <2> QED
      BY <2>1, <2>2, <2>3, PidfileDrop
  <1>4. ASSUME NEW i \in Ids, TeardownNothing(i) \/ TeardownKilled(i) PROVE PidfilesOK'
    <2> DEFINE D == {i}
    <2>1. /\ UNCHANGED <<keyOf, slotOf, launching>>
          /\ pidfile' = [pidfile EXCEPT ![keyOf[i]][slotOf[i]] = NoId]
          /\ phase' = [phase EXCEPT ![i] = "released"]
      BY <1>4 DEF TeardownNothing, TeardownKilled
    <2>2. \A k \in Keys, s \in Slots :
            pidfile'[k][s] = IF \E j \in D : keyOf[j] = k /\ slotOf[j] = s
                             THEN NoId ELSE pidfile[k][s]
      BY <2>1 DEF TypeOK
    <2>3. D \in SUBSET Ids /\ \A j \in Ids \ D : phase'[j] = phase[j]
      BY <2>1 DEF TypeOK
    <2> HIDE DEF D
    <2> QED
      BY <2>1, <2>2, <2>3, PidfileDrop
  <1>5. ASSUME NEW i \in Ids, TeardownFails(i) \/ FinishScaleDown(i) \/ RecycleDone(i)
                              \/ RecycleKept(i)
        PROVE  PidfilesOK'
    <2>1. UNCHANGED <<pidfile, keyOf, slotOf, launching>>
      BY <1>5 DEF TeardownFails, FinishScaleDown, RecycleDone, RecycleKept
    <2>2. \A j \in Ids : phase[j] \in Holding => phase'[j] \in Holding
      BY <1>5 DEF TeardownFails, FinishScaleDown, RecycleDone, RecycleKept, TypeOK
    <2> QED
      BY <2>1, <2>2, PidfileFrame
  <1>6. ASSUME NEW i \in Ids, \/ PersistSpawn(i) \/ Capture(i) \/ CaptureTimeout(i)
                              \/ PersistRecycle(i) \/ TeardownSignal(i) \/ Recycle(i)
        PROVE  PidfilesOK'
    <2>1. UNCHANGED <<pidfile, keyOf, slotOf, launching>>
      BY <1>6 DEF PersistSpawn, Capture, CaptureTimeout, PersistRecycle, TeardownSignal,
                  Recycle
    <2>2. \A j \in Ids : phase[j] \in Holding => phase'[j] \in Holding
      BY <1>6 DEF PersistSpawn, Capture, CaptureTimeout, PersistRecycle, TeardownSignal,
                  Recycle, TypeOK
    <2> QED
      BY <2>1, <2>2, PidfileFrame
  <1>7. ASSUME NEW i \in Ids, LaunchFails(i) \/ Crash(i) \/ Exit(i) PROVE PidfilesOK'
    <2>1. UNCHANGED <<pidfile, keyOf, slotOf, phase>>
      BY <1>7 DEF LaunchFails, Crash, Exit
    <2>2. \A j \in Ids : ~launching[j] => ~launching'[j]
      BY <1>7 DEF LaunchFails, Crash, Exit, TypeOK
    <2> QED
      BY <2>1, <2>2, PidfileFrame
  <1>8. ASSUME NEW c \in calls, OnSpecChange(c) PROVE PidfilesOK'
    BY <1>8, PidfileFrame DEF OnSpecChange, ScaleDown, Tracked
  <1>9. CASE PersistScaleDown
    BY <1>9, PidfileFrame DEF PersistScaleDown
  <1>10. CASE UNCHANGED <<pidfile, keyOf, slotOf, phase, launching>>
    BY <1>10, PidfileFrame
  <1>11. ASSUME \/ Write \/ SpawnFails \/ EndUp \/ PersistSweep \/ TickEnd
                \/ \E k \in Keys : TickKey(k) \/ BackoffExpires(k)
                \/ UNCHANGED vars
         PROVE  UNCHANGED <<pidfile, keyOf, slotOf, phase, launching>>
    BY <1>11 DEF Write, Patch, Scale, CreateObject, Delete, SpawnFails, EndUp,
                 PersistSweep, TickEnd, TickKey, BackoffExpires, vars
  <1> QED
    BY <1>1, <1>2, <1>3, <1>4, <1>5, <1>6, <1>7, <1>8, <1>9, <1>10, <1>11
    DEF Next, SpawnerNext, Changes, Locked, Goroutine, Recycled, Environment

\* The steps of the spawner in which no kill fails and nobody gives up on a
\* launcher that is still at work.
HealthyGoroutine(i) ==
  \/ Capture(i) \/ PersistRecycle(i) \/ TeardownKilled(i) \/ FinishScaleDown(i)
  \/ CaptureTimeout(i) /\ ~launching[i]
  \/ (TeardownNothing(i) \/ TeardownSignal(i)) /\ (i \notin capturing \/ ~launching[i])

HealthyNext ==
  \/ Write \/ Changes \/ Locked \/ Sweep \/ Environment
  \/ \E i \in Ids : HealthyGoroutine(i) \/ Recycle(i) \/ Recycled(i)
  \/ \E k \in Keys : BackoffExpires(k)

\* They are steps of the spawner, and all of them while nothing survives SIGKILL
\* and no launcher outlives a wait.
LEMMA HealthySteps == (HealthyNext => Next) /\ (Healthy /\ Next => HealthyNext)
  <1>1. ASSUME NEW i \in Ids, HealthyGoroutine(i) PROVE Goroutine(i)
    BY <1>1 DEF HealthyGoroutine, Goroutine
  <1>2. ASSUME NEW i \in Ids, Healthy, Goroutine(i) PROVE HealthyGoroutine(i)
    BY <1>2 DEF HealthyGoroutine, Goroutine, CaptureTimeout, TeardownNothing,
                TeardownSignal, WaitOver, Healthy
  <1>3. ASSUME NEW i \in Ids, Healthy PROVE ~TeardownFails(i)
    BY <1>3 DEF TeardownFails, Healthy
  <1> QED
    BY <1>1, <1>2, <1>3 DEF HealthyNext, Next, SpawnerNext

\* Such steps keep each instance tied to its own process.
LEMMA InstancesStep == ASSUME SafeInv, [HealthyNext]_vars PROVE InstancesOK'
  <1> USE DEF SafeInv, CountsInv, TypeOK, InstancesOK, Present, Live
  <1>1. ASSUME NEW i \in Ids, SpawnOne(i) PROVE InstancesOK'
    BY <1>1 DEF SpawnOne, Fresh
  <1>2. ASSUME NEW i \in Ids, PersistSpawn(i) PROVE InstancesOK'
    BY <1>2 DEF PersistSpawn
  <1>3. ASSUME NEW i \in Ids, Capture(i) PROVE InstancesOK'
    BY <1>3, HolderPidfile DEF Capture, Tracked, PoolAccounts, PidfilesOK
  <1>4. ASSUME NEW i \in Ids, CaptureTimeout(i), ~launching[i] PROVE InstancesOK'
    BY <1>4, HolderPidfile DEF CaptureTimeout
  <1>5. ASSUME NEW i \in Ids, PersistRecycle(i) PROVE InstancesOK'
    BY <1>5 DEF PersistRecycle
  <1>6. ASSUME NEW i \in Ids, TeardownNothing(i), i \notin capturing \/ ~launching[i]
        PROVE  InstancesOK'
    BY <1>6, HolderPidfile DEF TeardownNothing, WaitOver, PidOf, NotRecorded, AliveAs,
       PoolAccounts
  <1>7. ASSUME NEW i \in Ids, TeardownSignal(i), i \notin capturing \/ ~launching[i]
        PROVE  InstancesOK'
    BY <1>7, HolderPidfile DEF TeardownSignal, WaitOver, PidOf, NotRecorded, AliveAs,
       PidfilesOK
  <1>8. ASSUME NEW i \in Ids, TeardownKilled(i) PROVE InstancesOK'
    BY <1>8 DEF TeardownKilled, PoolAccounts
  <1>9. ASSUME NEW i \in Ids, FinishScaleDown(i) PROVE InstancesOK'
    BY <1>9 DEF FinishScaleDown
  <1>10. ASSUME NEW i \in Ids, Recycle(i) PROVE InstancesOK'
    BY <1>10 DEF Recycle
  <1>11. ASSUME NEW i \in Ids, RecycleDone(i) PROVE InstancesOK'
    BY <1>11 DEF RecycleDone
  <1>12. ASSUME NEW i \in Ids, RecycleKept(i) PROVE InstancesOK'
    BY <1>12 DEF RecycleKept
  <1>13. ASSUME NEW i \in Ids, Launch(i) PROVE InstancesOK'
    BY <1>13 DEF Launch, PoolAccounts
  <1>14. ASSUME NEW i \in Ids, LaunchFails(i) PROVE InstancesOK'
    BY <1>14 DEF LaunchFails
  <1>15. ASSUME NEW i \in Ids, Crash(i) \/ Exit(i) PROVE InstancesOK'
    BY <1>15 DEF Crash, Exit
  <1>16. CASE Sweep
    BY <1>16 DEF Sweep, DeadIds, Dead, AliveAs, PoolAccounts
  <1>17. CASE PersistScaleDown
    BY <1>17 DEF PersistScaleDown
  <1>18. ASSUME NEW c \in calls, OnSpecChange(c) PROVE InstancesOK'
    BY <1>18 DEF OnSpecChange, ScaleDown, Tracked
  <1>19. CASE UNCHANGED <<instVars, procVars>>
    BY <1>19
  <1>20. ASSUME \/ Write \/ SpawnFails \/ EndUp \/ PersistSweep \/ TickEnd
                \/ \E k \in Keys : TickKey(k) \/ BackoffExpires(k)
                \/ UNCHANGED vars
         PROVE  UNCHANGED <<instVars, procVars>>
    BY <1>20 DEF Write, Patch, Scale, CreateObject, Delete, SpawnFails, EndUp,
                 PersistSweep, TickEnd, TickKey, BackoffExpires, vars
  <1> QED
    BY <1>1, <1>2, <1>3, <1>4, <1>5, <1>6, <1>7, <1>8, <1>9, <1>10, <1>11, <1>12,
       <1>13, <1>14, <1>15, <1>16, <1>17, <1>18, <1>19, <1>20
    DEF HealthyNext, HealthyGoroutine, Changes, Locked, Recycled, Environment

\* Nothing is spawned, and no pidfile is there, when main starts.
LEMMA SafeInit == ASSUME Init PROVE SafeInv
  <1>1. InstancesOK
    BY DEF Init, InstancesOK, Present, Live
  <1>2. PidfilesOK
    BY DEF Init, PidfilesOK
  <1> QED
    BY <1>1, <1>2, CountsInit DEF SafeInv

\* They keep the whole invariant, which is therefore inductive while every kill
\* succeeds.
LEMMA HealthyKeepsSafe == ASSUME SafeInv, [HealthyNext]_vars PROVE SafeInv'
  BY HealthySteps, CountsStep, InstancesStep, PidfileStep DEF SafeInv

LEMMA SafeStep == ASSUME Healthy, SafeInv, [Next]_vars PROVE SafeInv'
  BY HealthySteps, HealthyKeepsSafe

\* So it holds throughout.
THEOREM SafeInvariant == ASSUME Healthy PROVE Spec => []SafeInv
  BY SafeInit, SafeStep, PTL DEF Spec

\* No two servers, running or about to be launched, are on the same ports.
THEOREM PortsExclusive == ASSUME Healthy PROVE Spec => []PortExclusive
  <1>1. SafeInv => PortExclusive
    BY DEF SafeInv, CountsInv, PoolAccounts, InstancesOK, PortExclusive
  <1> QED
    BY <1>1, SafeInvariant, PTL

\* Every server is on a list or being brought down by some goroutine.
THEOREM NoServerOrphaned == ASSUME Healthy PROVE Spec => []NoOrphan
  <1>1. SafeInv => NoOrphan
    BY DEF SafeInv, InstancesOK, NoOrphan
  <1> QED
    BY <1>1, SafeInvariant, PTL

\* A teardown only ever signals the process its own instance started.
THEOREM VictimIsOwn == ASSUME Healthy PROVE Spec => []OwnVictim
  <1>1. SafeInv => OwnVictim
    BY DEF SafeInv, InstancesOK, OwnVictim
  <1> QED
    BY <1>1, SafeInvariant, PTL

\* Only spawnOne puts a new instance on a list.
LEMMA OnlySpawnOneSpawns ==
  ASSUME TypeOK, [Next]_vars, NEW i \in Ids, phase'[i] = "spawned", phase[i] # "spawned"
  PROVE  SpawnOne(i)
  <1> USE DEF TypeOK
  <1>1. ASSUME NEW j \in Ids, SpawnOne(j) PROVE SpawnOne(i)
    BY <1>1 DEF SpawnOne
  <1>2. ASSUME NEW j \in Ids, \/ PersistSpawn(j) \/ Capture(j) \/ CaptureTimeout(j)
                              \/ PersistRecycle(j) \/ TeardownNothing(j)
                              \/ TeardownSignal(j) \/ TeardownKilled(j)
        PROVE  FALSE
    BY <1>2 DEF PersistSpawn, Capture, CaptureTimeout, PersistRecycle, TeardownNothing,
                TeardownSignal, TeardownKilled
  <1>3. ASSUME NEW j \in Ids, \/ TeardownFails(j) \/ FinishScaleDown(j) \/ Recycle(j)
                              \/ RecycleDone(j) \/ RecycleKept(j)
        PROVE  FALSE
    BY <1>3 DEF TeardownFails, FinishScaleDown, Recycle, RecycleDone, RecycleKept
  <1>4. ASSUME NEW c \in calls, OnSpecChange(c) PROVE FALSE
    BY <1>4 DEF OnSpecChange, ScaleDown
  <1>5. ASSUME Sweep \/ PersistScaleDown PROVE FALSE
    BY <1>5 DEF Sweep, PersistScaleDown
  <1>6. ASSUME \/ Write \/ SpawnFails \/ EndUp \/ PersistSweep \/ TickEnd
               \/ \E k \in Keys : TickKey(k) \/ BackoffExpires(k)
               \/ Environment \/ UNCHANGED vars
        PROVE  FALSE
    BY <1>6 DEF Write, Patch, Scale, CreateObject, Delete, SpawnFails, EndUp,
                PersistSweep, TickEnd, TickKey, BackoffExpires, Environment, Launch,
                LaunchFails, Crash, Exit, vars
  <1> QED
    BY <1>1, <1>2, <1>3, <1>4, <1>5, <1>6
    DEF Next, SpawnerNext, Changes, Locked, Goroutine, Recycled

\* A server is never started for a map while one that was taken off the map's list
\* is still running: the draining count that lets spawnOne run is zero, so nobody
\* is being brought down for the key.
THEOREM NoOverlapHolds == ASSUME Healthy PROVE Spec => NoOverlap
  <1>1. ASSUME SafeInv, [Next]_vars, NEW i \in Ids, NEW j \in Ids,
               phase'[i] = "spawned", phase[i] # "spawned",
               keyOf[j] = keyOf'[i], Present(j)
        PROVE  phase[j] \in Listed
    <2>1. SpawnOne(i)
      BY <1>1, OnlySpawnOneSpawns DEF SafeInv, CountsInv
    <2>2. keyOf[j] = target /\ draining[target] = 0
      BY <1>1, <2>1 DEF SpawnOne, SafeInv, CountsInv, LockOK, TypeOK
    <2>3. j \notin DrainingIds(target)
      <3>1. target \in Keys /\ DrainingCounts
        BY <1>1 DEF SafeInv, CountsInv, TypeOK
      <3> QED
        BY <2>2, <3>1, DrainingPositive
    <2>4. phase[j] \notin Draining
      BY <2>2, <2>3 DEF DrainingIds
    <2>5. phase[j] \in Holding /\ phase[j] # "stuck"
      BY <1>1 DEF SafeInv, InstancesOK
    <2> QED
      BY <2>4, <2>5
  <1>2. SafeInv /\ [Next]_vars =>
          [\A i \in Ids : phase'[i] = "spawned" /\ phase[i] # "spawned" =>
             \A j \in Ids : keyOf[j] = keyOf'[i] /\ Present(j)
                              => phase[j] \in Listed]_vars
    BY <1>1
  <1> QED
    BY <1>2, SafeInvariant, PTL DEF Spec, NoOverlap

-----------------------------------------------------------------------------
(***************************************************************************)
(* The ledger.                                                             *)
(***************************************************************************)

\* persist() names exactly the listed instances.
LEMMA SnapshotNames ==
  /\ \A e \in Snapshot : e.id \in Ids
  /\ \A i \in Ids : (\E e \in Snapshot : e.id = i) <=> phase[i] \in Listed
  <1>1. \A i \in Ids : phase[i] \in Listed => Entry(i) \in Snapshot /\ Entry(i).id = i
    BY DEF Snapshot, Entry
  <1>2. \A e \in Snapshot : e.id \in Ids /\ phase[e.id] \in Listed
    BY DEF Snapshot, Entry
  <1> QED
    BY <1>1, <1>2

\* Also when it reads the lists after the step's own change.
LEMMA SnapshotNamesAfter ==
  /\ \A e \in Snapshot' : e.id \in Ids
  /\ \A i \in Ids : (\E e \in Snapshot' : e.id = i) <=> phase'[i] \in Listed
  <1>1. \A i \in Ids : phase'[i] \in Listed => Entry(i)' \in Snapshot' /\ Entry(i)'.id = i
    BY DEF Snapshot, Entry
  <1>2. \A e \in Snapshot' : e.id \in Ids /\ phase'[e.id] \in Listed
    BY DEF Snapshot, Entry
  <1> QED
    BY <1>1, <1>2

\* A ledger written by persist() covers the tracked instances and gives no slot
\* twice.
LEMMA LedgerWritten ==
  ASSUME PoolAccounts',
         \/ ledger' = Snapshot /\ \A i \in Ids : phase'[i] \in Listed <=> phase[i] \in Listed
         \/ ledger' = Snapshot'
  PROVE  LedgerCovers' /\ LedgerSlotsDistinct'
  <1>1. /\ \A e \in ledger' : e.id \in Ids
        /\ \A i \in Ids : (\E e \in ledger' : e.id = i) <=> phase'[i] \in Listed
    BY SnapshotNames, SnapshotNamesAfter
  <1>2. LedgerCovers'
    BY <1>1 DEF LedgerCovers
  <1>3. \A e \in ledger' : phase'[e.id] \in Holding
    BY <1>1
  <1>4. LedgerSlotsDistinct'
    BY <1>1, <1>3 DEF PoolAccounts, LedgerSlotsDistinct
  <1> QED
    BY <1>2, <1>4

\* So does a ledger that stays, if nobody becomes tracked and the slots of the
\* instances it names stay.
LEMMA LedgerFrame ==
  ASSUME LedgerCovers, LedgerSlotsDistinct, UNCHANGED ledger,
         \A i \in Ids : phase'[i] = "tracked" => phase[i] = "tracked",
         \A e \in ledger : slotOf'[e.id] = slotOf[e.id]
  PROVE  LedgerCovers' /\ LedgerSlotsDistinct'
  BY DEF LedgerCovers, LedgerSlotsDistinct

\* Every step keeps the ledger's promises, whatever faults occur.
LEMMA LedgerStep ==
  ASSUME CountsInv, CountsInv', LedgerCovers, LedgerSlotsDistinct, [Next]_vars
  PROVE  LedgerCovers' /\ LedgerSlotsDistinct'
  <1> USE DEF CountsInv, TypeOK
  <1>1. ASSUME NEW i \in Ids, PersistSpawn(i) \/ PersistRecycle(i)
        PROVE  LedgerCovers' /\ LedgerSlotsDistinct'
    BY <1>1, LedgerWritten DEF PersistSpawn, PersistRecycle
  <1>2. CASE PersistScaleDown \/ PersistSweep
    BY <1>2, LedgerWritten DEF PersistScaleDown, PersistSweep
  <1>3. ASSUME NEW i \in Ids, RecycleDone(i) \/ RecycleKept(i)
        PROVE  LedgerCovers' /\ LedgerSlotsDistinct'
    BY <1>3, LedgerWritten DEF RecycleDone, RecycleKept
  <1>4. ASSUME NEW i \in Ids, FinishScaleDown(i)
        PROVE  LedgerCovers' /\ LedgerSlotsDistinct'
    <2>1. CASE phase[i] = "released"
      BY <1>4, <2>1, LedgerWritten DEF FinishScaleDown
    <2>2. CASE phase[i] # "released"
      BY <1>4, <2>2, LedgerFrame DEF FinishScaleDown
    <2> QED
      BY <2>1, <2>2
  <1>5. ASSUME NEW i \in Ids, Capture(i) PROVE LedgerCovers' /\ LedgerSlotsDistinct'
    <2>1. CASE ledger' = ledger
      BY <1>5, <2>1, LedgerFrame DEF Capture
    <2>2. CASE ledger' = Snapshot'
      BY <1>5, <2>2, LedgerWritten DEF Capture
    <2> QED
      BY <1>5, <2>1, <2>2 DEF Capture
  <1>6. ASSUME NEW i \in Ids, SpawnOne(i) PROVE LedgerCovers' /\ LedgerSlotsDistinct'
    <2>1. \A e \in ledger : slotOf'[e.id] = slotOf[e.id]
      BY <1>6 DEF SpawnOne, Fresh
    <2>2. UNCHANGED ledger /\ \A j \in Ids : phase'[j] = "tracked" => phase[j] = "tracked"
      BY <1>6 DEF SpawnOne
    <2> QED
      BY <2>1, <2>2, LedgerFrame
  <1>7. ASSUME NEW i \in Ids, \/ CaptureTimeout(i) \/ TeardownNothing(i)
                              \/ TeardownSignal(i) \/ TeardownKilled(i)
                              \/ TeardownFails(i) \/ Recycle(i)
        PROVE  LedgerCovers' /\ LedgerSlotsDistinct'
    <2>1. UNCHANGED <<ledger, slotOf>>
      BY <1>7 DEF CaptureTimeout, TeardownNothing, TeardownSignal, TeardownKilled,
                  TeardownFails, Recycle
    <2>2. \A j \in Ids : phase'[j] = "tracked" => phase[j] = "tracked"
      BY <1>7 DEF CaptureTimeout, TeardownNothing, TeardownSignal, TeardownKilled,
                  TeardownFails, Recycle
    <2> QED
      BY <2>1, <2>2, LedgerFrame
  <1>8. ASSUME NEW c \in calls, OnSpecChange(c)
        PROVE  LedgerCovers' /\ LedgerSlotsDistinct'
    BY <1>8, LedgerFrame DEF OnSpecChange, ScaleDown
  <1>9. CASE Sweep
    BY <1>9, LedgerFrame DEF Sweep
  <1>10. CASE UNCHANGED <<ledger, slotOf, phase>>
    BY <1>10, LedgerFrame
  <1>11. ASSUME \/ Write \/ SpawnFails \/ EndUp \/ TickEnd \/ Environment
                \/ \E k \in Keys : TickKey(k) \/ BackoffExpires(k)
                \/ UNCHANGED vars
         PROVE  UNCHANGED <<ledger, slotOf, phase>>
    BY <1>11 DEF Write, Patch, Scale, CreateObject, Delete, SpawnFails, EndUp, TickEnd,
                 Environment, Launch, LaunchFails, Crash, Exit, TickKey, BackoffExpires,
                 vars
  <1> QED
    BY <1>1, <1>2, <1>3, <1>4, <1>5, <1>6, <1>7, <1>8, <1>9, <1>10, <1>11
    DEF Next, SpawnerNext, Changes, Locked, Goroutine, Recycled

\* Every tracked instance is in the ledger and no two entries of the ledger name
\* one slot, in whatever order the persists of spawns, captures, sweeps,
\* scale-downs and recycles come: a Restore finds every server it could re-adopt,
\* and AcquireSpecific fails for none of them.
THEOREM LedgerRestorable == Spec => []LedgerSound
  <1>1. Init => LedgerCovers /\ LedgerSlotsDistinct
    BY DEF Init, LedgerCovers, LedgerSlotsDistinct
  <1>2. CountsInv /\ CountsInv' /\ LedgerCovers /\ LedgerSlotsDistinct /\ [Next]_vars
          => LedgerCovers' /\ LedgerSlotsDistinct'
    BY LedgerStep
  <1> QED
    BY <1>1, <1>2, CountsInvariant, PTL DEF Spec, LedgerSound
-----------------------------------------------------------------------------
(***************************************************************************)
(* No key is overspawned. The instances of a key that count against its    *)
(* replicas are those on its list and the one Recycle has taken off it for *)
(* a while: it may come back when its process would not die.               *)
(***************************************************************************)
Counted(k) == {i \in Ids : keyOf[i] = k /\ (phase[i] \in Listed \/ recycling[i])}

\* Who is recycled is being brought down; what counts for a key, and what the holder
\* of reconcileMu still has to spawn for its key, stay within the replicas anyone
\* may write.
RoomOK ==
    /\ \A i \in Ids : recycling[i] => phase[i] \in Draining
    /\ \A k \in Keys : Cardinality(Counted(k)) <= MaxReplicas
    /\ left > 0 => Cardinality(Counted(target)) + left <= MaxReplicas

\* Finitely many instances count for a key.
LEMMA CountedFinite == ASSUME NEW k PROVE IsFiniteSet(Counted(k))
  BY FS_Subset DEF Counted

\* While nobody is brought down for a key, its listed instances are all that count.
LEMMA CountedIsTracked ==
  ASSUME RoomOK, NEW k \in Keys, DrainingIds(k) = {} PROVE Counted(k) = Tracked(k)
  BY DEF RoomOK, Counted, Tracked, DrainingIds

\* A step that adds nobody to what counts, and leaves the holder its spawns or ends
\* them, leaves room.
LEMMA RoomFrame ==
  ASSUME TypeOK, RoomOK,
         \A i \in Ids : recycling'[i] => phase'[i] \in Draining,
         \A k \in Keys : Counted(k)' \subseteq Counted(k),
         left' = 0 \/ (target' = target /\ left' \in Nat /\ left' <= left)
  PROVE  RoomOK'
  <1>1. ASSUME NEW k \in Keys
        PROVE  /\ Cardinality(Counted(k)') <= Cardinality(Counted(k))
               /\ Cardinality(Counted(k)') \in Nat /\ Cardinality(Counted(k)) \in Nat
    <2>1. Counted(k)' \subseteq Counted(k)
      OBVIOUS
    <2> HIDE DEF Counted
    <2> QED
      BY <2>1, CountedFinite, FS_Subset, FS_CardinalityType
  <1>2. \A k \in Keys : Cardinality(Counted(k)') <= MaxReplicas
    BY <1>1 DEF RoomOK
  <1>3. ASSUME left' > 0 PROVE Cardinality(Counted(target)') + left' <= MaxReplicas
    BY <1>1, <1>3 DEF RoomOK, TypeOK
  <1> QED
    BY <1>2, <1>3 DEF RoomOK

\* What the lists and recycling hold decides who counts.
LEMMA RoomUnchanged ==
  ASSUME TypeOK, RoomOK, UNCHANGED <<keyOf, phase, recycling, target, left>>
  PROVE  RoomOK'
  BY DEF RoomOK, Counted

\* reconcileUpLocked spawns only for a key that does not drain, as many as are missing
\* of what is wanted.
LEMMA ReconcileUpRoom ==
  ASSUME TypeOK, RoomOK, LockOK, NEW who, NEW otherwise, NEW q \in Keys,
         NEW want \in Replicas, NEW d, left = 0,
         ReconcileUp(who, otherwise, q, want, d),
         d = 0 => Counted(q)' = Tracked(q),
         \A i \in Ids : recycling'[i] => phase'[i] \in Draining,
         \A k \in Keys : Counted(k)' \subseteq Counted(k)
  PROVE  RoomOK'
  <1>1. CASE want > Current(q) /\ d = 0
    <2>1. target' = q /\ left' = want - Current(q) /\ Current(q) \in Nat
      BY <1>1, CurrentType DEF ReconcileUp
    <2>2. Cardinality(Counted(q)') = Current(q)
      BY <1>1 DEF Current
    <2>3. \A k \in Keys : Cardinality(Counted(k)') <= MaxReplicas
      <3> SUFFICES ASSUME NEW k \in Keys PROVE Cardinality(Counted(k)') <= MaxReplicas
        OBVIOUS
      <3>1. Counted(k)' \subseteq Counted(k)
        OBVIOUS
      <3> HIDE DEF Counted
      <3>2. /\ Cardinality(Counted(k)') <= Cardinality(Counted(k))
            /\ Cardinality(Counted(k)') \in Nat /\ Cardinality(Counted(k)) \in Nat
        BY <3>1, CountedFinite, FS_Subset, FS_CardinalityType
      <3> QED
        BY <3>2 DEF RoomOK
    <2>4. Cardinality(Counted(q)') + left' <= MaxReplicas
      BY <2>1, <2>2
    <2> QED
      BY <2>1, <2>3, <2>4 DEF RoomOK, Counted
  <1>2. CASE ~(want > Current(q) /\ d = 0)
    <2>1. left' = 0
      BY <1>2 DEF ReconcileUp
    <2> QED
      BY <2>1, RoomFrame
  <1> QED
    BY <1>1, <1>2

\* spawnOne uses up one of the spawns the holder has left for its key.
LEMMA SpawnOneRoom == ASSUME TypeOK, RoomOK, NEW i \in Ids, SpawnOne(i) PROVE RoomOK'
  <1>1. /\ phase[i] = "none" /\ ~recycling[i] /\ left > 0 /\ left' = left - 1
        /\ target' = target /\ recycling' = recycling
        /\ keyOf' = [keyOf EXCEPT ![i] = target] /\ phase' = [phase EXCEPT ![i] = "spawned"]
    BY DEF SpawnOne, Fresh, RoomOK, TypeOK
  <1>2. \A j \in Ids : recycling'[j] => phase'[j] \in Draining
    BY <1>1 DEF RoomOK, TypeOK
  <1>3. /\ Counted(target)' = Counted(target) \cup {i} /\ i \notin Counted(target)
        /\ \A k \in Keys : k # target => Counted(k)' = Counted(k)
    BY <1>1 DEF Counted, TypeOK
  <1>4. Cardinality(Counted(target)') = Cardinality(Counted(target)) + 1
    BY <1>3, CountedFinite, FS_AddElement
  <1>5. Cardinality(Counted(target)) \in Nat /\ target \in Keys
    BY CountedFinite, FS_CardinalityType DEF TypeOK
  <1>6. ASSUME NEW k \in Keys PROVE Cardinality(Counted(k)') <= MaxReplicas
    <2>1. left \in Nat
      BY DEF TypeOK
    <2>2. CASE k = target
      BY <1>1, <1>4, <1>5, <2>1, <2>2 DEF RoomOK
    <2>3. CASE k # target
      BY <1>3, <2>3 DEF RoomOK
    <2> QED
      BY <2>2, <2>3
  <1>7. Cardinality(Counted(target)') + left' <= MaxReplicas
    BY <1>1, <1>4, <1>5 DEF RoomOK, TypeOK
  <1> QED
    BY <1>1, <1>2, <1>6, <1>7 DEF RoomOK, Counted

\* The end of a recycle: its instance no longer counts, and if its key has nobody else
\* to bring down, what is missing may be spawned.
LEMMA RecycleDoneRoom ==
  ASSUME CountsInv, RoomOK, NEW i \in Ids, RecycleDone(i) PROVE RoomOK'
  <1> USE DEF CountsInv
  <1> DEFINE q == keyOf[i]
  <1>1. /\ phase[i] = "released" /\ q \in Keys /\ left = 0 /\ holder = "none"
        /\ phase' = [phase EXCEPT ![i] = "none"] /\ keyOf' = keyOf
        /\ recycling' = [recycling EXCEPT ![i] = FALSE]
    BY DEF RecycleDone, LockOK, TypeOK
  <1>2. \A j \in Ids : recycling'[j] => phase'[j] \in Draining
    BY <1>1 DEF RoomOK, TypeOK
  <1>3. \A k \in Keys : Counted(k)' \subseteq Counted(k)
    BY <1>1 DEF Counted, TypeOK
  <1>4. Tracked(q)' = Tracked(q)
    BY <1>1 DEF Tracked, TypeOK
  <1>5. ASSUME draining[q] - 1 = 0 PROVE Counted(q)' = Tracked(q)
    <2>1. IsFiniteSet(DrainingIds(q)) /\ i \in DrainingIds(q)
      BY <1>1, DrainingFinite DEF DrainingIds
    <2>2. Cardinality(DrainingIds(q)) = draining[q] /\ draining[q] \in Nat
      BY <1>1 DEF DrainingCounts, TypeOK
    <2>3. Cardinality(DrainingIds(q) \ {i}) = 0 /\ IsFiniteSet(DrainingIds(q) \ {i})
      BY <1>5, <2>1, <2>2, FS_RemoveElement
    <2>4. DrainingIds(q) \ {i} = {}
      BY <2>3, FS_EmptySet
    <2>5. \A j \in Ids : keyOf[j] = q /\ j # i => ~recycling[j]
      BY <2>4 DEF DrainingIds, RoomOK
    <2> QED
      BY <1>1, <2>5 DEF Counted, Tracked, TypeOK
  <1>6. CASE base[q] = NoSpec
    <2>1. left' = 0
      BY <1>1, <1>6 DEF RecycleDone
    <2> QED
      BY <1>2, <1>3, <2>1, RoomFrame
  <1>7. CASE base[q] # NoSpec
    <2>1. ReconcileUp("recycle", "none", q, heap[q][base[q]], draining[q] - 1)
      BY <1>7 DEF RecycleDone
    <2>2. heap[q][base[q]] \in Replicas
      BY <1>1, <1>7 DEF TypeOK
    <2> QED
      BY <1>1, <1>2, <1>3, <1>5, <2>1, <2>2, ReconcileUpRoom
  <1> QED
    BY <1>6, <1>7

\* Every step leaves room, whatever faults occur.
LEMMA RoomStep == ASSUME CountsInv, RoomOK, [Next]_vars PROVE RoomOK'
  <1> USE DEF CountsInv
  <1>1. ASSUME NEW c \in calls, OnSpecChange(c) PROVE RoomOK'
    <2>1. c.key \in Keys /\ c.want \in Replicas /\ c.spec \in Specs /\ left = 0
      BY <1>1 DEF TypeOK, Calls, OnSpecChange, LockOK
    <2>2. CASE ScaleDown(c.key, c.want)
      <3>1. PICK keep : phase' = [i \in Ids |->
                   IF i \in Tracked(c.key) \ keep THEN "removed" ELSE phase[i]]
        BY <2>2 DEF ScaleDown
      <3>2. keyOf' = keyOf /\ recycling' = recycling /\ left' = 0
        BY <1>1, <2>1, <2>2 DEF OnSpecChange, ScaleDown
      <3>3. /\ \A i \in Ids : recycling'[i] => phase'[i] \in Draining
            /\ \A k \in Keys : Counted(k)' \subseteq Counted(k)
        BY <3>1, <3>2 DEF Counted, RoomOK, TypeOK
      <3> QED
        BY <3>2, <3>3, RoomFrame
    <2>3. CASE /\ UNCHANGED <<phase, draining>>
               /\ ReconcileUp("spec", "none", c.key, heap[c.key][c.spec], draining[c.key])
      <3>1. keyOf' = keyOf /\ recycling' = recycling
        BY <1>1 DEF OnSpecChange
      <3>2. \A k \in Keys : Counted(k)' = Counted(k)
        BY <2>3, <3>1 DEF Counted
      <3>3. draining[c.key] = 0 => Counted(c.key)' = Tracked(c.key)
        <4> SUFFICES ASSUME draining[c.key] = 0 PROVE Counted(c.key)' = Tracked(c.key)
          OBVIOUS
        <4>1. DrainingIds(c.key) = {}
          BY <2>1, DrainingPositive
        <4> QED
          BY <2>1, <3>2, <4>1, CountedIsTracked
      <3>4. heap[c.key][c.spec] \in Replicas
        BY <2>1 DEF TypeOK
      <3>5. \A i \in Ids : recycling'[i] => phase'[i] \in Draining
        BY <2>3, <3>1 DEF RoomOK
      <3> QED
        BY <2>1, <2>3, <3>2, <3>3, <3>4, <3>5, ReconcileUpRoom
    <2>4. CASE UNCHANGED <<lockVars, phase>>
      BY <1>1, <2>4, RoomUnchanged DEF OnSpecChange
    <2> QED
      BY <1>1, <2>2, <2>3, <2>4 DEF OnSpecChange
  <1>2. ASSUME NEW k \in Keys, TickKey(k) PROVE RoomOK'
    <2>1. UNCHANGED <<keyOf, phase, recycling>> /\ left = 0 /\ k \in todo
      BY <1>2 DEF TickKey
    <2>2. CASE UNCHANGED lockVars
      BY <2>1, <2>2, RoomUnchanged
    <2>3. CASE ReconcileUp("tick", "tick", k, heap[k][listed[k]], draining[k])
      <3>1. \A q \in Keys : Counted(q)' = Counted(q)
        BY <2>1 DEF Counted
      <3>2. draining[k] = 0 => Counted(k)' = Tracked(k)
        <4> SUFFICES ASSUME draining[k] = 0 PROVE Counted(k)' = Tracked(k)
          OBVIOUS
        <4>1. DrainingIds(k) = {}
          BY DrainingPositive
        <4> QED
          BY <3>1, <4>1, CountedIsTracked
      <3>3. heap[k][listed[k]] \in Replicas
        BY <2>1 DEF TypeOK, LockOK
      <3>4. \A i \in Ids : recycling'[i] => phase'[i] \in Draining
        BY <2>1 DEF RoomOK
      <3> QED
        BY <2>1, <2>3, <3>1, <3>2, <3>3, <3>4, ReconcileUpRoom
    <2> QED
      BY <1>2, <2>2, <2>3 DEF TickKey
  <1>3. ASSUME NEW i \in Ids, SpawnOne(i) PROVE RoomOK'
    BY <1>3, SpawnOneRoom
  <1>4. ASSUME NEW i \in Ids, RecycleDone(i) PROVE RoomOK'
    BY <1>4, RecycleDoneRoom
  <1>5. ASSUME UNCHANGED <<keyOf, target>>, left' = left \/ (left' = left - 1 /\ left > 0),
               \A i \in Ids : recycling'[i] => phase'[i] \in Draining,
               \A i \in Ids : phase'[i] \in Listed \/ recycling'[i]
                                => phase[i] \in Listed \/ recycling[i]
        PROVE  RoomOK'
    <2>1. \A k \in Keys : Counted(k)' \subseteq Counted(k)
      BY <1>5 DEF Counted
    <2>2. left \in Nat /\ left' \in Nat /\ left' <= left
      BY <1>5 DEF TypeOK
    <2> QED
      BY <1>5, <2>1, <2>2, RoomFrame
  <1>6. ASSUME NEW i \in Ids,
               \/ PersistSpawn(i) \/ Capture(i) \/ CaptureTimeout(i) \/ PersistRecycle(i)
               \/ TeardownNothing(i) \/ TeardownSignal(i) \/ TeardownKilled(i)
        PROVE  RoomOK'
    BY <1>5, <1>6
    DEF PersistSpawn, Capture, CaptureTimeout, PersistRecycle, TeardownNothing,
        TeardownSignal, TeardownKilled, WaitOver, TypeOK, RoomOK
  <1>7. ASSUME NEW i \in Ids,
               TeardownFails(i) \/ FinishScaleDown(i) \/ Recycle(i) \/ RecycleKept(i)
        PROVE  RoomOK'
    <2>1. CASE TeardownFails(i)
      BY <1>5, <2>1 DEF TeardownFails, TypeOK, RoomOK
    <2>2. CASE FinishScaleDown(i)
      BY <1>5, <2>2 DEF FinishScaleDown, TypeOK, RoomOK
    <2>3. CASE Recycle(i)
      BY <1>5, <2>3 DEF Recycle, TypeOK, RoomOK
    <2>4. CASE RecycleKept(i)
      BY <1>5, <2>4 DEF RecycleKept, TypeOK, RoomOK
    <2> QED
      BY <1>7, <2>1, <2>2, <2>3, <2>4
  <1>8. CASE Sweep
    BY <1>5, <1>8 DEF Sweep, DeadIds, Dead, TypeOK, RoomOK
  <1>9. CASE PersistScaleDown
    BY <1>5, <1>9 DEF PersistScaleDown, TypeOK, RoomOK
  <1>10. CASE SpawnFails
    BY <1>5, <1>10 DEF SpawnFails, TypeOK, RoomOK
  <1>11. CASE UNCHANGED <<keyOf, phase, recycling, target, left>>
    BY <1>11, RoomUnchanged
  <1>12. ASSUME \/ Environment \/ Write \/ EndUp \/ PersistSweep \/ TickEnd
                \/ \E k \in Keys : BackoffExpires(k)
                \/ UNCHANGED vars
         PROVE  UNCHANGED <<keyOf, phase, recycling, target, left>>
    BY <1>12 DEF Environment, Launch, LaunchFails, Crash, Exit, Write, Patch, Scale,
                 CreateObject, Delete, EndUp, PersistSweep, TickEnd, BackoffExpires, vars
  <1> QED
    BY <1>1, <1>2, <1>3, <1>4, <1>6, <1>7, <1>8, <1>9, <1>10, <1>11, <1>12
    DEF Next, SpawnerNext, Changes, Locked, Goroutine, Recycled

\* Nothing counts when main starts.
LEMMA RoomInit == ASSUME Init PROVE RoomOK
  <1>1. ASSUME NEW k \in Keys PROVE Cardinality(Counted(k)) <= MaxReplicas
    <2>1. Counted(k) = {}
      BY DEF Init, Counted
    <2> QED
      BY <2>1, FS_EmptySet
  <1> QED
    BY <1>1 DEF Init, RoomOK

\* A key never has more instances listed than the largest replicas anyone wrote, under
\* every fault and whatever calls, ticks and recycles overlap: who spawns holds
\* reconcileMu, and what it still has to spawn was counted with what is listed.
THEOREM NeverOverspawned == Spec => []NotOverspawned
  <1>1. ASSUME RoomOK PROVE NotOverspawned
    <2> SUFFICES ASSUME NEW k \in Keys PROVE Current(k) <= MaxReplicas
      BY DEF NotOverspawned
    <2>1. Tracked(k) \subseteq Counted(k)
      BY DEF Tracked, Counted
    <2>2. Cardinality(Tracked(k)) <= Cardinality(Counted(k))
      BY <2>1, CountedFinite, FS_Subset
    <2>3. Cardinality(Counted(k)) <= MaxReplicas /\ Cardinality(Counted(k)) \in Nat
      BY <1>1, CountedFinite, FS_CardinalityType DEF RoomOK
    <2> QED
      BY <2>2, <2>3, CurrentType DEF Current
  <1>2. Init => RoomOK
    BY RoomInit
  <1>3. CountsInv /\ RoomOK /\ [Next]_vars => RoomOK'
    BY RoomStep
  <1>4. RoomOK => NotOverspawned
    BY <1>1
  <1> QED
    BY <1>2, <1>3, <1>4, CountsInvariant, PTL DEF Spec
-----------------------------------------------------------------------------
(***************************************************************************)
(* Restarts.                                                               *)
(***************************************************************************)

\* While mock-k8s is down, or reads its ledger, nothing is on its way.
AwayOK ==
  daemon \in {"down", "restoring"} =>
    /\ \A i \in Ids : phase[i] = "none" \/ (phase[i] = "tracked" /\ daemon = "restoring")
    /\ holder = "none" /\ left = 0 /\ todo = {} /\ calls = {}

RestartCounts == CountsInv /\ RestartTypeOK /\ AwayOK

\* An entry of the ledger names a pid only if it is its own process's, and every
\* spawn has one entry at most.
LedgerOwn ==
  /\ \A e \in ledger : e.pid \in {e.id, NoId} /\ (e.st => e.pid = e.id)
  /\ \A e, f \in ledger : e.id = f.id => e = f

\* Its entry is still to be read, or it is tracked already.
Awaited(i) == \E e \in ledger : /\ e.id = i
                                /\ daemon = "restoring" => e \in entries \/ phase[i] = "tracked"

\* While mock-k8s is down, or reads its ledger, a server that runs is named by its
\* pidfile and by an entry; a tracked one has been read from the ledger under its
\* own pid.
Adoptable ==
  /\ entries \subseteq ledger /\ capturing = {}
  /\ \A i \in Ids :
       /\ ~launching[i] /\ proc[i] # "lingering" /\ victim[i] = NoId /\ cap[i] \in {i, NoId}
       /\ proc[i] = "up" => pidfile[keyOf[i]][slotOf[i]] = i
       /\ phase[i] = "tracked" => cap[i] = i /\ st[i] /\ \E e \in ledger \ entries : e.id = i
       /\ phase[i] = "none" => cap[i] = NoId /\ ~st[i]
  /\ \A k \in Keys, s \in Slots : \A i \in Ids :
       pidfile[k][s] = i => keyOf[i] = k /\ slotOf[i] = s /\ Awaited(i)

\* What a restart that interrupts nothing keeps.
QuietSafe ==
  quiet =>
    /\ LedgerOwn /\ LedgerSlotsDistinct
    /\ daemon \in {"up", "booting"} => SafeInv /\ LedgerCovers
    /\ daemon \in {"down", "restoring"} => Adoptable

\* A step is one of the spawner or its surroundings, the latter alone while
\* mock-k8s is away, or one of the boot.
LEMMA RestartSplit ==
  ASSUME [RestartNext]_allVars
  PROVE  \/ /\ UNCHANGED daemonVars /\ [Next]_vars
            /\ daemon \in {"down", "restoring"} => Environment \/ UNCHANGED vars
         \/ Die \/ Restart \/ RestoreDone \/ Serve
         \/ (\E e \in ledger : RestoreEntry(e)) \/ (\E k \in Keys : Materialize(k))
  BY DEF RestartNext, allVars, Next, SpawnerNext, BootStep, Changes, Locked, Goroutine

\* mock-k8s dies: everything in memory is as it was at first.
LEMMA DieCounts == ASSUME RestartCounts, Die PROVE RestartCounts'
  <1> USE RestartAssumption DEF RestartCounts, CountsInv
  <1>1. TypeOK'
    <2>1. /\ base' \in [Keys -> Specs \cup {NoSpec}] /\ listed' \in [Keys -> Specs \cup {NoSpec}]
          /\ phase' \in [Ids -> Phases] /\ recycling' \in [Ids -> BOOLEAN]
          /\ cap' \in [Ids -> Pids] /\ st' \in [Ids -> BOOLEAN] /\ victim' \in [Ids -> Pids]
      BY DEF Die
    <2>2. /\ draining' \in [Keys -> Nat] /\ failures' \in [Keys -> 0 .. 2]
          /\ held' \in [Keys -> BOOLEAN]
      BY DEF Die
    <2> QED
      BY <2>1, <2>2 DEF Die, TypeOK
  <1>2. PoolAccounts'
    BY DEF Die, PoolAccounts
  <1>3. DrainingCounts'
    <2>1. \A k \in Keys : DrainingIds(k)' = {}
      BY DEF Die, DrainingIds
    <2>2. \A k \in Keys : draining'[k] = 0
      BY DEF Die
    <2> QED
      BY <2>1, <2>2, FS_EmptySet DEF DrainingCounts
  <1>4. LockOK' /\ AwayOK'
    BY DEF Die, LockOK, AwayOK
  <1>5. RestartTypeOK'
    BY <1>1 DEF Die, RestartTypeOK
  <1> QED
    BY <1>1, <1>2, <1>3, <1>4, <1>5

\* Restore comes to an entry: a dead one costs a pidfile, a live one takes its slot
\* back if nobody has it.
LEMMA RestoreEntryCounts ==
  ASSUME RestartCounts, NEW e \in ledger, RestoreEntry(e) PROVE RestartCounts'
  <1> USE DEF RestartCounts, CountsInv
  <1>1. e.id \in Ids /\ e.pid \in Pids /\ slotOf[e.id] \in Slots /\ keyOf[e.id] \in Keys
    BY DEF TypeOK, Entries
  <1>2. RestorePid(e) \in Pids
    BY <1>1 DEF RestorePid, TypeOK
  <1>3. TypeOK'
    <2>1. CASE UNCHANGED <<phase, cap, st, used>> /\ pidfile' = [pidfile EXCEPT ![keyOf[e.id]][slotOf[e.id]] = NoId]
      BY <1>1, <2>1 DEF RestoreEntry, TypeOK
    <2>2. CASE UNCHANGED <<phase, cap, st, used, pidfile>>
      BY <2>2 DEF RestoreEntry, TypeOK
    <2>3. CASE /\ used' = used \cup {slotOf[e.id]} /\ phase' = [phase EXCEPT ![e.id] = "tracked"]
               /\ cap' = [cap EXCEPT ![e.id] = RestorePid(e)] /\ st' = [st EXCEPT ![e.id] = TRUE]
               /\ UNCHANGED pidfile
      BY <1>1, <1>2, <2>3 DEF RestoreEntry, TypeOK
    <2> QED
      BY <2>1, <2>2, <2>3 DEF RestoreEntry
  <1>4. /\ daemon = "restoring" /\ UNCHANGED <<daemon, recipes, restarts, quiet>>
        /\ entries' = entries \ {e}
        /\ UNCHANGED <<keyOf, slotOf, draining, holder, target, left, todo, listed, calls>>
    BY DEF RestoreEntry
  <1>5. PoolAccounts' /\ \A i \in Ids : phase'[i] \in {phase[i], "tracked"}
    <2>1. CASE UNCHANGED <<phase, used>>
      BY <1>4, <2>1, PoolFrame
    <2>2. CASE /\ slotOf[e.id] \notin used /\ used' = used \cup {slotOf[e.id]}
               /\ phase' = [phase EXCEPT ![e.id] = "tracked"]
      <3>1. {j \in Ids : phase'[j] \in Holding} = {j \in Ids : phase[j] \in Holding} \cup {e.id}
        BY <1>1, <2>2 DEF TypeOK
      <3>2. \A j \in Ids : phase[j] \in Holding => slotOf[j] # slotOf[e.id]
        BY <2>2 DEF PoolAccounts
      <3> QED
        BY <1>1, <1>4, <2>2, <3>1, <3>2 DEF PoolAccounts, TypeOK
    <2> QED
      BY <2>1, <2>2 DEF RestoreEntry
  <1>6. DrainingCounts'
    <2>1. \A i \in Ids : phase[i] \notin Draining /\ phase'[i] \notin Draining
      BY <1>4, <1>5 DEF AwayOK
    <2> QED
      BY <1>4, <2>1, DrainFrame
  <1>7. LockOK' /\ AwayOK' /\ RestartTypeOK'
    BY <1>3, <1>4, <1>5 DEF LockOK, AwayOK, RestartTypeOK
  <1> QED
    BY <1>3, <1>5, <1>6, <1>7

\* main creates an object.
LEMMA MaterializeCounts ==
  ASSUME RestartCounts, NEW k \in Keys, Materialize(k) PROVE RestartCounts'
  <1> USE DEF RestartCounts, CountsInv
  <1>1. PICK n \in Replicas : Create(k, n)
    <2>1. 0 \in Replicas /\ 1 \in Replicas
      OBVIOUS
    <2> QED
      BY <2>1 DEF Materialize
  <1>2. PICK b \in Specs : /\ base' = [base EXCEPT ![k] = b]
                           /\ heap' = [heap EXCEPT ![k][b] = n]
                           /\ calls' = calls \cup {Call(k, b, n)}
    BY <1>1 DEF Create
  <1>3. TypeOK'
    <2>1. heap' \in [Keys -> [Specs -> Replicas]] /\ base' \in [Keys -> Specs \cup {NoSpec}]
      BY <1>2 DEF TypeOK
    <2>2. calls' \subseteq Calls
      BY <1>2, CallType DEF TypeOK
    <2> QED
      BY <2>1, <2>2 DEF Materialize, TypeOK
  <1>4. PoolAccounts' /\ DrainingCounts' /\ LockOK'
    BY PoolFrame, DrainFrame DEF Materialize, LockOK
  <1>5. AwayOK' /\ RestartTypeOK'
    BY <1>3 DEF Materialize, AwayOK, RestartTypeOK
  <1> QED
    BY <1>3, <1>4, <1>5

\* No step of any kind breaks the counts.
LEMMA RestartCountsStep ==
  ASSUME RestartCounts, [RestartNext]_allVars PROVE RestartCounts'
  <1> USE DEF RestartCounts
  <1>1. CASE /\ UNCHANGED daemonVars /\ [Next]_vars
             /\ daemon \in {"down", "restoring"} => Environment \/ UNCHANGED vars
    <2>1. CountsInv'
      BY <1>1, CountsStep
    <2>2. AwayOK'
      BY <1>1 DEF AwayOK, daemonVars, vars, Environment, Launch, LaunchFails, Crash, Exit
    <2> QED
      BY <1>1, <2>1, <2>2 DEF RestartTypeOK, CountsInv, daemonVars
  <1>2. CASE Die
    BY <1>2, DieCounts
  <1>3. CASE Restart \/ Serve
    <2>1. UNCHANGED vars
      BY <1>3 DEF Restart, Serve
    <2>2. CountsInv'
      BY <2>1, CountsStep
    <2> QED
      BY <1>3, <2>1, <2>2 DEF Restart, Serve, AwayOK, RestartTypeOK, CountsInv,
                              TypeOK, vars
  <1>4. CASE RestoreDone
    <2>1. TypeOK'
      BY <1>4, SnapshotType DEF RestoreDone, TypeOK, CountsInv
    <2>2. PoolAccounts' /\ DrainingCounts' /\ LockOK'
      BY <1>4, PoolFrame, DrainFrame DEF RestoreDone, CountsInv, LockOK
    <2> QED
      BY <1>4, <2>1, <2>2 DEF RestoreDone, CountsInv, AwayOK, RestartTypeOK
  <1> QED
    BY <1>1, <1>2, <1>3, <1>4, RestoreEntryCounts, MaterializeCounts, RestartSplit

LEMMA RestartCountsInit == ASSUME RestartInit PROVE RestartCounts
  BY CountsInit, RestartAssumption
  DEF RestartInit, RestartCounts, RestartTypeOK, AwayOK, CountsInv

\* Across any restarts, under every fault, whatever they interrupt: the pool's used
\* slots are those of the instances that hold one.  Restore takes each of them
\* with AcquireSpecific, and none twice.
THEOREM RestartAlwaysAccounts == RestartSpec => []RestartAccounts
  <1>1. RestartCounts => RestartAccounts
    BY DEF RestartCounts, RestartAccounts, CountsInv
  <1> QED
    BY <1>1, RestartCountsInit, RestartCountsStep, PTL DEF RestartSpec

-----------------------------------------------------------------------------
(***************************************************************************)
(* Restarts that interrupt no spawn and no teardown.                       *)
(***************************************************************************)

\* What persist() writes names each spawn once, under its own pid.
LEMMA OwnWritten ==
  ASSUME TypeOK, \A i \in Ids : cap[i] \in {i, NoId} /\ (st[i] => cap[i] = i)
  PROVE  /\ \A e \in Snapshot : e.id \in Ids /\ e.pid \in {e.id, NoId} /\ (e.st => e.pid = e.id)
         /\ \A e, f \in Snapshot : e.id = f.id => e = f
  <1>1. \A e \in Snapshot : e.id \in Ids /\ e = Entry(e.id)
    BY DEF Snapshot, Entry
  <1>2. \A e \in Snapshot : e.pid = cap[e.id] /\ e.st = st[e.id]
    BY <1>1 DEF Entry
  <1> QED
    BY <1>1, <1>2

\* The same of what it writes after the step's own change.
LEMMA OwnWrittenAfter ==
  ASSUME TypeOK', \A i \in Ids : cap'[i] \in {i, NoId} /\ (st'[i] => cap'[i] = i)
  PROVE  /\ \A e \in Snapshot' : e.id \in Ids /\ e.pid \in {e.id, NoId} /\ (e.st => e.pid = e.id)
         /\ \A e, f \in Snapshot' : e.id = f.id => e = f
  <1>1. \A e \in Snapshot' : e.id \in Ids /\ e = Entry(e.id)'
    BY DEF Snapshot, Entry
  <1>2. \A e \in Snapshot' : e.pid = cap'[e.id] /\ e.st = st'[e.id]
    BY <1>1 DEF Entry
  <1> QED
    BY <1>1, <1>2

\* The ledger is only ever what it was or what is on the lists.
LEMMA LedgerChanges == ASSUME [Next]_vars PROVE ledger' \in {ledger, Snapshot, Snapshot'}
  <1>1. CASE UNCHANGED ledger
    BY <1>1
  <1>2. ASSUME NEW i \in Ids, PersistSpawn(i) \/ PersistRecycle(i) \/ Capture(i)
                              \/ FinishScaleDown(i) \/ RecycleDone(i) \/ RecycleKept(i)
        PROVE  ledger' \in {ledger, Snapshot, Snapshot'}
    BY <1>2 DEF PersistSpawn, PersistRecycle, Capture, FinishScaleDown, RecycleDone,
                RecycleKept
  <1>3. CASE PersistScaleDown \/ PersistSweep
    BY <1>3 DEF PersistScaleDown, PersistSweep
  <1>4. ASSUME NEW i \in Ids,
               \/ SpawnOne(i) \/ CaptureTimeout(i) \/ TeardownNothing(i) \/ TeardownSignal(i)
               \/ TeardownKilled(i) \/ TeardownFails(i) \/ Recycle(i)
        PROVE  UNCHANGED ledger
    BY <1>4 DEF SpawnOne, CaptureTimeout, TeardownNothing, TeardownSignal, TeardownKilled,
                TeardownFails, Recycle
  <1>5. ASSUME \/ Write \/ Changes \/ SpawnFails \/ EndUp \/ TickEnd \/ Sweep \/ Environment
               \/ \E k \in Keys : TickKey(k) \/ BackoffExpires(k)
               \/ UNCHANGED vars
        PROVE  UNCHANGED ledger
    BY <1>5 DEF Write, Patch, Scale, CreateObject, Delete, Changes, OnSpecChange,
                SpawnFails,
                EndUp, TickEnd, Sweep, Environment, Launch, LaunchFails, Crash, Exit, TickKey,
                BackoffExpires, vars
  <1> QED
    BY <1>1, <1>2, <1>3, <1>4, <1>5 DEF Next, SpawnerNext, Locked, Goroutine, Recycled

\* While mock-k8s serves, every step keeps what a later restart needs.
LEMMA ServingStep ==
  ASSUME Healthy, SafeInv, LedgerOwn, LedgerCovers, LedgerSlotsDistinct, [Next]_vars
  PROVE  SafeInv' /\ LedgerOwn' /\ LedgerCovers' /\ LedgerSlotsDistinct'
  <1>1. SafeInv'
    BY SafeStep
  <1>2. LedgerCovers' /\ LedgerSlotsDistinct'
    BY <1>1, LedgerStep DEF SafeInv
  <1>3. LedgerOwn'
    <2>1. CASE ledger' = ledger
      BY <2>1 DEF LedgerOwn
    <2>2. CASE ledger' = Snapshot
      BY <2>2, OwnWritten DEF SafeInv, CountsInv, InstancesOK, LedgerOwn
    <2>3. CASE ledger' = Snapshot'
      BY <1>1, <2>3, OwnWrittenAfter DEF SafeInv, CountsInv, InstancesOK, LedgerOwn
    <2> QED
      BY <2>1, <2>2, <2>3, LedgerChanges
  <1> QED
    BY <1>1, <1>2, <1>3

\* The pool and the pidfiles leave an entry of the ledger no other's process.
LEMMA EntriesApart ==
  ASSUME LedgerOwn, LedgerSlotsDistinct, NEW e \in ledger, NEW f \in ledger,
         slotOf[e.id] = slotOf[f.id]
  PROVE  e = f
  BY DEF LedgerOwn, LedgerSlotsDistinct

\* mock-k8s dies while nothing is on its way: every server that runs can be adopted.
LEMMA DieQuiet ==
  ASSUME RestartCounts, QuietSafe, quiet, Quiet, Die
  PROVE  LedgerOwn' /\ LedgerSlotsDistinct' /\ Adoptable'
  <1> USE DEF RestartCounts
  <1>1. LedgerOwn' /\ LedgerSlotsDistinct'
    BY DEF QuietSafe, Die, LedgerOwn, LedgerSlotsDistinct
  <1>2. /\ UNCHANGED <<keyOf, slotOf, ledger, launching, proc, pidfile>>
        /\ daemon' = "down" /\ entries' = {} /\ capturing' = {}
        /\ \A i \in Ids : phase'[i] = "none" /\ cap'[i] = NoId /\ ~st'[i] /\ victim'[i] = NoId
    BY DEF Die
  <1>3. CASE daemon \in {"up", "booting"}
    <2>1. SafeInv /\ LedgerCovers
      BY <1>3 DEF QuietSafe
    <2>2. \A i \in Ids : ~launching[i] /\ phase[i] \in {"none", "tracked"}
      BY DEF Quiet
    <2>3. \A i \in Ids : /\ proc[i] # "lingering"
                         /\ proc[i] = "up" => pidfile[keyOf[i]][slotOf[i]] = i
      BY <2>1, <2>2 DEF SafeInv, InstancesOK
    <2>4. ASSUME NEW k \in Keys, NEW s \in Slots, NEW i \in Ids, pidfile[k][s] = i
          PROVE  keyOf[i] = k /\ slotOf[i] = s /\ \E e \in ledger : e.id = i
      BY <2>1, <2>2, <2>4 DEF SafeInv, PidfilesOK, LedgerCovers
    <2> QED
      BY <1>1, <1>2, <2>2, <2>3, <2>4 DEF Adoptable, Awaited
  <1>4. CASE daemon \in {"down", "restoring"}
    <2>1. Adoptable
      BY <1>4 DEF QuietSafe
    <2> QED
      BY <1>1, <1>2, <2>1 DEF Adoptable, Awaited
  <1> QED
    BY <1>3, <1>4 DEF RestartTypeOK

\* Restore comes to the entry of a server: it tracks the one that runs, under its
\* own pid, and its slot is free.
LEMMA RestoreEntryQuiet ==
  ASSUME RestartCounts, RestartCounts', LedgerOwn, LedgerSlotsDistinct, Adoptable,
         NEW e \in ledger, RestoreEntry(e)
  PROVE  LedgerOwn' /\ LedgerSlotsDistinct' /\ Adoptable'
  <1> DEFINE here == pidfile[keyOf[e.id]][slotOf[e.id]]
  <1> USE DEF RestartCounts, CountsInv
  <1>1. e.id \in Ids /\ e.id # NoId /\ slotOf[e.id] \in Slots /\ keyOf[e.id] \in Keys
        /\ e \in entries /\ daemon = "restoring" /\ daemon' = "restoring"
    BY DEF TypeOK, Entries, RestoreEntry
  <1>2. /\ UNCHANGED <<keyOf, slotOf, ledger, launching, proc, capturing, victim>>
        /\ entries' = entries \ {e}
    BY DEF RestoreEntry
  <1>3. LedgerOwn' /\ LedgerSlotsDistinct'
    BY <1>2 DEF LedgerOwn, LedgerSlotsDistinct
  <1>4. here \in {e.id, NoId}
    <2>1. here \in Pids
      BY <1>1 DEF TypeOK
    <2>2. ASSUME here \in Ids PROVE here = e.id
      <3>1. slotOf[here] = slotOf[e.id] /\ \E f \in ledger : f.id = here
        BY <1>1, <2>2 DEF Adoptable, Awaited
      <3> QED
        BY <3>1, EntriesApart
    <2> QED
      BY <2>1, <2>2
  <1>5. RestorePid(e) \in {e.id, NoId}
    BY <1>1, <1>4 DEF RestorePid, LedgerOwn
  <1>6. proc[e.id] = "up" => Survived(e)
    <2>1. ASSUME proc[e.id] = "up" PROVE RestorePid(e) = e.id
      BY <1>1, <2>1 DEF Adoptable, RestorePid
    <2> QED
      BY <1>1, <2>1 DEF Survived, AliveAs, LedgerOwn
  <1>7. Survived(e) => RestorePid(e) = e.id /\ proc[e.id] = "up"
    BY <1>5 DEF Survived, AliveAs
  <1>8. Survived(e) => slotOf[e.id] \notin used
    <2> SUFFICES ASSUME slotOf[e.id] \in used PROVE FALSE
      OBVIOUS
    <2>1. PICK j \in Ids : phase[j] = "tracked" /\ slotOf[j] = slotOf[e.id]
      BY <1>1 DEF PoolAccounts, AwayOK
    <2>2. PICK f \in ledger \ entries : f.id = j
      BY <2>1 DEF Adoptable
    <2> QED
      BY <1>1, <2>1, <2>2, EntriesApart
  <1>9. CASE /\ ~Survived(e)
             /\ pidfile' = [pidfile EXCEPT ![keyOf[e.id]][slotOf[e.id]] = NoId]
             /\ UNCHANGED <<phase, cap, st, used>>
    <2>1. \A k \in Keys, s \in Slots :
            pidfile'[k][s] = IF k = keyOf[e.id] /\ s = slotOf[e.id] THEN NoId ELSE pidfile[k][s]
      BY <1>1, <1>9 DEF TypeOK
    <2>2. ASSUME NEW i \in Ids, proc'[i] = "up" PROVE pidfile'[keyOf'[i]][slotOf'[i]] = i
      <3>1. i # e.id /\ pidfile[keyOf[i]][slotOf[i]] = i /\ keyOf[i] \in Keys /\ slotOf[i] \in Slots
        BY <1>2, <1>6, <1>9, <2>2 DEF Adoptable, TypeOK
      <3> QED
        BY <1>2, <1>4, <2>1, <3>1
    <2>3. ASSUME NEW k \in Keys, NEW s \in Slots, NEW i \in Ids, pidfile'[k][s] = i
          PROVE  keyOf'[i] = k /\ slotOf'[i] = s /\ Awaited(i)'
      <3>1. pidfile[k][s] = i /\ ~(k = keyOf[e.id] /\ s = slotOf[e.id])
        BY <2>1, <2>3
      <3>2. keyOf[i] = k /\ slotOf[i] = s /\ Awaited(i) /\ i # e.id
        BY <3>1 DEF Adoptable
      <3>3. PICK f \in ledger : f.id = i /\ (f \in entries \/ phase[i] = "tracked")
        BY <1>1, <3>2 DEF Awaited
      <3> QED
        BY <1>1, <1>2, <1>9, <3>2, <3>3 DEF Awaited
    <2>4. entries' \subseteq ledger' /\ \A i \in Ids :
             /\ ~launching'[i] /\ proc'[i] # "lingering" /\ victim'[i] = NoId /\ cap'[i] \in {i, NoId}
             /\ phase'[i] = "tracked" => cap'[i] = i /\ st'[i] /\ \E f \in ledger' \ entries' : f.id = i
             /\ phase'[i] = "none" => cap'[i] = NoId /\ ~st'[i]
      BY <1>2, <1>9 DEF Adoptable
    <2>5. capturing' = {}
      BY <1>2 DEF Adoptable
    <2> QED
      BY <1>3, <2>2, <2>3, <2>4, <2>5 DEF Adoptable
  <1>10. CASE /\ Survived(e)
              /\ phase' = [phase EXCEPT ![e.id] = "tracked"]
              /\ cap' = [cap EXCEPT ![e.id] = RestorePid(e)]
              /\ st' = [st EXCEPT ![e.id] = TRUE] /\ UNCHANGED pidfile
    <2>1. \A i \in Ids : /\ phase'[i] = IF i = e.id THEN "tracked" ELSE phase[i]
                         /\ cap'[i] = IF i = e.id THEN e.id ELSE cap[i]
                         /\ st'[i] = IF i = e.id THEN TRUE ELSE st[i]
      BY <1>1, <1>7, <1>10 DEF TypeOK
    <2>2. e \in ledger' \ entries'
      BY <1>2
    <2>0. UNCHANGED pidfile
      BY <1>10
    <2>3. ASSUME NEW i \in Ids
          PROVE  /\ ~launching'[i] /\ proc'[i] # "lingering" /\ victim'[i] = NoId /\ cap'[i] \in {i, NoId}
                 /\ proc'[i] = "up" => pidfile'[keyOf'[i]][slotOf'[i]] = i
      <3>1. /\ ~launching[i] /\ proc[i] # "lingering" /\ victim[i] = NoId /\ cap[i] \in {i, NoId}
            /\ proc[i] = "up" => pidfile[keyOf[i]][slotOf[i]] = i
        BY DEF Adoptable
      <3> QED
        BY <1>2, <2>0, <2>1, <3>1
    <2>4. ASSUME NEW i \in Ids
          PROVE  /\ phase'[i] = "tracked" => cap'[i] = i /\ st'[i] /\ \E f \in ledger' \ entries' : f.id = i
                 /\ phase'[i] = "none" => cap'[i] = NoId /\ ~st'[i]
      <3>1. /\ phase[i] = "tracked" => cap[i] = i /\ st[i] /\ \E f \in ledger \ entries : f.id = i
            /\ phase[i] = "none" => cap[i] = NoId /\ ~st[i]
        BY DEF Adoptable
      <3>2. CASE i = e.id
        BY <2>1, <2>2, <3>2
      <3>3. CASE i # e.id
        BY <1>2, <2>1, <3>1, <3>3
      <3> QED
        BY <3>2, <3>3
    <2>5. ASSUME NEW k \in Keys, NEW s \in Slots, NEW i \in Ids, pidfile'[k][s] = i
          PROVE  keyOf'[i] = k /\ slotOf'[i] = s /\ Awaited(i)'
      <3>1. keyOf[i] = k /\ slotOf[i] = s /\ Awaited(i)
        BY <1>10, <2>5 DEF Adoptable
      <3>2. PICK f \in ledger : f.id = i /\ (f \in entries \/ phase[i] = "tracked")
        BY <1>1, <3>1 DEF Awaited
      <3> QED
        BY <1>1, <1>2, <2>1, <3>1, <3>2 DEF Awaited
    <2>6. capturing' = {} /\ entries' \subseteq ledger'
      BY <1>2 DEF Adoptable
    <2> QED
      BY <1>3, <2>3, <2>4, <2>5, <2>6 DEF Adoptable
  <1> QED
    BY <1>8, <1>9, <1>10 DEF RestoreEntry

\* Restore is over: who runs is tracked, and the spawner's invariant holds again.
LEMMA RestoreDoneQuiet ==
  ASSUME RestartCounts, RestartCounts', LedgerOwn, LedgerSlotsDistinct, Adoptable, RestoreDone
  PROVE  SafeInv' /\ LedgerOwn' /\ LedgerCovers' /\ LedgerSlotsDistinct'
  <1> USE DEF RestartCounts, CountsInv
  <1>1. /\ UNCHANGED <<phase, keyOf, slotOf, cap, st, victim, capturing, launching, proc, pidfile>>
        /\ entries = {} /\ daemon = "restoring" /\ ledger' = Snapshot /\ capturing = {}
    BY DEF RestoreDone, Adoptable
  <1>2. \A k \in Keys, s \in Slots : \A i \in Ids : pidfile[k][s] = i =>
          keyOf[i] = k /\ slotOf[i] = s /\ phase[i] = "tracked"
    BY <1>1 DEF Adoptable, Awaited
  <1>3. PidfilesOK'
    <2>1. \A i \in Ids : ~launching[i]
      BY DEF Adoptable
    <2> QED
      BY <1>1, <1>2, <2>1 DEF PidfilesOK
  <1>4. ASSUME NEW i \in Ids, proc[i] = "up" PROVE phase[i] = "tracked"
    <2>1. pidfile[keyOf[i]][slotOf[i]] = i
      BY <1>4 DEF Adoptable
    <2>2. keyOf[i] \in Keys /\ slotOf[i] \in Slots
      BY DEF TypeOK
    <2> QED
      BY <1>2, <2>1, <2>2
  <1>5. \A i \in Ids : /\ phase[i] \in {"none", "tracked"} /\ proc[i] \in {"none", "up"}
                       /\ cap[i] \in {i, NoId} /\ (st[i] => cap[i] = i)
                       /\ phase[i] = "tracked" => cap[i] = i
    BY <1>1 DEF AwayOK, Adoptable, TypeOK
  <1>6. InstancesOK'
    BY <1>1, <1>4, <1>5 DEF InstancesOK, Adoptable, Present, Live
  <1>7. LedgerOwn'
    BY <1>1, <1>5, OwnWritten DEF LedgerOwn
  <1>8. LedgerCovers' /\ LedgerSlotsDistinct'
    BY <1>1, LedgerWritten
  <1> QED
    BY <1>3, <1>6, <1>7, <1>8 DEF SafeInv

\* A server may die while mock-k8s is away.
LEMMA AwayStep ==
  ASSUME RestartCounts, LedgerOwn, LedgerSlotsDistinct, Adoptable, UNCHANGED daemonVars,
         Environment \/ UNCHANGED vars
  PROVE  LedgerOwn' /\ LedgerSlotsDistinct' /\ Adoptable'
  <1>1. /\ UNCHANGED <<keyOf, slotOf, phase, cap, st, victim, capturing, ledger, pidfile, launching>>
        /\ \A i \in Ids : proc'[i] \in {proc[i], "none"}
    <2>1. CASE UNCHANGED vars
      BY <2>1 DEF vars
    <2>2. ASSUME NEW i \in Ids, Launch(i) \/ LaunchFails(i) \/ Exit(i) PROVE FALSE
      BY <2>2 DEF Launch, LaunchFails, Exit, Adoptable
    <2>3. ASSUME NEW i \in Ids, Crash(i)
          PROVE  /\ UNCHANGED <<keyOf, slotOf, phase, cap, st, victim, capturing, ledger, pidfile,
                                launching>>
                 /\ \A j \in Ids : proc'[j] \in {proc[j], "none"}
      BY <2>3 DEF Crash, RestartCounts, CountsInv, TypeOK
    <2> QED
      BY <2>1, <2>2, <2>3 DEF Environment
  <1>2. UNCHANGED <<daemon, entries>>
    BY DEF daemonVars
  <1> QED
    BY <1>1, <1>2 DEF LedgerOwn, LedgerSlotsDistinct, Adoptable, Awaited

\* While kills succeed, every step keeps what a restart that interrupts nothing
\* relies on.
LEMMA QuietStep ==
  ASSUME Healthy, RestartCounts, RestartCounts', QuietSafe, [RestartNext]_allVars
  PROVE  QuietSafe'
  <1> SUFFICES ASSUME quiet' PROVE QuietSafe'
    BY DEF QuietSafe
  <1>1. quiet
    BY RestartSplit DEF Die, Restart, RestoreDone, Serve, RestoreEntry, Materialize,
                        daemonVars
  <1>2. CASE /\ UNCHANGED daemonVars /\ [Next]_vars
             /\ daemon \in {"down", "restoring"} => Environment \/ UNCHANGED vars
    <2>1. UNCHANGED <<daemon, quiet>>
      BY <1>2 DEF daemonVars
    <2>2. CASE daemon \in {"up", "booting"}
      BY <1>1, <1>2, <2>1, <2>2, ServingStep DEF QuietSafe
    <2>3. CASE daemon \in {"down", "restoring"}
      BY <1>1, <1>2, <2>1, <2>3, AwayStep DEF QuietSafe
    <2> QED
      BY <2>2, <2>3 DEF RestartCounts, RestartTypeOK
  <1>3. CASE Die
    <2>1. Quiet /\ daemon' = "down"
      BY <1>3 DEF Die
    <2> QED
      BY <1>1, <1>3, <2>1, DieQuiet DEF QuietSafe
  <1>4. CASE Restart
    <2>1. LedgerOwn /\ LedgerSlotsDistinct /\ Adoptable
      BY <1>1, <1>4 DEF Restart, QuietSafe
    <2>2. \A i \in Ids : phase[i] = "none"
      BY <1>4 DEF Restart, RestartCounts, AwayOK
    <2>3. UNCHANGED vars /\ daemon' = "restoring" /\ entries' = ledger
      BY <1>4 DEF Restart
    <2> QED
      BY <2>1, <2>2, <2>3 DEF QuietSafe, Adoptable, Awaited, LedgerOwn,
                              LedgerSlotsDistinct, vars
  <1>5. CASE RestoreDone
    <2>1. daemon' = "booting" /\ daemon = "restoring"
      BY <1>5 DEF RestoreDone
    <2> QED
      BY <1>1, <1>5, <2>1, RestoreDoneQuiet DEF QuietSafe
  <1>6. CASE Serve
    <2>1. UNCHANGED vars /\ daemon' = "up" /\ daemon = "booting"
      BY <1>6 DEF Serve
    <2>2. SafeInv /\ LedgerOwn /\ LedgerCovers /\ LedgerSlotsDistinct
      BY <1>1, <2>1 DEF QuietSafe
    <2> QED
      BY <2>1, <2>2, ServingStep DEF QuietSafe
  <1>7. ASSUME NEW e \in ledger, RestoreEntry(e) PROVE QuietSafe'
    <2>1. daemon = "restoring" /\ daemon' = "restoring"
      BY <1>7 DEF RestoreEntry
    <2> QED
      BY <1>1, <1>7, <2>1, RestoreEntryQuiet DEF QuietSafe
  <1>8. ASSUME NEW k \in Keys, Materialize(k) PROVE QuietSafe'
    <2>1. /\ daemon = "booting" /\ daemon' = "booting"
          /\ UNCHANGED <<instVars, ledger, procVars>>
      BY <1>8 DEF Materialize
    <2>2. SafeInv /\ LedgerOwn /\ LedgerCovers /\ LedgerSlotsDistinct
      BY <1>1, <2>1 DEF QuietSafe
    <2>3. InstancesOK' /\ PidfilesOK'
      BY <2>1, <2>2 DEF SafeInv, InstancesOK, PidfilesOK, Present, Live
    <2> QED
      BY <2>1, <2>2, <2>3
      DEF QuietSafe, SafeInv, RestartCounts, LedgerOwn, LedgerCovers, LedgerSlotsDistinct
  <1> QED
    BY <1>2, <1>3, <1>4, <1>5, <1>6, <1>7, <1>8, RestartSplit

LEMMA QuietInit == ASSUME RestartInit PROVE QuietSafe
  BY SafeInit
  DEF RestartInit, Init, QuietSafe, LedgerOwn, LedgerSlotsDistinct, LedgerCovers

\* A restart that interrupts no spawn and no teardown changes nothing about who
\* answers for a server and who owns a port.
THEOREM QuietRestartsSafe == ASSUME Healthy PROVE RestartSpec => []QuietRestartSafe
  <1>1. QuietSafe => QuietRestartSafe
    BY DEF QuietSafe, SafeInv, CountsInv, PoolAccounts, InstancesOK, QuietRestartSafe,
           PortExclusive, NoOrphan
  <1>2. RestartCounts /\ QuietSafe /\ [RestartNext]_allVars => RestartCounts' /\ QuietSafe'
    BY RestartCountsStep, QuietStep
  <1> QED
    BY <1>1, <1>2, RestartCountsInit, QuietInit, PTL DEF RestartSpec

\* After such a restart every server that runs has been re-adopted on its port and
\* under its pid.
THEOREM EveryServerAdopted == ASSUME Healthy PROVE RestartSpec => QuietRestartAdopts
  <1>1. RestartCounts /\ QuietSafe /\ [RestartNext]_allVars => RestartCounts' /\ QuietSafe'
    BY RestartCountsStep, QuietStep
  <1>2. ASSUME RestartCounts, QuietSafe, quiet, RestoreDone, NEW i \in Ids, proc[i] = "up"
        PROVE  phase[i] = "tracked" /\ cap[i] = i /\ slotOf[i] \in used
    <2>1. Adoptable /\ entries = {} /\ daemon = "restoring"
      BY <1>2 DEF QuietSafe, RestoreDone
    <2>2. phase[i] = "tracked" /\ cap[i] = i
      <3>1. pidfile[keyOf[i]][slotOf[i]] = i /\ keyOf[i] \in Keys /\ slotOf[i] \in Slots
        BY <1>2, <2>1 DEF Adoptable, RestartCounts, CountsInv, TypeOK
      <3>2. Awaited(i)
        BY <2>1, <3>1 DEF Adoptable
      <3>3. phase[i] = "tracked"
        BY <2>1, <3>2 DEF Awaited
      <3> QED
        BY <2>1, <3>3 DEF Adoptable
    <2> QED
      BY <1>2, <2>2 DEF RestartCounts, CountsInv, PoolAccounts
  <1>3. RestartCounts /\ QuietSafe =>
          [quiet /\ RestoreDone => \A i \in Ids :
             proc[i] = "up" => phase[i] = "tracked" /\ cap[i] = i /\ slotOf[i] \in used]_allVars
    BY <1>2
  <1> QED
    BY <1>1, <1>3, RestartCountsInit, QuietInit, PTL DEF RestartSpec, QuietRestartAdopts

-----------------------------------------------------------------------------
(***************************************************************************)
(* What main does before it serves.                                        *)
(***************************************************************************)

\* Until the servers of HTTP start, an always-warm map is only ever wanted once.
BootCalls == daemon = "booting" => \A c \in calls : c.key \in Warm => c.want = 1

\* Only main itself wants anything while it boots.
LEMMA BootCallsStep ==
  ASSUME RestartCounts, BootCalls, [RestartNext]_allVars PROVE BootCalls'
  <1> SUFFICES ASSUME daemon' = "booting" PROVE \A c \in calls' : c.key \in Warm => c.want = 1
    BY DEF BootCalls
  <1>1. CASE daemon = "booting" /\ UNCHANGED daemonVars
    <2>1. BootStep \/ Environment \/ UNCHANGED vars
      BY <1>1 DEF RestartNext, allVars, Die, Restart, RestoreDone, Serve,
                  RestoreEntry, Materialize,
                  daemonVars
    <2>2. calls' \subseteq calls
      BY <2>1 DEF BootStep, Changes, OnSpecChange, Locked, SpawnOne, PersistSpawn,
                  SpawnFails, EndUp,
         PersistScaleDown, PersistSweep, TickKey, TickEnd, Goroutine, Capture, CaptureTimeout,
         PersistRecycle, TeardownNothing, TeardownSignal, TeardownKilled, FinishScaleDown,
         Environment, Launch, LaunchFails, Crash, Exit, vars
    <2> QED
      BY <1>1, <2>2 DEF BootCalls
  <1>2. CASE RestoreDone
    BY <1>2 DEF RestoreDone, RestartCounts, AwayOK
  <1>3. ASSUME NEW k \in Keys, Materialize(k) PROVE \A c \in calls' : c.key \in Warm => c.want = 1
    <2>1. PICK b \in Specs : calls' = calls \cup {Call(k, b, IF k \in Warm THEN 1 ELSE 0)}
      BY <1>3 DEF Materialize, Create
    <2>2. calls = {}
      BY <1>3 DEF Materialize
    <2> QED
      BY <2>1, <2>2 DEF Call
  <1> QED
    BY <1>1, <1>2, <1>3, RestartSplit
    DEF Die, Restart, Serve, RestoreEntry, daemonVars

\* A key has an instance listed when its count is not zero.
LEMMA CurrentSome == ASSUME NEW k PROVE Current(k) > 0 <=> Tracked(k) # {}
  <1>1. IsFiniteSet(Tracked(k))
    BY FS_Subset DEF Tracked
  <1> QED
    BY <1>1, FS_EmptySet, FS_CardinalityType DEF Current

\* Also after a step.
LEMMA CurrentSomeAfter == ASSUME NEW k PROVE Current(k)' > 0 <=> Tracked(k)' # {}
  <1>1. IsFiniteSet(Tracked(k)')
    BY FS_Subset DEF Tracked
  <1> QED
    BY <1>1, FS_EmptySet, FS_CardinalityType DEF Current

\* Before main serves only OnSpecChange takes an instance off its list.
LEMMA BootKeeps ==
  ASSUME TypeOK, BootStep \/ Environment \/ UNCHANGED vars,
         ~ \E c \in calls : OnSpecChange(c) /\ ScaleDown(c.key, c.want)
  PROVE  \A i \in Ids : phase[i] \in Listed => phase'[i] \in Listed /\ keyOf'[i] = keyOf[i]
  <1>1. ASSUME NEW i \in Ids, SpawnOne(i) \/ PersistSpawn(i) \/ Capture(i) \/ CaptureTimeout(i)
        PROVE  \A j \in Ids : phase[j] \in Listed => phase'[j] \in Listed /\ keyOf'[j] = keyOf[j]
    BY <1>1 DEF SpawnOne, Fresh, PersistSpawn, Capture, CaptureTimeout, TypeOK
  <1>2. ASSUME NEW i \in Ids, \/ PersistRecycle(i) \/ TeardownNothing(i) \/ TeardownSignal(i)
                              \/ TeardownKilled(i) \/ FinishScaleDown(i)
        PROVE  \A j \in Ids : phase[j] \in Listed => phase'[j] \in Listed /\ keyOf'[j] = keyOf[j]
    BY <1>2 DEF PersistRecycle, TeardownNothing, TeardownSignal, WaitOver, TeardownKilled,
                FinishScaleDown, TypeOK
  <1>3. CASE \/ SpawnFails \/ EndUp \/ PersistSweep \/ TickEnd \/ Environment \/ UNCHANGED vars
             \/ \E k \in Keys : TickKey(k)
    BY <1>3 DEF SpawnFails, EndUp, PersistSweep, TickEnd, TickKey, Environment,
                Launch, LaunchFails,
                Crash, Exit, vars
  <1>4. CASE PersistScaleDown
    BY <1>4 DEF PersistScaleDown
  <1>5. ASSUME NEW c \in calls, OnSpecChange(c)
        PROVE  \A j \in Ids : phase[j] \in Listed => phase'[j] \in Listed /\ keyOf'[j] = keyOf[j]
    <2>1. UNCHANGED <<phase, keyOf>>
      BY <1>5 DEF OnSpecChange
    <2> QED
      BY <2>1
  <1> QED
    BY <1>1, <1>2, <1>3, <1>4, <1>5 DEF BootStep, Changes, Locked, Goroutine

\* main leaves an always-warm map that has a server with one.
LEMMA WarmKept ==
  ASSUME RestartCounts, BootCalls, [RestartNext]_allVars,
         daemon = "booting", daemon' # "down", NEW k \in Warm, Current(k) > 0
  PROVE  Current(k)' > 0
  <1> USE DEF RestartCounts, CountsInv
  <1> SUFFICES Tracked(k)' # {}
    BY CurrentSomeAfter
  <1>1. Tracked(k) # {}
    BY CurrentSome
  <1>2. CASE UNCHANGED <<phase, keyOf>>
    BY <1>1, <1>2 DEF Tracked
  <1>3. CASE (BootStep \/ Environment) /\ ~ \E c \in calls : OnSpecChange(c) /\ ScaleDown(c.key, c.want)
    BY <1>1, <1>3, BootKeeps DEF Tracked
  <1>4. ASSUME NEW c \in calls, OnSpecChange(c), ScaleDown(c.key, c.want) PROVE Tracked(k)' # {}
    <2>1. UNCHANGED keyOf
      BY <1>4 DEF OnSpecChange
    <2>2. PICK keep \in SUBSET Tracked(c.key) :
            /\ Cardinality(keep) = c.want
            /\ \A i \in Ids : phase'[i] = IF i \in Tracked(c.key) \ keep THEN "removed" ELSE phase[i]
      BY <1>4 DEF ScaleDown
    <2>3. CASE c.key = k
      <3>1. Cardinality(keep) = 1
        BY <2>2, <2>3 DEF BootCalls
      <3>2. keep # {}
        BY <3>1, FS_EmptySet
      <3>3. PICK i \in keep : TRUE
        BY <3>2
      <3> QED
        BY <2>1, <2>2, <2>3, <3>3 DEF Tracked
    <2>4. CASE c.key # k
      BY <1>1, <2>1, <2>2, <2>4 DEF Tracked
    <2> QED
      BY <2>3, <2>4
  <1>5. BootStep \/ Environment \/ UNCHANGED <<phase, keyOf>>
    BY DEF RestartNext, allVars, vars, Die, Restart, RestoreDone, Serve, RestoreEntry,
           Materialize
  <1> QED
    BY <1>2, <1>3, <1>4, <1>5

\* Booting, mock-k8s leaves every always-warm map that has a server with one,
\* whatever faults occur and however often it has died.
THEOREM WarmAlwaysStays == RestartSpec => WarmStays
  <1>1. RestartInit => BootCalls
    BY DEF RestartInit, BootCalls
  <1>2. RestartCounts /\ BootCalls /\ [RestartNext]_allVars => RestartCounts' /\ BootCalls'
    BY RestartCountsStep, BootCallsStep
  <1>3. RestartCounts /\ BootCalls /\ [RestartNext]_allVars =>
          [daemon = "booting" /\ daemon' # "down" => \A k \in Warm :
             Current(k) > 0 => Current(k)' > 0]_allVars
    BY WarmKept
  <1> QED
    BY <1>1, <1>2, <1>3, RestartCountsInit, PTL DEF RestartSpec, WarmStays

-----------------------------------------------------------------------------
(***************************************************************************)
(* Several maps, of which MCSpawner runs the calm instance under patches.  *)
(***************************************************************************)

\* The calm instance counts sets as the others do.
LEMMA CalmCounts == ASSUME NEW S PROVE Calm!Cardinality(S) = Cardinality(S)
  BY DEF Calm!Cardinality, Cardinality

LEMMA CalmCurrent == ASSUME NEW k PROVE Calm!Current(k) = Current(k)
  BY CalmCounts DEF Calm!Current, Current, Calm!Tracked, Tracked, Calm!Listed

\* What a writer may do in the calm instance is to patch.
LEMMA CalmWrites == ASSUME "patch" \in Writers, Calm!Write PROVE Write
  <1>1. PICK k \in Keys, n \in Replicas : Calm!Patch(k, n)
    BY DEF Calm!Write, Calm!Scale, Calm!CreateObject, Calm!Delete, Calm!Replicas
  <1>2. Patch(k, n)
    BY <1>1 DEF Calm!Patch, Patch, Calm!Call, Call, Calm!instVars, Calm!backVars,
                Calm!lockVars, Calm!tickVars, Calm!procVars
  <1> QED
    BY <1>2 DEF Write

\* What holds reconcileMu does the same in both instances, but for failing starts.
LEMMA CalmLocked == ASSUME Calm!Locked PROVE Locked
  <1> USE DEF Calm!storeVars, Calm!instVars, Calm!backVars, Calm!lockVars,
              Calm!tickVars, Calm!procVars, Calm!Listed, Calm!Holding, Calm!Draining,
              Calm!Phases, Calm!Slots, Slots, Calm!Pids, Calm!Replicas
  <1>1. ASSUME NEW i \in Ids, Calm!SpawnOne(i) PROVE SpawnOne(i)
    BY <1>1 DEF Calm!SpawnOne, SpawnOne, Calm!LowestFree, LowestFree, Calm!Fresh,
                Fresh, Calm!NoSpawnUnsaved, NoSpawnUnsaved
  <1>2. ASSUME NEW i \in Ids, Calm!PersistSpawn(i) PROVE PersistSpawn(i)
    BY <1>2 DEF Calm!PersistSpawn, PersistSpawn, Calm!Snapshot, Snapshot, Calm!Entry,
                Entry
  <1>3. ASSUME Calm!SpawnFails PROVE SpawnFails
    BY <1>3 DEF Calm!SpawnFails, SpawnFails, Calm!Fresh, Fresh, Calm!NoSpawnUnsaved,
                NoSpawnUnsaved
  <1>4. ASSUME Calm!EndUp PROVE EndUp
    BY <1>4 DEF Calm!EndUp, EndUp, Calm!NoSpawnUnsaved, NoSpawnUnsaved
  <1>5. ASSUME Calm!PersistScaleDown PROVE PersistScaleDown
    BY <1>5 DEF Calm!PersistScaleDown, PersistScaleDown, Calm!Snapshot, Snapshot,
                Calm!Entry, Entry
  <1>6. ASSUME Calm!PersistSweep PROVE PersistSweep
    BY <1>6 DEF Calm!PersistSweep, PersistSweep, Calm!Snapshot, Snapshot, Calm!Entry,
                Entry
  <1>7. ASSUME NEW k \in Keys, Calm!TickKey(k) PROVE TickKey(k)
    BY <1>7, CalmCurrent DEF Calm!TickKey, TickKey, Calm!NoSpawnUnsaved,
                             NoSpawnUnsaved, Calm!ReconcileUp, ReconcileUp
  <1>8. ASSUME Calm!TickEnd PROVE TickEnd
    BY <1>8 DEF Calm!TickEnd, TickEnd, Calm!NoSpawnUnsaved, NoSpawnUnsaved
  <1> QED
    BY <1>1, <1>2, <1>3, <1>4, <1>5, <1>6, <1>7, <1>8 DEF Calm!Locked, Locked

\* So do the calls of OnSpecChange and the sweep.
LEMMA CalmChanges == ASSUME Calm!Changes \/ Calm!Sweep PROVE Changes \/ Sweep
  <1> USE DEF Calm!storeVars, Calm!instVars, Calm!backVars, Calm!lockVars,
              Calm!tickVars, Calm!procVars, Calm!Listed, Calm!Holding, Calm!Draining,
              Calm!Phases, Calm!Slots, Slots, Calm!Pids, Calm!Replicas
  <1>1. ASSUME NEW c \in calls, Calm!OnSpecChange(c) PROVE OnSpecChange(c)
    BY <1>1, CalmCounts, CalmCurrent DEF Calm!OnSpecChange, OnSpecChange,
                                         Calm!ScaleDown, ScaleDown, Calm!ReconcileUp,
                                         ReconcileUp, Calm!Tracked, Tracked
  <1>2. ASSUME Calm!Sweep PROVE Sweep
    BY <1>2 DEF Calm!Sweep, Sweep, Calm!DeadIds, DeadIds, Calm!Dead, Dead,
                Calm!AliveAs, AliveAs
  <1> QED
    BY <1>1, <1>2 DEF Calm!Changes, Changes

\* And an instance's own goroutines, which wait for launchers here and never see
\* a kill fail.
LEMMA CalmGoroutine ==
  ASSUME NEW i \in Ids, Calm!Goroutine(i) \/ Calm!TeardownFails(i)
  PROVE  HealthyGoroutine(i)
  <1> USE DEF Calm!storeVars, Calm!instVars, Calm!backVars, Calm!lockVars,
              Calm!tickVars, Calm!procVars, Calm!Listed, Calm!Holding, Calm!Draining,
              Calm!Phases, Calm!Slots, Slots, Calm!Pids, Calm!Replicas
  <1>1. ASSUME Calm!Capture(i) PROVE Capture(i)
    BY <1>1 DEF Calm!Capture, Capture, Calm!Tracked, Tracked, Calm!Snapshot, Snapshot,
                Calm!Entry, Entry
  <1>2. ASSUME Calm!CaptureTimeout(i) PROVE CaptureTimeout(i) /\ ~launching[i]
    BY <1>2 DEF Calm!CaptureTimeout, CaptureTimeout
  <1>3. ASSUME Calm!PersistRecycle(i) PROVE PersistRecycle(i)
    BY <1>3 DEF Calm!PersistRecycle, PersistRecycle, Calm!Snapshot, Snapshot,
                Calm!Entry, Entry
  <1>4. ASSUME Calm!TeardownNothing(i)
        PROVE  TeardownNothing(i) /\ (i \notin capturing \/ ~launching[i])
    BY <1>4 DEF Calm!TeardownNothing, TeardownNothing, Calm!WaitOver, WaitOver,
                Calm!PidOf, PidOf, Calm!NotRecorded, NotRecorded, Calm!AliveAs,
                AliveAs
  <1>5. ASSUME Calm!TeardownSignal(i)
        PROVE  TeardownSignal(i) /\ (i \notin capturing \/ ~launching[i])
    BY <1>5 DEF Calm!TeardownSignal, TeardownSignal, Calm!WaitOver, WaitOver,
                Calm!PidOf, PidOf, Calm!NotRecorded, NotRecorded, Calm!AliveAs,
                AliveAs
  <1>6. ASSUME Calm!TeardownKilled(i) PROVE TeardownKilled(i)
    BY <1>6 DEF Calm!TeardownKilled, TeardownKilled, Calm!Live, Live
  <1>7. ASSUME Calm!FinishScaleDown(i) PROVE FinishScaleDown(i)
    BY <1>7 DEF Calm!FinishScaleDown, FinishScaleDown, Calm!Snapshot, Snapshot,
                Calm!Entry, Entry
  <1>8. ~Calm!TeardownFails(i)
    BY DEF Calm!TeardownFails
  <1> QED
    BY <1>1, <1>2, <1>3, <1>4, <1>5, <1>6, <1>7, <1>8 DEF Calm!Goroutine, HealthyGoroutine

\* And Recycle.
LEMMA CalmRecycle ==
  ASSUME NEW i \in Ids, Calm!Recycle(i) \/ Calm!Recycled(i)
  PROVE  Recycle(i) \/ Recycled(i)
  <1> USE DEF Calm!storeVars, Calm!instVars, Calm!backVars, Calm!lockVars,
              Calm!tickVars, Calm!procVars, Calm!Listed, Calm!Holding, Calm!Draining,
              Calm!Phases, Calm!Slots, Slots, Calm!Pids, Calm!Replicas
  <1>1. ASSUME Calm!Recycle(i) PROVE Recycle(i)
    BY <1>1 DEF Calm!Recycle, Recycle
  <1>2. ASSUME Calm!RecycleDone(i) PROVE RecycleDone(i)
    BY <1>2, CalmCurrent DEF Calm!RecycleDone, RecycleDone, Calm!ReconcileUp,
                             ReconcileUp, Calm!Snapshot, Snapshot, Calm!Entry, Entry
  <1>3. ASSUME Calm!RecycleKept(i) PROVE RecycleKept(i)
    BY <1>3 DEF Calm!RecycleKept, RecycleKept, Calm!Snapshot, Snapshot, Calm!Entry, Entry
  <1> QED
    BY <1>1, <1>2, <1>3 DEF Calm!Recycled, Recycled

\* Servers start and exit, and none crashes.
LEMMA CalmEnvironment == ASSUME Calm!Environment PROVE Environment
  <1> USE DEF Calm!storeVars, Calm!instVars, Calm!backVars, Calm!lockVars,
              Calm!tickVars, Calm!procVars, Calm!Listed, Calm!Holding, Calm!Draining,
              Calm!Phases, Calm!Slots, Slots, Calm!Pids, Calm!Replicas
  <1>1. PICK i \in Ids : Calm!Launch(i) \/ Calm!Exit(i)
    BY DEF Calm!Environment, Calm!LaunchFails, Calm!Crash
  <1>2. Launch(i) \/ Exit(i)
    BY <1>1 DEF Calm!Launch, Launch, Calm!Exit, Exit
  <1> QED
    BY <1>2 DEF Environment

\* The calm instance takes healthy steps only.
LEMMA CalmSteps == ASSUME "patch" \in Writers, Calm!Next PROVE HealthyNext
  <1>1. ASSUME NEW k \in Keys, Calm!BackoffExpires(k) PROVE BackoffExpires(k)
    BY <1>1 DEF Calm!BackoffExpires, BackoffExpires, Calm!storeVars, Calm!instVars,
                Calm!backVars, Calm!lockVars, Calm!tickVars, Calm!procVars,
        Calm!Listed, Calm!Holding, Calm!Draining, Calm!Phases, Calm!Slots, Slots, Calm!Pids, Calm!Replicas
  <1> QED
    BY <1>1, CalmWrites, CalmLocked, CalmChanges, CalmGoroutine, CalmRecycle, CalmEnvironment
    DEF Calm!Next, Calm!SpawnerNext, HealthyNext

\* What holds unless the instance with the faults was chosen.
MapsInv ==
  /\ focus # "faulty" => SafeInv
  /\ focus = "none" => todo = {}

\* Choosing which objects exist changes nothing else.
LEMMA ChoosesSafe == ASSUME SafeInv, todo = {}, Chooses PROVE SafeInv'
  <1>1. base' \in [Keys -> Specs \cup {NoSpec}] /\ listed' = base'
    BY DEF Chooses, SafeInv, CountsInv, TypeOK
  <1>2. TypeOK'
    BY <1>1 DEF Chooses, SafeInv, CountsInv, TypeOK
  <1>3. PoolAccounts' /\ DrainingCounts' /\ LockOK'
    <2>1. UNCHANGED <<instVars, used, draining, lockVars>>
      BY DEF Chooses
    <2>2. PoolAccounts'
      BY <2>1 DEF SafeInv, CountsInv, PoolAccounts
    <2>3. DrainingCounts'
      BY <2>1 DEF SafeInv, CountsInv, DrainingCounts, DrainingIds
    <2>4. LockOK'
      BY <2>1 DEF Chooses, SafeInv, CountsInv, LockOK
    <2> QED
      BY <2>2, <2>3, <2>4
  <1>4. InstancesOK' /\ PidfilesOK'
    BY DEF Chooses, SafeInv, InstancesOK, PidfilesOK, Present, Live
  <1> QED
    BY <1>2, <1>3, <1>4 DEF SafeInv, CountsInv

\* Among any number of maps that are patched while nothing fails, no two servers
\* are on the same ports, and a teardown signals its own server only.
THEOREM MapsAlwaysApart ==
  ASSUME "patch" \in Writers PROVE SafetySpec => []MapsApart
  <1>1. SafetyInit => MapsInv
    BY SafeInit DEF SafetyInit, MapsInv, Init
  <1>2. MapsInv /\ [Chooses \/ Runs]_<<focus, vars>> => MapsInv'
    <2> SUFFICES ASSUME MapsInv, [Chooses \/ Runs]_<<focus, vars>>, focus' # "faulty"
                 PROVE  SafeInv' /\ (focus' = "none" => todo' = {})
      BY DEF MapsInv
    <2>1. CASE Chooses
      BY <2>1, ChoosesSafe DEF MapsInv, Chooses
    <2>2. CASE Runs
      <3>1. focus = "calm" /\ Calm!Next
        BY <2>2 DEF Runs
      <3> QED
        BY <2>2, <3>1, CalmSteps, HealthyKeepsSafe DEF MapsInv, Runs
    <2>3. CASE UNCHANGED <<focus, vars>>
      <3>1. SafeInv /\ UNCHANGED vars /\ (focus' = "none" => todo' = {})
        BY <2>3 DEF MapsInv, vars
      <3> QED
        BY <3>1, HealthyKeepsSafe
    <2> QED
      BY <2>1, <2>2, <2>3
  <1>3. MapsInv => MapsApart
    BY DEF MapsInv, MapsApart, SafeInv, CountsInv, PoolAccounts, InstancesOK,
           PortExclusive,
           OwnVictim
  <1> QED
    BY <1>1, <1>2, <1>3, PTL DEF SafetySpec
=============================================================================
