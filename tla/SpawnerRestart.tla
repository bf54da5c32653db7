---------------------------- MODULE SpawnerRestart ----------------------------
(***************************************************************************)
(* mock-k8s restarting around its spawner (cmd/mock-k8s/main.go, boot, and *)
(* Spawner.Restore): the process dies at any moment and loses its memory - *)
(* store, lists, pool, draining counts, pending calls - while launchers,   *)
(* servers, pidfiles and the instance ledger stay. At boot it re-adopts    *)
(* what the ledger names, creates one object per map recipe, and only then *)
(* serves requests and reconciles.                                         *)
(***************************************************************************)
EXTENDS Spawner

CONSTANTS
    Warm,         \* the AlwaysWarm maps: their recipe has one replica
    MaxRestarts   \* bound on how often mock-k8s dies

ASSUME RestartAssumption == Warm \subseteq Keys /\ MaxRestarts \in Nat

VARIABLES
    daemon,       \* "up", "down", "restoring", or "booting" (creating objects)
    entries,      \* ledger entries Restore has not come to
    recipes,      \* keys MaterializeAll has not come to
    restarts,     \* how often it died
    quiet         \* it only ever died while nothing was starting or stopping

daemonVars == <<daemon, entries, recipes, restarts, quiet>>
allVars == <<vars, daemonVars>>

\* No spawn between cmd.Start and the recording of its pid, no teardown at work.
Quiet == /\ capturing = {}
         /\ \A i \in Ids : ~launching[i] /\ phase[i] \in {"none", "tracked"}

\* mock-k8s dies. An object of the store is gone with it, and so is every
\* goroutine; a process it had signalled still exits.
Die ==
    /\ daemon # "down" /\ restarts < MaxRestarts
    /\ daemon' = "down" /\ restarts' = restarts + 1
    /\ quiet' = (quiet /\ Quiet)
    /\ base' = [k \in Keys |-> NoSpec] /\ calls' = {}
    /\ phase' = [i \in Ids |-> "none"]
    /\ recycling' = [i \in Ids |-> FALSE]
    /\ capturing' = {}
    /\ cap' = [i \in Ids |-> NoId] /\ st' = [i \in Ids |-> FALSE]
    /\ victim' = [i \in Ids |-> NoId]
    /\ used' = {} /\ draining' = [k \in Keys |-> 0]
    /\ failures' = [k \in Keys |-> 0] /\ held' = [k \in Keys |-> FALSE]
    /\ holder' = "none" /\ left' = 0
    /\ todo' = {} /\ reaped' = {} /\ listed' = [k \in Keys |-> NoSpec]
    /\ entries' = {} /\ recipes' = {}
    /\ UNCHANGED <<heap, keyOf, slotOf, ledger, target, procVars>>

\* Broken form for QuietRestartSafe: main creates the objects without Restore.
RestartUnrestored ==
    /\ daemon = "down"
    /\ daemon' = "booting" /\ entries' = {} /\ recipes' = Keys
    /\ UNCHANGED <<vars, restarts, quiet>>

\* It comes back: Restore loads the ledger.
Restart ==
    /\ daemon = "down"
    /\ daemon' = "restoring" /\ entries' = ledger
    /\ UNCHANGED <<vars, recipes, restarts, quiet>>

\* The pid Restore probes: the pidfile's, else the ledger's.
RestorePid(e) ==
    IF pidfile[keyOf[e.id]][slotOf[e.id]] # NoId
    THEN pidfile[keyOf[e.id]][slotOf[e.id]] ELSE e.pid

\* Broken form for QuietRestartAdopts: only an entry that was never captured, and
\* so has no start time to compare, is alive.
SurvivedUnrecorded(e) == AliveAs(RestorePid(e)) /\ ~e.st

\* Alive and, when the ledger has a start time, still the recorded process.
Survived(e) == AliveAs(RestorePid(e)) /\ (e.st => RestorePid(e) = e.pid)

\* Broken form for RestartAccounts: a live entry is tracked without AcquireSpecific.
RestoreUnreserved(e) ==
    /\ daemon = "restoring" /\ e \in entries /\ Survived(e)
    /\ entries' = entries \ {e}
    /\ phase' = [phase EXCEPT ![e.id] = "tracked"]
    /\ cap' = [cap EXCEPT ![e.id] = RestorePid(e)]
    /\ st' = [st EXCEPT ![e.id] = TRUE]
    /\ UNCHANGED <<storeVars, keyOf, slotOf, recycling, capturing, victim, used,
                   draining, backVars, ledger, lockVars, tickVars, procVars, daemon,
                   recipes, restarts, quiet>>

\* A dead entry is dropped with its pidfile; a live one gets its slot back and is
\* tracked with the pid found, unless the slot is taken.
RestoreEntry(e) ==
    /\ daemon = "restoring" /\ e \in entries
    /\ entries' = entries \ {e}
    /\ \/ /\ ~Survived(e)
          /\ pidfile' = [pidfile EXCEPT ![keyOf[e.id]][slotOf[e.id]] = NoId]
          /\ UNCHANGED <<phase, cap, st, used>>
       \/ /\ Survived(e) /\ slotOf[e.id] \notin used
          /\ used' = used \cup {slotOf[e.id]}
          /\ phase' = [phase EXCEPT ![e.id] = "tracked"]
          /\ cap' = [cap EXCEPT ![e.id] = RestorePid(e)]
          /\ st' = [st EXCEPT ![e.id] = TRUE]
          /\ UNCHANGED pidfile
       \/ /\ Survived(e) /\ slotOf[e.id] \in used
          /\ UNCHANGED <<phase, cap, st, used, pidfile>>
    /\ UNCHANGED <<storeVars, keyOf, slotOf, recycling, capturing, victim, draining,
                   backVars, ledger, lockVars, tickVars, launching, proc, daemon,
                   recipes, restarts, quiet>>

\* Restore persists what it adopted; main goes on to MaterializeAll.
RestoreDone ==
    /\ daemon = "restoring" /\ entries = {}
    /\ daemon' = "booting" /\ recipes' = Keys
    /\ ledger' = Snapshot
    /\ UNCHANGED <<storeVars, instVars, used, draining, backVars, lockVars, tickVars,
                   procVars, entries, restarts, quiet>>

\* Broken form for WarmStays: every recipe has no replicas.
MaterializeCold(k) ==
    /\ daemon = "booting" /\ k \in recipes
    /\ calls = {} /\ holder = "none"
    /\ Create(k, 0)
    /\ recipes' = recipes \ {k}
    /\ UNCHANGED <<instVars, used, draining, backVars, ledger, lockVars, tickVars,
                   procVars, daemon, entries, restarts, quiet>>

\* MaterializeAll creates the next object. Its callback runs in the goroutine of
\* main: the one before has returned.
Materialize(k) ==
    /\ daemon = "booting" /\ k \in recipes
    /\ calls = {} /\ holder = "none"
    /\ Create(k, IF k \in Warm THEN 1 ELSE 0)
    /\ recipes' = recipes \ {k}
    /\ UNCHANGED <<instVars, used, draining, backVars, ledger, lockVars, tickVars,
                   procVars, daemon, entries, restarts, quiet>>

\* The servers of HTTP and of the reconcile loop start.
Serve ==
    /\ daemon = "booting" /\ recipes = {} /\ calls = {} /\ holder = "none"
    /\ daemon' = "up"
    /\ UNCHANGED <<vars, entries, recipes, restarts, quiet>>

RestartInit ==
    /\ Init
    /\ daemon = "up" /\ entries = {} /\ recipes = {} /\ restarts = 0 /\ quiet = TRUE

\* What the spawner does while main is still creating objects.
BootStep ==
    \/ Changes
    \/ Locked
    \/ \E i \in Ids : Goroutine(i)

RestartNext ==
    \/ /\ \/ daemon = "up" /\ SpawnerNext
          \/ daemon = "booting" /\ BootStep
          \/ Environment
       /\ UNCHANGED daemonVars
    \/ Die \/ Restart \/ RestoreDone \/ Serve
    \/ \E e \in ledger : RestoreEntry(e)
    \/ \E k \in Keys : Materialize(k)

RestartSpec == RestartInit /\ [][RestartNext]_allVars

-----------------------------------------------------------------------------
\* The types, Spawner's included.
RestartTypeOK ==
    /\ TypeOK
    /\ daemon \in {"up", "down", "restoring", "booting"}
    /\ entries \subseteq Entries /\ recipes \subseteq Keys
    /\ restarts \in 0 .. MaxRestarts /\ quiet \in BOOLEAN

\* The types, and across every restart the slots in use are those of the instances
\* that hold one: Restore takes each of them with AcquireSpecific.
RestartAccounts == RestartTypeOK /\ PoolAccounts

\* A restart that interrupts no spawn and no teardown changes nothing about who
\* answers for a server and who owns a port: while mock-k8s serves, every server is
\* on a list or being brought down, and no two share a slot.
QuietRestartSafe ==
    quiet /\ daemon \in {"booting", "up"} => PortExclusive /\ NoOrphan

\* After such a restart Restore has re-adopted every server that runs, each under
\* its own pid (main.go: "Re-adopt UE5 instances that survived a mock-k8s restart
\* (same ports, same pids)").
QuietRestartAdopts ==
    [][quiet /\ RestoreDone => \A i \in Ids :
          proc[i] = "up" => phase[i] = "tracked" /\ cap[i] = i /\ slotOf[i] \in used]_allVars

\* Booting, mock-k8s leaves an always-warm map that still has a server with one.
WarmStays ==
    [][daemon = "booting" /\ daemon' # "down" => \A k \in Warm :
          Current(k) > 0 => Current(k)' > 0]_allVars

\* Booting, it takes no re-adopted server down (main.go: non-warm recipes carry
\* "replicas 0, so this creates records, not servers").
AdoptedStays ==
    [][daemon = "booting" /\ daemon' # "down" => \A i \in Ids :
          phase[i] = "tracked" => phase'[i] = "tracked"]_allVars

=============================================================================
