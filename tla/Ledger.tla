-------------------------------- MODULE Ledger --------------------------------
(***************************************************************************)
(* Spawner.persist and state.Save: how the instance ledger reaches disk.   *)
(*                                                                         *)
(* Many goroutines call persist at once. Each takes a snapshot and a       *)
(* generation under Spawner.mu, then competes for saveMu, skips a write    *)
(* that lost the race, and otherwise writes a temporary file and renames   *)
(* it over the ledger. A write may fail; mock-k8s may die at any point.    *)
(* The lists a snapshot copies are one version number from 1 up, a new one *)
(* for each change; version 0 is a file that is not complete.              *)
(***************************************************************************)
EXTENDS Naturals

CONSTANTS
    Callers,      \* goroutines that call persist
    NoCaller,     \* saveMu is free
    MaxVersion,   \* bound on the changes of the lists
    MaxGen        \* bound on the persists of one boot

ASSUME LedgerAssumption ==
    MaxVersion \in Nat /\ MaxGen \in Nat /\ NoCaller \notin Callers

VARIABLES
    mem,          \* version of Spawner.instances
    newest,       \* highest version given out
    had,          \* history: the versions mem had since the last boot
    disk,         \* version in the ledger file
    tmp,          \* version in the temporary file
    gen,          \* persistGen
    lastSavedGen,
    saver,        \* holder of saveMu
    pc,           \* caller: "idle", "snapped", "saving", "writing", "renaming"
    snap,         \* caller: version its snapshot copied
    snapGen,      \* caller: generation of its last persist, 0 if that failed
    daemon        \* "up", "down"

ledgerVars == <<mem, newest, had, disk>>
callVars   == <<pc, snap, snapGen>>
vars == <<ledgerVars, tmp, gen, lastSavedGen, saver, callVars, daemon>>

Saving == {"saving", "writing", "renaming"}

Init ==
    /\ mem = 1 /\ newest = 1 /\ had = {1} /\ disk = 1 /\ tmp = 0
    /\ gen = 0 /\ lastSavedGen = 0 /\ saver = NoCaller
    /\ pc = [c \in Callers |-> "idle"]
    /\ snap = [c \in Callers |-> 0]
    /\ snapGen = [c \in Callers |-> 0]
    /\ daemon = "up"

\* An instance is added, removed, or given its pid, under Spawner.mu.
Change ==
    /\ daemon = "up" /\ newest < MaxVersion
    /\ newest' = newest + 1 /\ mem' = newest'
    /\ had' = had \cup {newest'}
    /\ UNCHANGED <<disk, tmp, gen, lastSavedGen, saver, callVars, daemon>>

\* persist takes its snapshot and generation under Spawner.mu.
Snapshot(c) ==
    /\ daemon = "up" /\ gen < MaxGen
    /\ pc[c] = "idle"
    /\ gen' = gen + 1
    /\ snap' = [snap EXCEPT ![c] = mem]
    /\ snapGen' = [snapGen EXCEPT ![c] = gen']
    /\ pc' = [pc EXCEPT ![c] = "snapped"]
    /\ UNCHANGED <<ledgerVars, tmp, lastSavedGen, saver, daemon>>

\* Broken form for Durable: the generations are not compared.
LockAlways(c) ==
    /\ pc[c] = "snapped" /\ saver = NoCaller
    /\ pc' = [pc EXCEPT ![c] = "saving"] /\ saver' = c
    /\ UNCHANGED <<ledgerVars, tmp, gen, lastSavedGen, snap, snapGen, daemon>>

\* It gets saveMu, and returns at once if a newer snapshot reached the disk.
Lock(c) ==
    /\ pc[c] = "snapped" /\ saver = NoCaller
    /\ IF snapGen[c] <= lastSavedGen
       THEN pc' = [pc EXCEPT ![c] = "idle"] /\ UNCHANGED saver
       ELSE pc' = [pc EXCEPT ![c] = "saving"] /\ saver' = c
    /\ UNCHANGED <<ledgerVars, tmp, gen, lastSavedGen, snap, snapGen, daemon>>

\* Broken form for IsRegister: the ledger itself is truncated and rewritten.
OpenInPlace(c) ==
    /\ pc[c] = "saving"
    /\ disk' = 0
    /\ pc' = [pc EXCEPT ![c] = "writing"]
    /\ UNCHANGED <<mem, newest, had, tmp, gen, lastSavedGen, saver, snap, snapGen,
                   daemon>>

\* state.Save truncates the temporary file, then writes it.
OpenTmp(c) ==
    /\ pc[c] = "saving"
    /\ tmp' = 0
    /\ pc' = [pc EXCEPT ![c] = "writing"]
    /\ UNCHANGED <<ledgerVars, gen, lastSavedGen, saver, snap, snapGen, daemon>>

WriteTmp(c) ==
    /\ pc[c] = "writing"
    /\ tmp' = snap[c]
    /\ pc' = [pc EXCEPT ![c] = "renaming"]
    /\ UNCHANGED <<ledgerVars, gen, lastSavedGen, saver, snap, snapGen, daemon>>

\* It renames the file into place; persist records the generation and unlocks.
Rename(c) ==
    /\ pc[c] = "renaming"
    /\ disk' = tmp
    /\ lastSavedGen' = snapGen[c]
    /\ saver' = NoCaller
    /\ pc' = [pc EXCEPT ![c] = "idle"]
    /\ UNCHANGED <<mem, newest, had, tmp, gen, snap, snapGen, daemon>>

\* A write or the rename fails: persist counts the error and unlocks.
SaveFails(c) ==
    /\ pc[c] \in Saving
    /\ saver' = NoCaller
    /\ pc' = [pc EXCEPT ![c] = "idle"]
    /\ snapGen' = [snapGen EXCEPT ![c] = 0]
    /\ UNCHANGED <<ledgerVars, tmp, gen, lastSavedGen, snap, daemon>>

\* mock-k8s dies; a half-written temporary file stays behind.
Die ==
    /\ daemon = "up"
    /\ daemon' = "down"
    /\ gen' = 0 /\ lastSavedGen' = 0 /\ saver' = NoCaller
    /\ pc' = [c \in Callers |-> "idle"]
    /\ snapGen' = [c \in Callers |-> 0]
    /\ UNCHANGED <<ledgerVars, tmp, snap>>

\* Restore loads the ledger.
Boot ==
    /\ daemon = "down"
    /\ daemon' = "up"
    /\ mem' = disk /\ had' = {disk}
    /\ UNCHANGED <<newest, disk, tmp, gen, lastSavedGen, saver, callVars>>

\* Restore cannot read it (not corrupt: EIO, EACCES) and leaves it alone.
BootUnreadable ==
    /\ daemon = "down" /\ newest < MaxVersion
    /\ daemon' = "up"
    /\ newest' = newest + 1 /\ mem' = newest'
    /\ had' = {newest'}
    /\ UNCHANGED <<disk, tmp, gen, lastSavedGen, saver, callVars>>

Persist(c) ==
    \/ Snapshot(c) \/ Lock(c) \/ OpenTmp(c) \/ WriteTmp(c) \/ Rename(c) \/ SaveFails(c)

Next ==
    \/ Change
    \/ \E c \in Callers : Persist(c)
    \/ Die \/ Boot \/ BootUnreadable

Spec == Init /\ [][Next]_vars

-----------------------------------------------------------------------------
\* The types of the variables.
TypeOK ==
    /\ mem \in Nat /\ newest \in Nat /\ disk \in Nat /\ tmp \in Nat
    /\ had \subseteq Nat
    /\ gen \in Nat /\ lastSavedGen \in Nat
    /\ saver \in Callers \cup {NoCaller}
    /\ pc \in [Callers -> {"idle", "snapped"} \cup Saving]
    /\ snap \in [Callers -> Nat] /\ snapGen \in [Callers -> Nat]
    /\ daemon \in {"up", "down"}

\* A persist that returned without an error left its snapshot, or a newer one, in
\* the ledger, however the callers raced for saveMu and whichever of their writes
\* failed (spawner.go: "a stale snapshot can never clobber a newer ledger").
Durable ==
    \A c \in Callers : pc[c] = "idle" /\ snapGen[c] # 0 => disk >= snap[c]

\* The ledger is the register LedgerRegister promises: never torn, never older,
\* never a state the spawner did not have.
Register == INSTANCE LedgerRegister
IsRegister == Register!RegisterSpec

(***************************************************************************)
(* The inductive invariant. What orders the generations also orders the    *)
(* snapshots and the file.                                                 *)
(***************************************************************************)
SaverOK ==
    \A c \in Callers : pc[c] \in Saving <=> saver = c

GensOK ==
    /\ lastSavedGen <= gen
    /\ \A c \in Callers :
        /\ snapGen[c] <= gen
        /\ pc[c] \in Saving => snapGen[c] > lastSavedGen
        /\ pc[c] = "renaming" => tmp = snap[c]
        /\ pc[c] # "idle" => snapGen[c] # 0
        /\ pc[c] = "idle" => snapGen[c] <= lastSavedGen

VersionsOK ==
    /\ mem <= newest /\ disk <= mem
    /\ \A v \in had : v <= newest
    /\ mem \in had

SnapsOK ==
    \A c \in Callers : snapGen[c] # 0 =>
        /\ snap[c] <= mem /\ snap[c] \in had
        /\ snapGen[c] <= lastSavedGen => snap[c] <= disk
        /\ snapGen[c] > lastSavedGen => snap[c] >= disk
        /\ \A d \in Callers :
            snapGen[d] # 0 /\ snapGen[c] <= snapGen[d] => snap[c] <= snap[d]

DownOK == daemon = "down" => \A c \in Callers : pc[c] = "idle" /\ snapGen[c] = 0

LedgerInv == TypeOK /\ SaverOK /\ GensOK /\ VersionsOK /\ SnapsOK /\ DownOK
=============================================================================
