---------------------------- MODULE LedgerRegister ----------------------------
(***************************************************************************)
(* What the instance ledger promises: the file holds a state the spawner   *)
(* really had since it booted, never goes back to an older one while it    *)
(* runs, and at boot the spawner takes over what the file says (or, when   *)
(* the file cannot be read, starts from nothing).                          *)
(***************************************************************************)
EXTENDS Naturals

VARIABLES
    mem,      \* the version of the instance lists in memory
    newest,   \* the highest version given out
    had,      \* the versions mem had since the last boot
    disk      \* the version in the file

registerVars == <<mem, newest, had, disk>>

RegisterInit == mem = 1 /\ newest = 1 /\ had = {1} /\ disk = 1

Advance ==
    /\ newest' = newest + 1 /\ mem' = newest + 1
    /\ had' = had \cup {newest + 1}
    /\ UNCHANGED disk

Store ==
    /\ \E v \in had : v > disk /\ disk' = v
    /\ UNCHANGED <<mem, newest, had>>

TakeOver ==
    /\ mem' = disk /\ had' = {disk}
    /\ UNCHANGED <<newest, disk>>

StartFresh ==
    /\ newest' = newest + 1 /\ mem' = newest + 1
    /\ had' = {newest + 1}
    /\ UNCHANGED disk

RegisterNext == Advance \/ Store \/ TakeOver \/ StartFresh

RegisterSpec == RegisterInit /\ [][RegisterNext]_registerVars
=============================================================================
