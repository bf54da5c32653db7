------------------------------ MODULE WorldReset ------------------------------
(***************************************************************************)
(* The reversible world reset: markers that the panel arms                 *)
(* (src/scripts/admin_worldreset.py), the hook that consumes them at boot  *)
(* (src/scripts/apply-world-reset.sh) and what prestart.sh then makes of   *)
(* the data directory and the schema sentinel it finds.                    *)
(*                                                                         *)
(* A world is the content of one data directory, and is known by a number; *)
(* a directory is moved in one rename, so a world is in one place.  The    *)
(* sentinel, schema-loaded, is outside of it.  The power may go off between any two  *)
(* steps of a boot.                                                        *)
(***************************************************************************)
EXTENDS Integers, SequencesExt

CONSTANTS
  MaxWorlds,   \* bound: worlds made
  ResetOps,    \* bound: what the operator arms or cancels
  ResetFaults, \* bound: renames and writes that fail
  PowerCuts    \* bound: boots that are cut short

ASSUME ResetAssumption ==
  /\ MaxWorlds \in Nat \ {0} /\ {ResetOps, ResetFaults, PowerCuts} \subseteq Nat

KeepWorlds == 2   \* prune_preserved: how many pg.pre-reset-* stay
KeepParked == 1   \* and how many pg.rolled-back-*
NoWorld == 0

VARIABLES
  pg,             \* the world in server/state/pg, or NoWorld
  preserved,      \* those in pg.pre-reset-*, newest first
  parked,         \* those in pg.rolled-back-*, newest first
  sentinel,       \* schema-loaded is there
  worlds,         \* how many data directories initdb has made
  schema,         \* the worlds with a schema
  resetMarker,    \* world-reset-pending.json: FALSE, or armed
  rollbackMarker, \* world-rollback-pending.json: the world it names, or NoWorld
  backupOk,       \* the backup the reset marker names checks out
  boot,           \* where the boot is
  setAside,       \* the hook: the world it has moved out of pg, or NoWorld
  resetOps, resetFaults, powerCuts,
  played,         \* history: worlds with players' data in them
  pruned,         \* history: worlds that prune_preserved removed
  wiped,          \* history: played worlds that resetdb ran over
  exposed         \* history: worlds left without their sentinel, by a boot cut
                  \* short or by a file error

dirs == <<pg, preserved, parked>>
marks == <<resetMarker, rollbackMarker, backupOk>>
bounds == <<resetOps, resetFaults, powerCuts>>
resetLog == <<played, pruned, wiped, exposed>>
resetVars == <<dirs, sentinel, worlds, schema, marks, boot, setAside, bounds, resetLog>>

ResetInit ==
  /\ pg = 1 /\ preserved = <<>> /\ parked = <<>>
  /\ sentinel = TRUE /\ worlds = 1 /\ schema = {1}
  /\ resetMarker = FALSE /\ rollbackMarker = NoWorld /\ backupOk = FALSE
  /\ boot = "up" /\ setAside = NoWorld
  /\ resetOps = 0 /\ resetFaults = 0 /\ powerCuts = 0
  /\ played = {} /\ pruned = {} /\ wiped = {} /\ exposed = {}

BootAt(step) == boot = step
BootTo(step) == boot' = step
FailedMove == resetFaults < ResetFaults /\ resetFaults' = resetFaults + 1
                /\ UNCHANGED <<resetOps, powerCuts>>
Smoothly == UNCHANGED bounds

-----------------------------------------------------------------------------
(* The operator and the players, while the server is up                    *)

ArmOp == BootAt("up") /\ resetOps < ResetOps /\ resetOps' = resetOps + 1
           /\ UNCHANGED <<resetFaults, powerCuts>>
OnlyMarks == UNCHANGED <<dirs, sentinel, worlds, schema, boot, setAside, resetLog>>

\* world-reset-arm: a backup that has just been proved, then the marker.
ArmReset ==
  /\ ArmOp /\ resetMarker' = TRUE /\ backupOk' = TRUE
  /\ UNCHANGED rollbackMarker /\ OnlyMarks

\* world-rollback-arm: a directory that exists.
ArmRollback ==
  /\ ArmOp
  /\ \E i \in DOMAIN preserved : rollbackMarker' = preserved[i]
  /\ UNCHANGED <<resetMarker, backupOk>> /\ OnlyMarks

\* world-reset-cancel: both markers.
CancelReset ==
  /\ ArmOp /\ (resetMarker \/ rollbackMarker # NoWorld)
  /\ resetMarker' = FALSE /\ rollbackMarker' = NoWorld
  /\ UNCHANGED backupOk /\ OnlyMarks

\* The backup is deleted, or grows.
BackupGoes ==
  /\ BootAt("up") /\ backupOk /\ backupOk' = FALSE
  /\ UNCHANGED <<resetMarker, rollbackMarker, bounds>> /\ OnlyMarks

PlayWorld ==
  /\ BootAt("up") /\ pg \notin played /\ played' = played \cup {pg}
  /\ UNCHANGED <<dirs, sentinel, worlds, schema, marks, boot, setAside, bounds, pruned,
                 wiped, exposed>>

Shutdown ==
  /\ boot \in {"up", "dead"} /\ BootTo("hook") /\ setAside' = NoWorld
  /\ UNCHANGED <<dirs, sentinel, worlds, schema, marks, bounds, resetLog>>

-----------------------------------------------------------------------------
(* apply-world-reset.sh: the rollback                                      *)

\* A marker is removed, or a file error leaves it for the next boot.
ClearRollback(left) == rollbackMarker' = IF left THEN rollbackMarker ELSE NoWorld
ClearResetMarker(left) == resetMarker' = (resetMarker /\ left)

\* Refusals: the result is written, the marker cleared, the boot goes on.
RollbackRefused ==
  /\ BootAt("hook") /\ rollbackMarker # NoWorld
  /\ \/ ~Contains(preserved, rollbackMarker) /\ Smoothly
     \/ pg # NoWorld /\ FailedMove
  /\ ClearRollback(FALSE) /\ BootTo("prestart")
  /\ UNCHANGED <<dirs, sentinel, worlds, schema, resetMarker, backupOk, setAside, resetLog>>

\* The current world is set aside, if there is one.
RollbackAside ==
  /\ BootAt("hook") /\ Contains(preserved, rollbackMarker)
  /\ setAside' = pg
  /\ pg' = NoWorld
  /\ parked' = IF pg = NoWorld THEN parked ELSE <<pg>> \o parked
  /\ BootTo("swap") /\ Smoothly
  /\ UNCHANGED <<preserved, sentinel, worlds, schema, marks, resetLog>>

\* The preserved world is moved into place; when that fails the other is moved
\* back, which may fail as well.
RollbackInPlace ==
  /\ BootAt("swap")
  /\ \/ /\ \E i \in DOMAIN preserved :
             preserved[i] = rollbackMarker /\ preserved' = RemoveAt(preserved, i)
        /\ pg' = rollbackMarker
        /\ BootTo("park") /\ Smoothly
        /\ UNCHANGED <<parked, rollbackMarker>>
     \/ /\ FailedMove
        /\ pg' = setAside
        /\ parked' = IF setAside = NoWorld THEN parked ELSE Tail(parked)
        /\ ClearRollback(FALSE) /\ BootTo("prestart")
        /\ UNCHANGED preserved
     \/ /\ resetFaults + 2 <= ResetFaults /\ setAside # NoWorld
        /\ resetFaults' = resetFaults + 2
        /\ ClearRollback(FALSE) /\ BootTo("prestart")
        /\ UNCHANGED <<dirs, resetOps, powerCuts>>
  /\ UNCHANGED <<sentinel, worlds, schema, resetMarker, backupOk, setAside, resetLog>>

\* The sentinel goes with the world set aside ...
RollbackPark ==
  /\ BootAt("park")
  /\ \/ sentinel' = (sentinel /\ setAside = NoWorld) /\ Smoothly
     \/ sentinel /\ setAside # NoWorld /\ FailedMove /\ UNCHANGED sentinel
  /\ BootTo("touch")
  /\ UNCHANGED <<dirs, worlds, schema, marks, setAside, resetLog>>

\* Broken form for WorldsKept: the restored world gets no sentinel of its own.
RollbackTouchSkipped ==
  /\ BootAt("touch") /\ BootTo("prune") /\ Smoothly
  /\ UNCHANGED <<dirs, sentinel, worlds, schema, marks, setAside, resetLog>>

\* ... and the restored one gets a new one.
RollbackTouch ==
  /\ BootAt("touch")
  /\ \/ sentinel' = TRUE /\ Smoothly /\ UNCHANGED exposed
     \/ /\ FailedMove /\ UNCHANGED sentinel
        /\ exposed' = IF sentinel THEN exposed ELSE exposed \cup {pg}
  /\ BootTo("prune")
  /\ UNCHANGED <<dirs, worlds, schema, marks, setAside, played, pruned, wiped>>

Newest(kept, n) == SubSeq(kept, 1, IF Len(kept) < n THEN Len(kept) ELSE n)

\* prune_preserved, at the end of both paths.
PruneWorlds ==
  /\ boot \in {"prune", "pruneReset"}
  /\ preserved' = Newest(preserved, KeepWorlds)
  /\ parked' = Newest(parked, KeepParked)
  /\ pruned' = pruned \cup ((ToSet(preserved) \cup ToSet(parked))
                              \ (ToSet(preserved') \cup ToSet(parked')))
  /\ BootTo(IF BootAt("prune") THEN "clear" ELSE "clearReset") /\ Smoothly
  /\ UNCHANGED <<pg, sentinel, worlds, schema, marks, setAside, played, wiped, exposed>>

\* First the rollback's marker, then that of a reset armed before.
RollbackClear ==
  /\ BootAt("clear")
  /\ \/ ClearRollback(FALSE) /\ Smoothly
     \/ ClearRollback(TRUE) /\ FailedMove
  /\ BootTo("clearReset")
  /\ UNCHANGED <<dirs, sentinel, worlds, schema, resetMarker, backupOk, setAside, resetLog>>

-----------------------------------------------------------------------------
(* apply-world-reset.sh: the reset                                         *)

\* No marker at all.
NoMarker ==
  /\ BootAt("hook") /\ ~resetMarker /\ rollbackMarker = NoWorld
  /\ BootTo("prestart") /\ Smoothly
  /\ UNCHANGED <<dirs, sentinel, worlds, schema, marks, setAside, resetLog>>

ResetDue == BootAt("hook") /\ rollbackMarker = NoWorld /\ resetMarker

\* verify-pending fails, there is nothing to set aside, or the rename fails.
ResetRefused ==
  /\ ResetDue
  /\ \/ (~backupOk \/ pg = NoWorld) /\ Smoothly
     \/ backupOk /\ pg # NoWorld /\ FailedMove
  /\ ClearResetMarker(FALSE) /\ BootTo("prestart")
  /\ UNCHANGED <<dirs, sentinel, worlds, schema, rollbackMarker, backupOk, setAside, resetLog>>

ResetAside ==
  /\ ResetDue /\ backupOk /\ pg # NoWorld
  /\ setAside' = pg /\ pg' = NoWorld /\ preserved' = <<pg>> \o preserved
  /\ BootTo("parkReset") /\ Smoothly
  /\ UNCHANGED <<parked, sentinel, worlds, schema, marks, resetLog>>

\* The sentinel goes with it, or is removed.
ResetPark ==
  /\ BootAt("parkReset")
  /\ \/ sentinel' = FALSE /\ Smoothly
     \/ sentinel /\ FailedMove /\ UNCHANGED sentinel
  /\ BootTo("pruneReset")
  /\ UNCHANGED <<dirs, worlds, schema, marks, setAside, resetLog>>

ClearReset ==
  /\ BootAt("clearReset")
  /\ \/ ClearResetMarker(FALSE) /\ Smoothly
     \/ resetMarker /\ ClearResetMarker(TRUE) /\ FailedMove
  /\ BootTo("prestart")
  /\ UNCHANGED <<dirs, sentinel, worlds, schema, rollbackMarker, backupOk, setAside, resetLog>>

-----------------------------------------------------------------------------
(* prestart.sh, and what follows                                           *)

\* initdb when there is no data directory.
InitDb ==
  /\ BootAt("prestart") /\ pg = NoWorld /\ worlds < MaxWorlds
  /\ worlds' = worlds + 1 /\ pg' = worlds + 1
  /\ Smoothly
  /\ UNCHANGED <<preserved, parked, sentinel, schema, marks, boot, setAside, resetLog>>

\* resetdb when there is no sentinel, whatever is in the database.
LoadSchema ==
  /\ BootAt("prestart") /\ pg # NoWorld /\ ~sentinel
  /\ schema' = schema \cup {pg}
  /\ wiped' = wiped \cup ({pg} \cap played)
  /\ sentinel' = TRUE /\ Smoothly
  /\ UNCHANGED <<dirs, worlds, marks, boot, setAside, played, pruned, exposed>>

\* migrate-db dies on a database without a schema.
StartWorld ==
  /\ BootAt("prestart") /\ pg # NoWorld /\ sentinel
  /\ BootTo(IF pg \in schema THEN "up" ELSE "dead") /\ Smoothly
  /\ UNCHANGED <<dirs, sentinel, worlds, schema, marks, setAside, resetLog>>

PowerCut ==
  /\ boot \notin {"up", "dead", "hook"}
  /\ powerCuts < PowerCuts /\ powerCuts' = powerCuts + 1
  /\ BootTo("hook") /\ setAside' = NoWorld
  /\ exposed' = IF BootAt("touch") /\ ~sentinel THEN exposed \cup {pg} ELSE exposed
  /\ UNCHANGED <<dirs, sentinel, worlds, schema, marks, resetOps, resetFaults, played,
                 pruned, wiped>>

ResetNext ==
  \/ ArmReset \/ ArmRollback \/ CancelReset \/ BackupGoes \/ PlayWorld \/ Shutdown
  \/ RollbackRefused \/ RollbackAside \/ RollbackInPlace \/ RollbackPark \/ RollbackTouch
  \/ PruneWorlds \/ RollbackClear
  \/ NoMarker \/ ResetRefused \/ ResetAside \/ ResetPark \/ ClearReset
  \/ InitDb \/ LoadSchema \/ StartWorld \/ PowerCut

ResetSpec == ResetInit /\ [][ResetNext]_resetVars

-----------------------------------------------------------------------------
(* Properties                                                              *)

\* Type invariant: a world is in one place.
ResetTypeOK ==
  /\ pg \in 0..worlds /\ worlds \in 1..MaxWorlds
  /\ LET places == preserved \o parked \o <<pg>> IN
       \A i, j \in DOMAIN places : i # j => places[i] # places[j]
  /\ {sentinel, resetMarker, backupOk} \subseteq BOOLEAN
  /\ rollbackMarker \in 0..worlds /\ schema \subseteq 1..worlds
  /\ boot \in {"up", "dead", "hook", "swap", "park", "touch", "prune", "clear", "parkReset",
               "pruneReset", "clearReset", "prestart"}

\* No reset or rollback loses a world: whatever fails and whenever the power goes
\* off, a played world is in pg or kept beside it until newer ones push it out, and
\* resetdb runs over one only if its sentinel had been lost between two steps.
WorldsKept ==
  /\ played \subseteq {pg} \cup ToSet(preserved) \cup ToSet(parked) \cup pruned
  /\ wiped \subseteq exposed

\* What the hook says of the sentinel it touches after a rollback, "so prestart
\* never re-runs resetdb over live data".  It does not hold: the power may go off,
\* or touch may fail, when the old sentinel is already parked.
NeverResetOverData == wiped = {}
=============================================================================
