------------------------------ MODULE MCSpawner ------------------------------
(***************************************************************************)
(* Two instances of Spawner for TLC, one of which each behaviour is of: in *)
(* "faulty" one map of one replica meets the writers and the failures the  *)
(* constants name, in "calm" all maps and replicas meet the Director's     *)
(* patches and nothing fails.                                              *)
(***************************************************************************)
EXTENDS Spawner, TLC

VARIABLE focus   \* the instance

IdSymmetry == Permutations(Ids)

Calm == INSTANCE Spawner WITH Writers <- {"patch"}, Faults <- {}

Other(k) == k # CHOOSE first \in Keys : TRUE

\* Which ServerSetScales exist.
Chooses ==
  /\ focus = "none" /\ focus' \in {"faulty", "calm"}
  /\ base' = [k \in Keys |-> IF focus' = "faulty" /\ Other(k) THEN NoSpec ELSE base[k]]
  /\ listed' = base'
  /\ UNCHANGED <<heap, calls, instVars, used, draining, backVars, ledger, lockVars, todo,
                 reaped, procVars>>

OneMapOneReplica ==
  \A k \in Keys : /\ Other(k) => base'[k] = NoSpec
                  /\ \A b \in Specs : heap'[k][b] <= 1

Runs ==
  /\ \/ focus = "faulty" /\ Next /\ OneMapOneReplica
     \/ focus = "calm" /\ Calm!Next
  /\ UNCHANGED focus

SafetyInit == Init /\ focus = "none"

SafetySpec == SafetyInit /\ [][Chooses \/ Runs]_<<focus, vars>>

\* While nothing fails, no two maps are on the same ports, and what a teardown
\* signals is never another map's server that was started on its slot since
\* (teardown reads the pid file again, and releases the slot last).
MapsApart == focus = "calm" => PortExclusive /\ OwnVictim
=============================================================================
