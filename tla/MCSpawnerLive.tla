---------------------------- MODULE MCSpawnerLive ----------------------------
(***************************************************************************)
(* Two instances of Spawner under fair scheduling, one of which each       *)
(* behaviour is of: "patched", with the writers and failures the constants *)
(* name, and "stubborn", where travel demand, reaper and panel scale,      *)
(* create and delete, and servers may survive SIGKILL.                     *)
(***************************************************************************)
EXTENDS Spawner

VARIABLE focus   \* the instance

Stubborn == INSTANCE Spawner WITH Writers <- {"scale", "delete"}, Faults <- {"kill"}

LiveInit == Init /\ focus \in {"patched", "stubborn"}

LiveNext ==
  /\ \/ focus = "patched" /\ Next
     \/ focus = "stubborn" /\ Stubborn!Next
  /\ UNCHANGED focus

LiveSpec == LiveInit /\ [][LiveNext]_<<focus, vars>> /\ Fairness

\* What the Director or the panel asks for by a PATCH is what the number of listed
\* servers comes back to (OnSpecChange, reconcileTick). For the other writers see
\* Converges in run stale_call.
PatchesConverge == focus = "patched" => Converges

\* A map that stays wanted keeps getting a server that runs (WantedRuns). A process
\* that outlives SIGKILL keeps its slot for good (teardown), which may be the last one.
PatchedRuns == focus = "patched" => WantedRuns
=============================================================================
