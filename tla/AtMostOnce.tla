---- MODULE AtMostOnce ----
(***************************************************************************)
(* What the scheduler promises of a restart: an intent that was armed is   *)
(* carried out at most once, and never after it was given up               *)
(* (admin_schedule.py's run_tick: "At-most-once is the only safe semantics *)
(* for an action this destructive").  An intent is armed; the loop takes   *)
(* it; it is fired, or dropped, for good.  A taken intent is armed again   *)
(* when the loop dies before it gave the intent up.  Arming an intent, or  *)
(* a crash, may move several at once: one is armed at a time.              *)
(***************************************************************************)
CONSTANT Intents
VARIABLE stage

Stages == {"new", "armed", "taken", "fired", "dropped"}

Moves ==
  {<<"new", "armed">>, <<"armed", "taken">>, <<"taken", "armed">>, <<"taken", "fired">>}
    \cup ({"new", "armed", "taken"} \X {"dropped"})

OnceInit == stage = [i \in Intents |-> "new"]

OnceNext ==
  /\ stage' \in [Intents -> Stages]
  /\ \A i \in Intents : stage'[i] # stage[i] => <<stage[i], stage'[i]>> \in Moves
  /\ \A i, j \in Intents : stage'[i] = "armed" /\ stage'[j] = "armed" => i = j

OnceSpec == OnceInit /\ [][OnceNext]_stage
====
