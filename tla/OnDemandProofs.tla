---------------------------- MODULE OnDemandProofs ----------------------------
(***************************************************************************)
(* Maps on demand, for any maps, budget, times and processes.              *)
(*                                                                         *)
(* The map scaler of the panel takes a map down only when that is earned,  *)
(* and never from under somebody who was there before.  The reaper and     *)
(* the watcher of mock-k8s never put anybody out, keep every map for as    *)
(* long as is promised, and never start more than the budget allows.       *)
(* Stories are among them: what the guard concludes from a server's log    *)
(* fits the story of the server, or the server has not booted yet and the  *)
(* log tells of an earlier one.  A story that is over is stopped, and only *)
(* such a story loses the players it holds.                                *)
(***************************************************************************)
EXTENDS MCOnDemand, FiniteSetTheorems, NumberLemmas, TLAPS

-----------------------------------------------------------------------------
(* The reaper and the watcher                                              *)

TimerRange == {NoTimer} \cup 0..IdleAfter

ShapesInv ==
  /\ watch \in [at : {"rest", "next", "query", "free", "recheck", "raise", "start"},
                todo : SUBSET GameMaps, map : GameMaps \cup {NoMap}, counts : SUBSET GameMaps]
  /\ reap \in [at : {"rest", "loop"}, todo : SUBSET GameMaps, counts : SUBSET GameMaps]
  /\ watch.at \in {"rest", "next"} \/ watch.map \in GameMaps
  /\ asked \subseteq GameMaps /\ past \subseteq GameMaps
  /\ up \subseteq GameMaps /\ live \subseteq up /\ inside \subseteq live /\ seen \subseteq inside
  /\ joined \in [{"watcher", "reaper"} -> SUBSET GameMaps]
  /\ emptySince \in [GameMaps -> TimerRange] /\ vacant \in [GameMaps -> 0..IdleAfter]

OpsInv == travelOps \in Nat

\* What the guard can have concluded, and the lines it looks for.
States == [completed : BOOLEAN, out : BOOLEAN, abandoned : BOOLEAN, looping : BOOLEAN]
Lines == {"boot", "looped", "completed", "travel", "left", "reload"}

\* What is concluded from everything the log of a running server holds fits its
\* story, but for a server that has not booted over the lines of an earlier one.
Fits(known, chapter, haunts) ==
  /\ chapter = "play" => ~known.completed
  /\ chapter = "done" => known.completed /\ ~known.out
  /\ chapter = "sent" => known.out
  /\ chapter = "left" => known.abandoned
  /\ chapter = "loop" => known.looping
  /\ known.abandoned => chapter \in {"left", "loop"} \/ haunts
  /\ known.looping => chapter = "loop" \/ haunts
  /\ haunts => chapter = "boot"

GuardShapes ==
  /\ verdict \in [GameMaps -> States] /\ lines \in [GameMaps -> Seq(Lines)]
  /\ story \in [GameMaps -> {"boot", "play", "done", "sent", "left", "loop"}]

\* What the guard has of the map m.
Told(m) ==
  /\ m \notin StoryMaps
       => lines[m] = <<>> /\ verdict[m] = Clear /\ story[m] = "play" /\ m \notin haunted
  /\ m \in inside => story[m] # "boot"
  /\ ~(m \in live /\ m \in draining)
  /\ m \in live => Fits(ReadAll(m), story[m], m \in haunted)
  /\ m \notin live => (verdict[m].abandoned \/ verdict[m].looping => m \in haunted)

GuardInv == GuardShapes /\ \A m \in GameMaps : Told(m)

\* Who came since the counts a loop acts on were read is known to have come.
CountsInv ==
  /\ reap.at = "loop" => inside \subseteq reap.counts \cup joined["reaper"]
  /\ reap.at = "loop" => seen \subseteq reap.counts
  /\ watch.at = "free" => inside \subseteq watch.counts \cup joined["watcher"]

\* The reaper is about to delete the timer of m.
Deleting(m) == reap.at = "loop" /\ m \in reap.todo /\ m \in reap.counts

\* A timer is at most as old as the emptiness it stands for.
TimersInv ==
  \A m \in GameMaps :
    emptySince[m] # NoTimer =>
      /\ m \in live /\ m \notin inside /\ m \notin missed /\ ~Deleting(m)
           => emptySince[m] <= vacant[m]
      /\ m \in inside /\ m \in seen => Deleting(m)

TravelInv == ShapesInv /\ OpsInv /\ GuardInv /\ CountsInv /\ TimersInv

-----------------------------------------------------------------------------
\* What the assumption says of the times.
LEMMA TimeNumbers ==
  IdleAfter \in Nat /\ MinEmpty \in Nat /\ MinEmpty <= IdleAfter /\ NoTimer \notin Int
BY TravelAssumption

\* What the reaper's step at one map does to what these proofs speak of: it stops
\* the map, or it looks after the map's timer.
LEMMA ReapMapForms ==
  ASSUME NEW m \in GameMaps, ReapMap(m)
  PROVE  /\ reap.at = "loop" /\ m \in reap.todo
         /\ reap' = [reap EXCEPT !.todo = @ \ {m}]
         /\ UNCHANGED <<watch, asked, past, joined, travelOps, story>>
         /\ \/ Stops(m)
            \/ /\ emptySince' = [emptySince EXCEPT ![m] =
                                   IF m \in Warm \/ m \in reap.counts THEN NoTimer ELSE Counting(@)]
               /\ missed' = IF m \in Warm \/ m \in reap.counts THEN missed \ {m} ELSE missed
               /\ UNCHANGED <<up, live, inside, vacant, seen>>
BY DEF ReapMap, ReapRest, serverVars

\* Every step keeps every value in its range.
LEMMA ShapesStep ==
  ASSUME ShapesInv, [TravelNext]_travelVars
  PROVE  ShapesInv'
<1>0. CASE UNCHANGED travelVars
  BY <1>0
  DEF ShapesInv, TimerRange, travelVars, loopVars, serverVars, gameVars, boundVars,
      pollHistory, travelHistory
<1>1. ASSUME NEW m \in GameMaps, Respawns(m) PROVE ShapesInv'
  BY <1>1, TravelAssumption DEF Respawns, Begins, loopVars, ShapesInv, TimerRange
<1>2. ASSUME NEW m \in GameMaps, DrainEnds(m) PROVE ShapesInv'
  BY <1>2, TravelAssumption
  DEF DrainEnds, loopVars, gameVars, travelHistory, pollHistory, ShapesInv, TimerRange
<1>3. ASSUME NEW m \in GameMaps, ServerDies(m) PROVE ShapesInv'
  BY <1>3, TravelAssumption
  DEF ServerDies, Emptied, TravelFault, NotForgotten, loopVars, ShapesInv, TimerRange
<1>4. ASSUME NEW m \in GameMaps, OthersRaise(m) PROVE ShapesInv'
  BY <1>4, TravelAssumption DEF OthersRaise, Begins, loopVars, ShapesInv, TimerRange
<1>5. ASSUME NEW m \in GameMaps, OthersLower(m) PROVE ShapesInv'
  BY <1>5, TravelAssumption
  DEF OthersLower, LowerToZero, Emptied, NotForgotten, loopVars, ShapesInv, TimerRange
<1>6. ASSUME NEW m \in GameMaps, Boots(m) PROVE ShapesInv'
  BY <1>6, TravelAssumption
  DEF Boots, Writes, GameRest, loopVars, serverVars, pollHistory, ShapesInv, TimerRange
<1>7. ASSUME NEW m \in GameMaps, Enters(m) PROVE ShapesInv'
  BY <1>7, TravelAssumption
  DEF Enters, Writes, Counted, GameRest, loopVars, serverVars, ShapesInv, TimerRange
<1>8. ASSUME NEW m \in GameMaps, Completes(m) PROVE ShapesInv'
  BY <1>8, TravelAssumption
  DEF Completes, Writes, GameRest, loopVars, serverVars, pollHistory, ShapesInv, TimerRange
<1>9. ASSUME NEW m \in GameMaps, SendsOn(m) PROVE ShapesInv'
  BY <1>9, TravelAssumption
  DEF SendsOn, Writes, GameRest, loopVars, serverVars, pollHistory, ShapesInv, TimerRange
<1>10. ASSUME NEW m \in GameMaps, DyingWrites(m) PROVE ShapesInv'
  BY <1>10, TravelAssumption
  DEF DyingWrites, Writes, GameRest, loopVars, serverVars, pollHistory, ShapesInv, TimerRange
<1>11. ASSUME NEW m \in GameMaps, Asks(m) PROVE ShapesInv'
  BY <1>11, TravelAssumption
  DEF Asks, loopVars, serverVars, gameVars, pollHistory, ShapesInv, TimerRange
<1>12. ASSUME NEW m \in GameMaps, NEW last \in BOOLEAN, Leaves(m, last) PROVE ShapesInv'
  <2>1. CASE last
    BY <1>12, <2>1, TravelAssumption
    DEF Leaves, Emptied, GameRest, loopVars, serverVars, ShapesInv
  <2>2. CASE ~last
    BY <1>12, <2>2 DEF Leaves, GameRest, loopVars, serverVars, ShapesInv
  <2> QED
    BY <2>1, <2>2
<1>13. ASSUME NEW kept \in SUBSET past, LogTrimmed(kept) PROVE ShapesInv'
  BY <1>13, TravelAssumption
  DEF LogTrimmed, loopVars, serverVars, gameVars, travelHistory, pollHistory, ShapesInv,
      TimerRange
<1>14. CASE ReapReads
  BY <1>14, TravelAssumption DEF ReapReads, Forgotten, ReapRest, serverVars, ShapesInv, TimerRange
<1>15. CASE ReapEnds
  BY <1>15, TravelAssumption DEF ReapEnds, ReapRests, ReapRest, serverVars, ShapesInv, TimerRange
<1>16. ASSUME NEW m \in GameMaps, ReapMap(m) PROVE ShapesInv'
  <2>0. /\ reap.at = "loop" /\ reap' = [reap EXCEPT !.todo = @ \ {m}]
        /\ UNCHANGED <<watch, asked, past, joined>>
    BY <1>16, ReapMapForms
  <2>1. CASE Stops(m)
    BY <1>16, <2>0, <2>1, TravelAssumption
    DEF Stops, Forgotten, LowerToZero, Emptied, ShapesInv, TimerRange
  <2>2. CASE ~Stops(m)
    <3>1. /\ emptySince' = [emptySince EXCEPT ![m] =
                             IF m \in Warm \/ m \in reap.counts THEN NoTimer ELSE Counting(@)]
          /\ UNCHANGED <<up, live, inside, vacant, seen>>
      BY <1>16, <2>2, ReapMapForms
    <3> QED
      BY <2>0, <3>1, TimeNumbers DEF Counting, ShapesInv, TimerRange
  <2> QED
    BY <2>1, <2>2
<1>17. CASE ReapCannotRead
  BY <1>17, TravelAssumption
  DEF ReapCannotRead, ReapRest, loopVars, serverVars, pollHistory, ShapesInv, TimerRange
<1>18. CASE WatchReads
  BY <1>18, TravelAssumption
  DEF WatchReads, WatchRests, serverVars, gameVars, travelHistory, pollHistory, ShapesInv,
      TimerRange
<1>19. CASE WatchEnds
  BY <1>19, TravelAssumption
  DEF WatchEnds, WatchRests, WatchRest, serverVars, travelHistory, pollHistory, ShapesInv,
      TimerRange
<1>20. CASE WatchQueries
  BY <1>20, TravelAssumption
  DEF WatchQueries, Refuses, WatchGoesOn, WatchRest, serverVars, pollHistory, ShapesInv,
      TimerRange
<1>21. CASE LooksAgain
  BY <1>21, TravelAssumption
  DEF LooksAgain, WatchTo, Refuses, WatchGoesOn, WatchRest, serverVars, pollHistory, ShapesInv,
      TimerRange
<1>22. CASE Starts
  <2>1. watch.map \in GameMaps
    BY <1>22 DEF ShapesInv, Starts
  <2> QED
    <3>1. CASE watch.map \in up
      BY <1>22, <3>1 DEF Starts, WatchGoesOn, ShapesInv
    <3>2. CASE UNCHANGED <<live, vacant>>
      BY <1>22, <2>1, <3>2 DEF Starts, RaiseTo, WatchGoesOn, ShapesInv
    <3>3. CASE Begins(watch.map)
      <4>1. CASE watch.map \notin up
        <5>1. up' = up \cup {watch.map}
          BY <1>22, <4>1 DEF Starts, RaiseTo
        <5>2. /\ watch' = [watch EXCEPT !.at = "next", !.counts = {}]
              /\ UNCHANGED <<asked, past, reap, emptySince, inside, seen, joined>>
          BY <1>22 DEF Starts, WatchGoesOn
        <5>3. /\ live' = live \cup {watch.map}
              /\ vacant' = [vacant EXCEPT ![watch.map] = 0]
          BY <3>3 DEF Begins
        <5>4. vacant' \in [GameMaps -> 0..IdleAfter]
          <6>1. 0 \in 0..IdleAfter /\ vacant \in [GameMaps -> 0..IdleAfter]
            BY TimeNumbers DEF ShapesInv
          <6> QED
            BY <2>1, <5>3, <6>1
        <5> QED
          BY <2>1, <5>1, <5>2, <5>3, <5>4 DEF ShapesInv
      <4> QED
        BY <3>1, <4>1
    <3> QED
      BY <1>22, <3>1, <3>2, <3>3 DEF Starts, RaiseTo
<1>23. ASSUME NEW m \in GameMaps, WatchNext(m) PROVE ShapesInv'
  BY <1>23, TravelAssumption
  DEF WatchNext, WatchRest, serverVars, travelHistory, pollHistory, ShapesInv, TimerRange
<1>24. CASE FreesNone
  BY <1>24, TravelAssumption
  DEF FreesNone, Refuses, WatchGoesOn, WatchRest, serverVars, ShapesInv, TimerRange
<1>25. ASSUME NEW m \in GameMaps, Frees(m) PROVE ShapesInv'
  BY <1>25, TravelAssumption
  DEF Frees, Freeable, Stops, Forgotten, LowerToZero, Emptied, WatchTo, WatchRest, ShapesInv,
      TimerRange
<1>26. CASE TravelTime
  BY <1>26, TravelAssumption DEF TravelTime, Aged, serverVars, gameVars, ShapesInv, TimerRange
<1> QED
  BY <1>0, <1>1, <1>2, <1>3, <1>4, <1>5, <1>6, <1>7, <1>8, <1>9, <1>10, <1>11, <1>12, <1>13,
     <1>14, <1>15, <1>16, <1>17, <1>18, <1>19, <1>20, <1>21, <1>22, <1>23, <1>24, <1>25, <1>26
  DEF TravelNext, ReaperSteps, WatcherSteps, MakingRoom

\* Every step keeps the number of the others' writes a number.
LEMMA OpsStep ==
  ASSUME OpsInv, [TravelNext]_travelVars
  PROVE  OpsInv'
<1>0. CASE UNCHANGED travelVars
  BY <1>0
  DEF OpsInv, boundVars, travelVars, loopVars, serverVars, gameVars, boundVars, pollHistory,
      travelHistory
<1>1. ASSUME NEW m \in GameMaps, Respawns(m) PROVE OpsInv'
  BY <1>1, TravelAssumption DEF Respawns, Begins, loopVars, OpsInv, boundVars
<1>2. ASSUME NEW m \in GameMaps, DrainEnds(m) PROVE OpsInv'
  BY <1>2, TravelAssumption
  DEF DrainEnds, loopVars, gameVars, travelHistory, pollHistory, OpsInv, boundVars
<1>3. ASSUME NEW m \in GameMaps, ServerDies(m) PROVE OpsInv'
  BY <1>3, TravelAssumption
  DEF ServerDies, Emptied, TravelFault, NotForgotten, loopVars, OpsInv, boundVars
<1>4. ASSUME NEW m \in GameMaps, OthersRaise(m) PROVE OpsInv'
  BY <1>4, TravelAssumption DEF OthersRaise, Begins, loopVars, OpsInv, boundVars
<1>5. ASSUME NEW m \in GameMaps, OthersLower(m) PROVE OpsInv'
  BY <1>5, TravelAssumption
  DEF OthersLower, LowerToZero, Emptied, NotForgotten, loopVars, OpsInv, boundVars
<1>6. ASSUME NEW m \in GameMaps, Boots(m) PROVE OpsInv'
  BY <1>6, TravelAssumption
  DEF Boots, Writes, GameRest, loopVars, serverVars, pollHistory, OpsInv, boundVars
<1>7. ASSUME NEW m \in GameMaps, Enters(m) PROVE OpsInv'
  BY <1>7, TravelAssumption
  DEF Enters, Writes, Counted, GameRest, loopVars, serverVars, OpsInv, boundVars
<1>8. ASSUME NEW m \in GameMaps, Completes(m) PROVE OpsInv'
  BY <1>8, TravelAssumption
  DEF Completes, Writes, GameRest, loopVars, serverVars, pollHistory, OpsInv, boundVars
<1>9. ASSUME NEW m \in GameMaps, SendsOn(m) PROVE OpsInv'
  BY <1>9, TravelAssumption
  DEF SendsOn, Writes, GameRest, loopVars, serverVars, pollHistory, OpsInv, boundVars
<1>10. ASSUME NEW m \in GameMaps, DyingWrites(m) PROVE OpsInv'
  BY <1>10, TravelAssumption
  DEF DyingWrites, Writes, GameRest, loopVars, serverVars, pollHistory, OpsInv, boundVars
<1>11. ASSUME NEW m \in GameMaps, Asks(m) PROVE OpsInv'
  BY <1>11, TravelAssumption
  DEF Asks, loopVars, serverVars, gameVars, pollHistory, OpsInv, boundVars
<1>12. ASSUME NEW m \in GameMaps, NEW last \in BOOLEAN, Leaves(m, last) PROVE OpsInv'
  BY <1>12, TravelAssumption
  DEF Leaves, Emptied, Writes, GameRest, loopVars, serverVars, OpsInv, boundVars
<1>13. ASSUME NEW kept \in SUBSET past, LogTrimmed(kept) PROVE OpsInv'
  BY <1>13, TravelAssumption
  DEF LogTrimmed, loopVars, serverVars, gameVars, travelHistory, pollHistory, OpsInv, boundVars
<1>14. CASE ReapReads
  BY <1>14, TravelAssumption DEF ReapReads, Forgotten, ReapRest, serverVars, OpsInv, boundVars
<1>15. CASE ReapEnds
  BY <1>15, TravelAssumption DEF ReapEnds, ReapRests, ReapRest, serverVars, OpsInv, boundVars
<1>16. ASSUME NEW m \in GameMaps, ReapMap(m) PROVE OpsInv'
  BY <1>16, TravelAssumption
  DEF ReapMap, Stops, Forgotten, LowerToZero, Emptied, Kept, Counting, ReapRest, serverVars,
      OpsInv, boundVars
<1>17. CASE ReapCannotRead
  BY <1>17, TravelAssumption
  DEF ReapCannotRead, ReapRest, loopVars, serverVars, pollHistory, OpsInv, boundVars
<1>18. CASE WatchReads
  BY <1>18, TravelAssumption
  DEF WatchReads, WatchRests, serverVars, gameVars, travelHistory, pollHistory, OpsInv,
      boundVars
<1>19. CASE WatchEnds
  BY <1>19, TravelAssumption
  DEF WatchEnds, WatchRests, WatchRest, serverVars, travelHistory, pollHistory, OpsInv,
      boundVars
<1>20. CASE WatchQueries
  BY <1>20, TravelAssumption
  DEF WatchQueries, Refuses, WatchGoesOn, WatchRest, serverVars, pollHistory, OpsInv, boundVars
<1>21. CASE LooksAgain
  BY <1>21, TravelAssumption
  DEF LooksAgain, WatchTo, Refuses, WatchGoesOn, WatchRest, serverVars, pollHistory, OpsInv,
      boundVars
<1>22. CASE Starts
  BY <1>22, TravelAssumption DEF Starts, RaiseTo, Begins, WatchGoesOn, OpsInv, boundVars
<1>23. ASSUME NEW m \in GameMaps, WatchNext(m) PROVE OpsInv'
  BY <1>23, TravelAssumption
  DEF WatchNext, WatchRest, serverVars, travelHistory, pollHistory, OpsInv, boundVars
<1>24. CASE FreesNone
  BY <1>24, TravelAssumption
  DEF FreesNone, Refuses, WatchGoesOn, WatchRest, serverVars, OpsInv, boundVars
<1>25. ASSUME NEW m \in GameMaps, Frees(m) PROVE OpsInv'
  BY <1>25, TravelAssumption
  DEF Frees, Freeable, Stops, Forgotten, LowerToZero, Emptied, WatchTo, WatchRest, OpsInv,
      boundVars
<1>26. CASE TravelTime
  BY <1>26, TravelAssumption DEF TravelTime, Aged, serverVars, gameVars, OpsInv, boundVars
<1> QED
  BY <1>0, <1>1, <1>2, <1>3, <1>4, <1>5, <1>6, <1>7, <1>8, <1>9, <1>10, <1>11, <1>12, <1>13,
     <1>14, <1>15, <1>16, <1>17, <1>18, <1>19, <1>20, <1>21, <1>22, <1>23, <1>24, <1>25, <1>26
  DEF TravelNext, ReaperSteps, WatcherSteps, MakingRoom

\* Whatever is read, what is concluded is one of these.
LEMMA ReadType == ASSUME NEW st \in States, NEW line PROVE Read(st, line) \in States
  BY DEF Read, States, Clear

\* What is concluded from a log is the end of the steps through it.
LEMMA ReadSteps ==
  ASSUME NEW st \in States, NEW log \in Seq(Lines)
  PROVE  \E f \in [0..Len(log) -> States] :
            /\ f[0] = st /\ \A n \in 1..Len(log) : f[n] = Read(f[n - 1], log[n])
            /\ ReadThrough(st, log) = f[Len(log)]
  <1> DEFINE N == Len(log)
             G == [p \in (1..N) \X States |-> Read(p[2], log[p[1]])]
             Solves(a) == a = [n \in 0..N |-> IF n = 0 THEN st ELSE Read(a[n - 1], log[n])]
             after == CHOOSE a : Solves(a)
  <1>1. N \in Nat
    OBVIOUS
  <1>2. \A n \in 1..N, s \in States : G[<<n, s>>] = Read(s, log[n])
    OBVIOUS
  <1>0. \A n \in 1..N, s \in States : G[<<n, s>>] \in States
    BY <1>2, ReadType
  <1>3. PICK f \in [0..N -> States] : f[0] = st /\ \A n \in 1..N : f[n] = G[<<n, f[n - 1]>>]
    <2> HIDE DEF G, N
    <2>1. \E f : Steps(f, N, States, st, G)
      BY <1>0, <1>1, StepsExist
    <2> QED
      BY <2>1 DEF Steps
  <1>4. \A n \in 1..N : f[n] = Read(f[n - 1], log[n])
    <2> HIDE DEF G, N
    <2>1. \A n \in 1..N : f[n - 1] \in States
      BY <1>1, <1>3
    <2> QED
      BY <1>2, <1>3, <2>1
  <1>5. Solves(f)
    <2>1. \A n \in 0..N : f[n] = IF n = 0 THEN st ELSE Read(f[n - 1], log[n])
      <3> HIDE DEF N, G
      <3> QED
        BY <1>1, <1>3, <1>4
    <2> QED
      BY <2>1
  <1>6. Solves(after)
    <2> HIDE DEF Solves
    <2> QED
      BY <1>5
  <1>7. after[0] = f[0] /\ \A n \in 1..N : after[n - 1] = f[n - 1] => after[n] = f[n]
    <2> HIDE DEF after
    <2>1. \A n \in 0..N : after[n] = IF n = 0 THEN st ELSE Read(after[n - 1], log[n])
      BY <1>6
    <2> HIDE DEF Solves
    <2> QED
      BY <1>1, <1>3, <1>4, <2>1
  <1>8. after[N] = f[N]
    <2> HIDE DEF after, N
    <2> DEFINE T == {n \in 0..N : after[n] = f[n]}
    <2>1. 0 \in T /\ \A n \in 1..N : n - 1 \in T => n \in T
      BY <1>1, <1>7
    <2> HIDE DEF T
    <2>2. \A n \in 0..N : n \in T
      BY <1>1, <2>1, UpTo
    <2> QED
      BY <1>1, <2>2 DEF T
  <1>9. ReadThrough(st, log) = after[N]
    BY DEF ReadThrough
  <1> QED
    BY <1>3, <1>4, <1>8, <1>9

\* An empty log says nothing new.
LEMMA ReadNothing == ASSUME NEW st \in States PROVE ReadThrough(st, <<>>) = st
  <1> DEFINE none == <<>>
  <1>1. none \in Seq(Lines) /\ Len(none) = 0
    OBVIOUS
  <1> HIDE DEF none
  <1>2. \E f \in [0..Len(none) -> States] :
           /\ f[0] = st /\ \A n \in 1..Len(none) : f[n] = Read(f[n - 1], none[n])
           /\ ReadThrough(st, none) = f[Len(none)]
    BY <1>1, ReadSteps
  <1>3. ReadThrough(st, none) = st
    BY <1>1, <1>2
  <1> QED
    BY <1>3 DEF none

\* A line more is read after the others.
LEMMA ReadMore ==
  ASSUME NEW st \in States, NEW log \in Seq(Lines), NEW line \in Lines
  PROVE  /\ ReadThrough(st, log) \in States
         /\ ReadThrough(st, Append(log, line)) = Read(ReadThrough(st, log), line)
  <1> DEFINE N == Len(log)
             more == Append(log, line)
  <1>1. more \in Seq(Lines) /\ Len(more) = N + 1 /\ N \in Nat
        /\ more[N + 1] = line /\ \A n \in 1..N : more[n] = log[n]
    OBVIOUS
  <1>2. PICK f \in [0..N -> States] :
            /\ f[0] = st /\ \A n \in 1..N : f[n] = Read(f[n - 1], log[n])
            /\ ReadThrough(st, log) = f[N]
    BY ReadSteps
  <1>3. PICK g \in [0..(N + 1) -> States] :
            /\ g[0] = st /\ \A n \in 1..(N + 1) : g[n] = Read(g[n - 1], more[n])
            /\ ReadThrough(st, more) = g[N + 1]
    <2> HIDE DEF more
    <2>1. \E g \in [0..Len(more) -> States] :
             /\ g[0] = st /\ \A n \in 1..Len(more) : g[n] = Read(g[n - 1], more[n])
             /\ ReadThrough(st, more) = g[Len(more)]
      BY <1>1, ReadSteps
    <2> QED
      BY <1>1, <2>1
  <1> HIDE DEF N, more
  <1>4. \A n \in 1..N : f[n - 1] = g[n - 1] => f[n] = g[n]
    BY <1>1, <1>2, <1>3
  <1>5. f[N] = g[N]
    <2>1. f[0] = g[0]
      BY <1>2, <1>3
    <2> DEFINE T == {n \in 0..N : f[n] = g[n]}
    <2>2. 0 \in T /\ \A n \in 1..N : n - 1 \in T => n \in T
      BY <1>1, <1>4, <2>1
    <2> HIDE DEF T
    <2>3. N \in Nat
      BY <1>1
    <2>4. \A n \in 0..N : n \in T
      BY <2>2, <2>3, UpTo
    <2> QED
      BY <2>3, <2>4 DEF T
  <1>6. g[N + 1] = Read(g[N], line)
    BY <1>1, <1>3
  <1> QED
    BY <1>1, <1>2, <1>3, <1>5, <1>6 DEF more

\* A step that touches only the map m.
OnlyAt(m) ==
  \A n \in GameMaps \ {m} :
    /\ verdict'[n] = verdict[n] /\ lines'[n] = lines[n] /\ story'[n] = story[n]
    /\ n \in live' <=> n \in live
    /\ n \in haunted' <=> n \in haunted
    /\ n \in inside' => n \in inside
    /\ n \in draining' => n \in draining

\* What the guard has of the others stays.
LEMMA GuardAt ==
  ASSUME GuardInv, NEW m \in GameMaps, OnlyAt(m), GuardShapes', Told(m)'
  PROVE  GuardInv'
<1>1. ASSUME NEW n \in GameMaps \ {m} PROVE Told(n)'
  <2>1. Told(n) /\ UNCHANGED ReadAll(n)
    BY <1>1 DEF GuardInv, OnlyAt, ReadAll
  <2>2. /\ UNCHANGED <<verdict[n], lines[n], story[n]>>
        /\ n \in live' <=> n \in live
        /\ n \in haunted' <=> n \in haunted
        /\ n \in inside' => n \in inside
        /\ n \in draining' => n \in draining
    BY <1>1 DEF OnlyAt
  <2> QED
    BY <2>1, <2>2 DEF Told, Fits
<1> QED
  BY <1>1 DEF GuardInv

\* A step that touches none of it keeps it.
LEMMA GuardQuiet ==
  ASSUME GuardInv, UNCHANGED <<verdict, lines, story, live, haunted>>,
         inside' \subseteq inside, draining' \subseteq draining
  PROVE  GuardInv'
<1>1. ASSUME NEW n \in GameMaps PROVE Told(n)'
  <2>1. Told(n) /\ UNCHANGED ReadAll(n)
    BY <1>1 DEF GuardInv, ReadAll
  <2> QED
    BY <2>1 DEF Told, Clear, Fits
<1> QED
  BY <1>1 DEF GuardInv, GuardShapes

\* A line, or two, written to the log of a story are read after the others.
LEMMA WritesOne ==
  ASSUME GuardShapes, NEW m \in StoryMaps, NEW line \in Lines, Writes(m, <<line>>),
         UNCHANGED verdict
  PROVE  /\ lines' \in [GameMaps -> Seq(Lines)]
         /\ \A n \in GameMaps \ {m} : lines'[n] = lines[n]
         /\ ReadAll(m) \in States /\ ReadAll(m)' = Read(ReadAll(m), line)
<1>1. m \in GameMaps /\ verdict[m] \in States /\ lines[m] \in Seq(Lines)
  BY TravelAssumption DEF GuardShapes
<1>2. lines' = [lines EXCEPT ![m] = Append(lines[m], line)]
  BY <1>1 DEF Writes
<1>3. Append(lines[m], line) \in Seq(Lines)
  BY <1>1
<1> QED
  BY <1>1, <1>2, <1>3, ReadMore DEF GuardShapes, ReadAll

LEMMA WritesTwo ==
  ASSUME GuardShapes, NEW m \in StoryMaps, Writes(m, <<"left", "reload">>), UNCHANGED verdict
  PROVE  /\ lines' \in [GameMaps -> Seq(Lines)]
         /\ \A n \in GameMaps \ {m} : lines'[n] = lines[n]
         /\ ReadAll(m) \in States
         /\ ReadAll(m)' = Read(Read(ReadAll(m), "left"), "reload")
<1>1. m \in GameMaps /\ verdict[m] \in States /\ lines[m] \in Seq(Lines)
  BY TravelAssumption DEF GuardShapes
<1> DEFINE log == Append(lines[m], "left")
<1>2. "left" \in Lines /\ "reload" \in Lines
  BY DEF Lines
<1>3. log \in Seq(Lines) /\ Append(log, "reload") \in Seq(Lines)
  BY <1>1, <1>2
<1>4. lines' = [lines EXCEPT ![m] = Append(log, "reload")]
  <2>1. lines[m] \o <<"left", "reload">> = Append(log, "reload")
    BY <1>1, <1>2
  <2> QED
    BY <2>1 DEF Writes
<1>5. /\ ReadThrough(verdict[m], lines[m]) \in States
      /\ ReadThrough(verdict[m], log) = Read(ReadThrough(verdict[m], lines[m]), "left")
  BY <1>1, <1>2, ReadMore
<1>6. ReadThrough(verdict[m], Append(log, "reload")) = Read(ReadThrough(verdict[m], log), "reload")
  <2> HIDE DEF log
  <2> QED
    BY <1>1, <1>2, <1>3, ReadMore
<1> HIDE DEF log
<1> QED
  BY <1>1, <1>3, <1>4, <1>5, <1>6 DEF GuardShapes, ReadAll

\* A server begins: of what is left of an earlier one it is known that it is.
LEMMA GuardBegins ==
  ASSUME GuardInv, NEW m \in GameMaps, m \notin live, m \notin inside, m \notin draining,
         Begins(m), UNCHANGED <<verdict, lines, inside, draining>>
  PROVE  GuardInv'
<1>1. Told(m) /\ verdict[m] \in States
  BY DEF GuardInv, GuardShapes
<1>2. GuardShapes' /\ OnlyAt(m) /\ m \in live' /\ story'[m] = Fresh(m)
  BY DEF Begins, Fresh, GuardInv, GuardShapes, OnlyAt
<1>3. CASE m \notin StoryMaps
  <2>1. ReadAll(m)' = Clear /\ story'[m] = "play" /\ m \notin haunted'
    <3>1. ReadThrough(Clear, <<>>) = Clear
      <4>1. Clear \in States
        BY DEF States, Clear
      <4> QED
        BY <4>1, ReadNothing
    <3> QED
      BY <1>1, <1>2, <1>3, <3>1 DEF Told, Begins, ReadAll, Fresh
  <2> QED
    BY <1>1, <1>2, <1>3, <2>1, GuardAt DEF Told, Fits, Clear
<1>4. CASE m \in StoryMaps /\ lines[m] # <<>>
  BY <1>1, <1>2, <1>4, GuardAt DEF Told, Fits, Begins, Fresh
<1>5. CASE m \in StoryMaps /\ lines[m] = <<>>
  <2>1. ReadAll(m)' = verdict[m]
    BY <1>1, <1>5, ReadNothing DEF ReadAll
  <2> QED
    BY <1>1, <1>2, <1>5, <2>1, GuardAt DEF Told, Fits, Begins, Fresh
<1> QED
  BY <1>3, <1>4, <1>5

\* A server ends, and its log, or what was concluded of it, stays.
LEMMA GuardEnds ==
  ASSUME GuardInv, NEW m \in GameMaps, UNCHANGED <<verdict, lines, story>>,
         live' = live \ {m}, inside' = inside \ {m}, draining' \subseteq draining \cup {m},
         NotForgotten(m)
  PROVE  GuardInv'
<1>1. Told(m) /\ GuardShapes' /\ OnlyAt(m)
  BY DEF GuardInv, GuardShapes, OnlyAt, NotForgotten
<1>2. Told(m)'
  <2>1. m \notin live' /\ m \notin inside' /\ UNCHANGED <<verdict[m], lines[m], story[m]>>
    OBVIOUS
  <2>2. m \notin StoryMaps => m \notin haunted'
    BY <1>1 DEF Told, NotForgotten, Clear
  <2>3. verdict[m].abandoned \/ verdict[m].looping => m \in haunted'
    BY DEF NotForgotten
  <2> QED
    BY <1>1, <2>1, <2>2, <2>3 DEF Told
<1> QED
  BY <1>1, <1>2, GuardAt

\* The server of m says what happened in its story.
LEMMA GuardTells ==
  ASSUME GuardInv, NEW m \in StoryMaps, NEW line \in Lines, Writes(m, <<line>>), m \in live,
         NEW chapter \in {"play", "done", "sent", "left", "loop"},
         story' = [story EXCEPT ![m] = chapter], m \notin haunted',
         UNCHANGED <<verdict, live, draining>>,
         \A n \in GameMaps \ {m} : n \in haunted' <=> n \in haunted,
         \A n \in GameMaps \ {m} : n \in inside' => n \in inside,
         Fits(Read(ReadAll(m), line), chapter, FALSE)
  PROVE  GuardInv'
<1>1. m \in GameMaps /\ Told(m) /\ GuardShapes
  BY TravelAssumption DEF GuardInv
<1>2. GuardShapes' /\ OnlyAt(m) /\ ReadAll(m)' = Read(ReadAll(m), line)
  BY <1>1, WritesOne DEF GuardInv, GuardShapes, OnlyAt
<1>3. story'[m] = chapter /\ chapter # "boot"
  BY <1>1 DEF GuardShapes
<1>4. Told(m)'
  BY <1>1, <1>2, <1>3 DEF Told, Fits
<1> QED
  BY <1>1, <1>2, <1>4, GuardAt

\* What is known of a log changes with nothing but the log and the verdict.
LEMMA KnownType ==
  ASSUME GuardShapes, NEW m \in GameMaps
  PROVE  ReadAll(m) \in States /\ verdict[m] \in States /\ lines[m] \in Seq(Lines)
<1>1. verdict[m] \in States /\ lines[m] \in Seq(Lines) /\ "boot" \in Lines
  BY DEF GuardShapes, Lines
<1> QED
  BY <1>1, ReadMore DEF ReadAll

\* The guard's own step at a map: the verdict it keeps is what the whole log says,
\* and of a map that is stopped none is left.
LEMMA GuardReads ==
  ASSUME ShapesInv, GuardInv, NEW m \in GameMaps, ReapMap(m)
  PROVE  GuardInv'
<1> DEFINE occupied == m \in reap.counts
           finished == m \notin Warm /\ Finished(m, occupied)
<1>1. /\ Told(m) /\ GuardShapes /\ ReadAll(m) \in States /\ verdict[m] \in States
      /\ live \subseteq up /\ inside \subseteq live /\ UNCHANGED story
  BY KnownType, ReapMapForms DEF GuardInv, ShapesInv
<1>2. m \in live => Scanned(m) = ReadAll(m)
  BY <1>1, ReadNothing DEF Scanned, ReadAll
<1>3. Clear \in States /\ ~Clear.looping /\ ~Clear.abandoned
  BY DEF Clear, States
<1>4. CASE m \in Warm \/ m \notin live
  <2>1. ~finished /\ UNCHANGED <<verdict, lines>>
    BY <1>3, <1>4 DEF ReapMap, Finished, Scanned
  <2>2. CASE ~Stops(m)
    <3>1. UNCHANGED <<live, inside, draining, haunted>>
      BY <2>1, <2>2 DEF ReapMap, serverVars
    <3> QED
      BY <1>1, <2>1, <3>1, GuardQuiet
  <2>3. CASE Stops(m) /\ m \in Warm
    <3>1. UNCHANGED <<live, inside, draining, haunted>>
      BY <2>1, <2>3 DEF ReapMap, serverVars
    <3> QED
      BY <1>1, <2>1, <3>1, GuardQuiet
  <2>4. CASE Stops(m) /\ m \notin live
    <3>1. UNCHANGED <<live, inside, draining, haunted>>
      BY <1>1, <2>1, <2>4 DEF ReapMap, Stops, LowerToZero, Emptied, serverVars
    <3> QED
      BY <1>1, <2>1, <3>1, GuardQuiet
  <2> QED
    BY <1>4, <2>2, <2>3, <2>4
<1>5. CASE m \notin Warm /\ m \in live
  <2>1. /\ verdict' = [verdict EXCEPT ![m] = IF finished THEN Clear ELSE ReadAll(m)]
        /\ lines' = [lines EXCEPT ![m] = <<>>]
    BY <1>2, <1>5 DEF ReapMap, Kept
  <2>2. GuardShapes' /\ verdict'[m] \in States /\ lines'[m] = <<>>
        /\ \A n \in GameMaps \ {m} : verdict'[n] = verdict[n] /\ lines'[n] = lines[n]
    BY <1>1, <1>3, <2>1 DEF GuardShapes
  <2>3. finished <=> ReadAll(m).looping \/ (ReadAll(m).abandoned /\ ~occupied)
    BY <1>2, <1>5 DEF Finished
  <2>4. CASE ~(finished \/ (~occupied /\ EmptyFor(m, IdleAfter)))
    <3>1. UNCHANGED <<live, inside, draining, haunted>>
      BY <1>5, <2>4 DEF ReapMap, serverVars
    <3>2. verdict'[m] = ReadAll(m)
      BY <1>1, <2>1, <2>4 DEF GuardShapes
    <3>3. ReadAll(m)' = ReadAll(m)
      BY <1>1, <2>2, <3>2, ReadNothing DEF ReadAll
    <3>4. m \notin StoryMaps => verdict'[m] = Clear
      BY <1>1, <3>2, ReadNothing DEF Told, ReadAll
    <3>5. Told(m)'
      BY <1>1, <1>5, <2>2, <3>1, <3>3, <3>4 DEF Told, Fits
    <3>6. OnlyAt(m)
      BY <1>1, <2>2, <3>1 DEF OnlyAt
    <3> QED
      BY <2>2, <3>5, <3>6, GuardAt
  <2>5. CASE finished \/ (~occupied /\ EmptyFor(m, IdleAfter))
    <3>1. Stops(m) /\ haunted' = IF finished THEN haunted \ {m} ELSE haunted
      BY <1>5, <2>5 DEF ReapMap
    <3>2. /\ live' = live \ {m} /\ inside' = inside \ {m}
          /\ draining' = draining \cup {m}
      BY <1>5, <3>1 DEF Stops, LowerToZero, Emptied
    <3>3. ~verdict'[m].looping /\ ~verdict'[m].abandoned
      <4>1. CASE finished
        BY <1>1, <1>3, <2>1, <4>1 DEF GuardShapes
      <4>2. CASE ~finished
        <5>1. verdict'[m] = ReadAll(m)
          BY <1>1, <2>1, <4>2 DEF GuardShapes
        <5> QED
          BY <2>3, <2>5, <4>2, <5>1
      <4> QED
        BY <4>1, <4>2
    <3>4. m \notin StoryMaps => verdict'[m] = Clear /\ m \notin haunted'
      <4>1. ASSUME m \notin StoryMaps PROVE ReadAll(m) = Clear
        BY <1>3, <1>1, <4>1, ReadNothing DEF Told, ReadAll
      <4> QED
        BY <1>1, <2>1, <3>1, <4>1 DEF Told, GuardShapes
    <3>5. Told(m)'
      BY <1>1, <2>2, <3>2, <3>3, <3>4 DEF Told
    <3>6. OnlyAt(m)
      BY <1>1, <2>2, <3>1, <3>2 DEF OnlyAt
    <3> QED
      BY <2>2, <3>5, <3>6, GuardAt
  <2> QED
    BY <2>4, <2>5
<1> QED
  BY <1>4, <1>5

\* The watcher stops a map to make room, and the guard forgets it.
LEMMA GuardFrees ==
  ASSUME ShapesInv, GuardInv, NEW m \in GameMaps, Frees(m)
  PROVE  GuardInv'
<1>1. Told(m) /\ GuardShapes
  BY DEF GuardInv
<1>2. /\ live' = live \ {m} /\ inside' = inside \ {m} /\ haunted' = haunted \ {m}
      /\ draining' \subseteq draining \cup {m} /\ UNCHANGED <<lines, story>>
      /\ verdict' = [verdict EXCEPT ![m] = Clear]
  BY DEF Frees, Stops, LowerToZero, Emptied, WatchRest
<1>3. Clear \in States /\ ~Clear.looping /\ ~Clear.abandoned
  BY DEF Clear, States
<1>4. GuardShapes' /\ OnlyAt(m) /\ verdict'[m] = Clear
  BY <1>1, <1>2, <1>3 DEF GuardShapes, OnlyAt
<1>5. Told(m)'
  BY <1>1, <1>2, <1>3, <1>4 DEF Told
<1> QED
  BY <1>4, <1>5, GuardAt

\* What a player does in a story, and what its server writes of it.
LEMMA GuardLeaves ==
  ASSUME ShapesInv, GuardInv, NEW m \in GameMaps, NEW last \in BOOLEAN, Leaves(m, last)
  PROVE  GuardInv'
<1>1. /\ Told(m) /\ GuardShapes /\ m \in inside /\ m \in live /\ ReadAll(m) \in States
      /\ m \notin haunted
  BY KnownType DEF GuardInv, ShapesInv, Leaves, Told, Fits
<1>2. /\ UNCHANGED <<verdict, live, draining, haunted>>
      /\ inside' \subseteq inside
      /\ story' = [story EXCEPT ![m] =
                     CASE @ = "done" -> "left" [] @ = "sent" /\ last -> "play" [] OTHER -> @]
  BY DEF Leaves, Emptied, GameRest, loopVars, serverVars
<1> DEFINE chapter == CASE story[m] = "done" -> "left"
                        [] story[m] = "sent" /\ last -> "play"
                        [] OTHER -> story[m]
<1>3. /\ story' = [story EXCEPT ![m] = chapter]
      /\ story[m] \in {"play", "done", "sent", "left", "loop"}
      /\ chapter \in {"play", "done", "sent", "left", "loop"}
  BY <1>1, <1>2 DEF Told, GuardShapes
<1>4. CASE m \notin StoryMaps
  <2>1. story[m] = "play" /\ UNCHANGED <<lines, story>>
    BY <1>1, <1>2, <1>4 DEF Told, Leaves, Writes, GuardShapes
  <2> QED
    BY <1>2, <2>1, GuardQuiet
<1>5. Fits(Read(ReadAll(m), "left"), IF story[m] = "done" THEN "left" ELSE story[m], FALSE)
  BY <1>1, <1>3 DEF Told, Fits, Read, States
<1>6. Fits(Read(Read(ReadAll(m), "left"), "reload"),
           IF story[m] = "done" THEN "left" ELSE IF story[m] = "sent" THEN "play" ELSE story[m],
           FALSE)
  BY <1>1, <1>3 DEF Told, Fits, Read, States
<1>7. CASE m \in StoryMaps /\ ~last
  <2>1. Writes(m, <<"left">>) /\ "left" \in Lines
    BY <1>7 DEF Leaves, Lines
  <2>2. chapter = IF story[m] = "done" THEN "left" ELSE story[m]
    BY <1>3, <1>7
  <2>3. Fits(Read(ReadAll(m), "left"), chapter, FALSE)
    BY <1>5, <2>2
  <2> HIDE DEF chapter
  <2> QED
    BY <1>1, <1>2, <1>3, <1>7, <2>1, <2>3, GuardTells
<1>8. CASE m \in StoryMaps /\ last
  <2>1. Writes(m, <<"left", "reload">>)
    BY <1>8 DEF Leaves
  <2>2. chapter = IF story[m] = "done" THEN "left"
                  ELSE IF story[m] = "sent" THEN "play" ELSE story[m]
    BY <1>3, <1>8
  <2>3. Fits(Read(Read(ReadAll(m), "left"), "reload"), chapter, FALSE)
    BY <1>6, <2>2
  <2> HIDE DEF chapter
  <2>4. /\ lines' \in [GameMaps -> Seq(Lines)]
        /\ \A n \in GameMaps \ {m} : lines'[n] = lines[n]
        /\ ReadAll(m)' = Read(Read(ReadAll(m), "left"), "reload")
    BY <1>1, <1>2, <1>8, <2>1, WritesTwo
  <2>5. GuardShapes' /\ OnlyAt(m) /\ story'[m] = chapter
    BY <1>1, <1>2, <1>3, <2>4 DEF GuardShapes, OnlyAt
  <2>6. Told(m)'
    BY <1>1, <1>2, <1>3, <1>8, <2>3, <2>4, <2>5 DEF Told, Fits
  <2> QED
    BY <2>5, <2>6, GuardAt
<1> QED
  BY <1>4, <1>7, <1>8

\* A step of the server of m that says a line of its story.
LEMMA GuardStory ==
  ASSUME ShapesInv, GuardInv, NEW m \in GameMaps,
         Boots(m) \/ Enters(m) \/ Completes(m) \/ SendsOn(m) \/ DyingWrites(m)
  PROVE  GuardInv'
<1>1. Told(m) /\ GuardShapes /\ ReadAll(m) \in States /\ inside \subseteq live
  BY KnownType DEF GuardInv, ShapesInv
<1>2. CASE Boots(m)
  <2>1. /\ m \in live /\ story[m] = "boot" /\ Writes(m, <<"boot">>)
        /\ story' = [story EXCEPT ![m] = "play"] /\ haunted' = haunted \ {m}
        /\ UNCHANGED <<verdict, live, draining, inside>>
    BY <1>2 DEF Boots, GameRest, loopVars, serverVars
  <2>2. m \in StoryMaps /\ "boot" \in Lines
    BY <1>1, <2>1 DEF Told, Lines
  <2>3. Fits(Read(ReadAll(m), "boot"), "play", FALSE)
    BY DEF Fits, Read, Clear
  <2> QED
    BY <2>1, <2>2, <2>3, GuardTells
<1>3. CASE Enters(m)
  <2>1. /\ m \in live /\ story[m] # "boot" /\ inside' = inside \cup {m}
        /\ UNCHANGED <<verdict, live, draining, haunted>>
    BY <1>3 DEF Enters, GameRest, loopVars, serverVars
  <2>2. m \notin haunted
    BY <1>1, <2>1 DEF Told, Fits
  <2>3. CASE story[m] = "left"
    <3>1. /\ Writes(m, <<"looped">>) /\ story' = [story EXCEPT ![m] = "loop"]
      BY <1>3, <2>3 DEF Enters
    <3>2. m \in StoryMaps /\ "looped" \in Lines
      BY <1>1, <2>3 DEF Told, Lines
    <3>3. Fits(Read(ReadAll(m), "looped"), "loop", FALSE)
      BY <1>1 DEF Fits, Read, States
    <3> QED
      BY <2>1, <2>2, <3>1, <3>2, <3>3, GuardTells
  <2>4. CASE story[m] # "left"
    <3>1. UNCHANGED <<lines, story>>
      BY <1>3, <2>4 DEF Enters
    <3>2. OnlyAt(m) /\ GuardShapes' /\ UNCHANGED ReadAll(m)
      BY <1>1, <2>1, <3>1 DEF OnlyAt, GuardShapes, ReadAll
    <3>3. Told(m)'
      BY <1>1, <2>1, <2>2, <3>1, <3>2 DEF Told, Fits
    <3> QED
      BY <3>2, <3>3, GuardAt
  <2> QED
    BY <2>3, <2>4
<1>4. CASE Completes(m)
  <2>1. /\ m \in inside /\ m \in StoryMaps /\ story[m] \in {"play", "sent"}
        /\ Writes(m, <<"completed">>) /\ story' = [story EXCEPT ![m] = "done"]
        /\ UNCHANGED <<verdict, live, draining, haunted, inside>>
    BY <1>4 DEF Completes, GameRest, loopVars, serverVars
  <2>2. m \in live /\ m \notin haunted /\ "completed" \in Lines
    BY <1>1, <2>1 DEF Told, Fits, Lines
  <2>3. Fits(Read(ReadAll(m), "completed"), "done", FALSE)
    BY <1>1, <2>1, <2>2 DEF Told, Fits, Read, States
  <2> QED
    BY <2>1, <2>2, <2>3, GuardTells
<1>5. CASE SendsOn(m)
  <2>1. /\ m \in inside /\ story[m] = "done"
        /\ Writes(m, <<"travel">>) /\ story' = [story EXCEPT ![m] = "sent"]
        /\ UNCHANGED <<verdict, live, draining, haunted, inside>>
    BY <1>5 DEF SendsOn, GameRest, loopVars, serverVars
  <2>2. m \in live /\ m \notin haunted /\ m \in StoryMaps /\ "travel" \in Lines
    BY <1>1, <2>1 DEF Told, Fits, Lines
  <2>3. Fits(Read(ReadAll(m), "travel"), "sent", FALSE)
    BY <1>1, <2>1, <2>2 DEF Told, Fits, Read, States
  <2> QED
    BY <2>1, <2>2, <2>3, GuardTells
<1>6. CASE DyingWrites(m)
  <2>1. /\ m \in draining /\ story[m] = "loop" /\ Writes(m, <<"looped">>)
        /\ UNCHANGED <<verdict, live, draining, haunted, inside, story>>
    BY <1>6 DEF DyingWrites, GameRest, loopVars, serverVars, pollHistory
  <2>2. m \notin live /\ m \in StoryMaps /\ "looped" \in Lines
    BY <1>1, <2>1 DEF Told, Lines
  <2>3. GuardShapes' /\ OnlyAt(m)
    BY <1>1, <2>1, <2>2, WritesOne DEF GuardShapes, OnlyAt
  <2>4. Told(m)'
    BY <1>1, <2>1, <2>2 DEF Told
  <2> QED
    BY <2>3, <2>4, GuardAt
<1> QED
  BY <1>2, <1>3, <1>4, <1>5, <1>6

\* Every step keeps what the guard has fitting what the stories are.
LEMMA GuardStep ==
  ASSUME ShapesInv, GuardInv, [TravelNext]_travelVars
  PROVE  GuardInv'
<1> USE DEF ShapesInv
<1>0. CASE UNCHANGED travelVars
  BY <1>0, GuardQuiet
  DEF travelVars, loopVars, serverVars, gameVars, pollHistory, travelHistory
<1>1. ASSUME NEW m \in GameMaps, Respawns(m) PROVE GuardInv'
  BY <1>1, GuardBegins DEF Respawns, loopVars
<1>2. ASSUME NEW m \in GameMaps, DrainEnds(m) PROVE GuardInv'
  BY <1>2, GuardQuiet DEF DrainEnds, loopVars, gameVars, travelHistory, pollHistory
<1>3. ASSUME NEW m \in GameMaps, ServerDies(m) PROVE GuardInv'
  <2>1. /\ live' = live \ {m} /\ inside' = inside \ {m} /\ NotForgotten(m)
        /\ UNCHANGED <<verdict, lines, story, draining>>
    BY <1>3 DEF ServerDies, Emptied, loopVars
  <2> QED
    BY <2>1, GuardEnds
<1>4. ASSUME NEW m \in GameMaps, OthersRaise(m) PROVE GuardInv'
  <2>1. m \notin live /\ m \notin inside
    BY <1>4 DEF OthersRaise
  <2>2. CASE m \in draining
    BY <1>4, <2>2, GuardQuiet DEF OthersRaise, loopVars
  <2>3. CASE m \notin draining
    BY <1>4, <2>1, <2>3, GuardBegins DEF OthersRaise, loopVars
  <2> QED
    BY <2>2, <2>3
<1>5. ASSUME NEW m \in GameMaps, OthersLower(m) PROVE GuardInv'
  <2>1. /\ live' = live \ {m} /\ inside' = inside \ {m} /\ NotForgotten(m)
        /\ draining' \subseteq draining \cup {m} /\ UNCHANGED <<verdict, lines, story>>
    BY <1>5 DEF OthersLower, LowerToZero, Emptied, loopVars
  <2> QED
    BY <2>1, GuardEnds
<1>6. ASSUME NEW m \in GameMaps,
             Boots(m) \/ Enters(m) \/ Completes(m) \/ SendsOn(m) \/ DyingWrites(m)
      PROVE GuardInv'
  BY <1>6, GuardStory
<1>7. ASSUME NEW m \in GameMaps, Asks(m) PROVE GuardInv'
  BY <1>7, GuardQuiet DEF Asks, loopVars, serverVars, gameVars
<1>8. ASSUME NEW m \in GameMaps, NEW last \in BOOLEAN, Leaves(m, last) PROVE GuardInv'
  BY <1>8, GuardLeaves
<1>9. ASSUME NEW kept \in SUBSET past, LogTrimmed(kept) PROVE GuardInv'
  BY <1>9, GuardQuiet DEF LogTrimmed, loopVars, serverVars, gameVars, travelHistory
<1>10. CASE ReapReads
  BY <1>10, GuardQuiet DEF ReapReads, ReapRest, serverVars
<1>11. CASE ReapEnds
  BY <1>11, GuardQuiet DEF ReapEnds, ReapRest, serverVars
<1>12. ASSUME NEW m \in GameMaps, ReapMap(m) PROVE GuardInv'
  BY <1>12, GuardReads
<1>13. CASE ReapCannotRead
  BY <1>13, GuardQuiet DEF ReapCannotRead, ReapRest, loopVars, serverVars
<1>14. CASE WatchReads
  BY <1>14, GuardQuiet DEF WatchReads, serverVars, gameVars, travelHistory
<1>15. CASE WatchEnds
  BY <1>15, GuardQuiet DEF WatchEnds, WatchRest, serverVars, travelHistory
<1>16. CASE WatchQueries
  BY <1>16, GuardQuiet DEF WatchQueries, WatchRest, serverVars
<1>17. CASE LooksAgain
  BY <1>17, GuardQuiet DEF LooksAgain, WatchRest, serverVars
<1>18. CASE Starts
  <2>1. watch.map \in GameMaps /\ UNCHANGED <<verdict, lines, inside, draining>>
    BY <1>18 DEF Starts
  <2>2. CASE UNCHANGED <<live, story, haunted>>
    BY <2>1, <2>2, GuardQuiet
  <2>3. CASE ~UNCHANGED <<live, story, haunted>>
    <3>1. watch.map \notin up /\ watch.map \notin draining /\ Begins(watch.map)
      BY <1>18, <2>3 DEF Starts, RaiseTo
    <3> QED
      BY <2>1, <3>1, GuardBegins
  <2> QED
    BY <2>2, <2>3
<1>19. ASSUME NEW m \in GameMaps, WatchNext(m) PROVE GuardInv'
  BY <1>19, GuardQuiet DEF WatchNext, WatchRest, serverVars, travelHistory
<1>20. CASE FreesNone
  BY <1>20, GuardQuiet DEF FreesNone, WatchRest, serverVars
<1>21. ASSUME NEW m \in GameMaps, Frees(m) PROVE GuardInv'
  BY <1>21, GuardFrees
<1>22. CASE TravelTime
  BY <1>22, GuardQuiet DEF TravelTime, serverVars, gameVars
<1> QED
  BY <1>0, <1>1, <1>2, <1>3, <1>4, <1>5, <1>6, <1>7, <1>8, <1>9, <1>10, <1>11, <1>12, <1>13,
     <1>14, <1>15, <1>16, <1>17, <1>18, <1>19, <1>20, <1>21, <1>22
  DEF TravelNext, ReaperSteps, WatcherSteps, MakingRoom

\* Every step keeps account of who came since the players were counted.
LEMMA CountsStep ==
  ASSUME ShapesInv, CountsInv, [TravelNext]_travelVars
  PROVE  CountsInv'
<1>0. CASE UNCHANGED travelVars
  BY <1>0
  DEF CountsInv, ShapesInv, travelVars, loopVars, serverVars, gameVars, boundVars, pollHistory,
      travelHistory
<1>1. ASSUME NEW m \in GameMaps, Respawns(m) PROVE CountsInv'
  BY <1>1, TravelAssumption DEF Respawns, Begins, loopVars, CountsInv, ShapesInv
<1>2. ASSUME NEW m \in GameMaps, DrainEnds(m) PROVE CountsInv'
  BY <1>2, TravelAssumption
  DEF DrainEnds, loopVars, gameVars, travelHistory, pollHistory, CountsInv, ShapesInv
<1>3. ASSUME NEW m \in GameMaps, ServerDies(m) PROVE CountsInv'
  BY <1>3, TravelAssumption
  DEF ServerDies, Emptied, TravelFault, NotForgotten, loopVars, CountsInv, ShapesInv
<1>4. ASSUME NEW m \in GameMaps, OthersRaise(m) PROVE CountsInv'
  BY <1>4, TravelAssumption DEF OthersRaise, Begins, loopVars, CountsInv, ShapesInv
<1>5. ASSUME NEW m \in GameMaps, OthersLower(m) PROVE CountsInv'
  BY <1>5, TravelAssumption
  DEF OthersLower, LowerToZero, Emptied, NotForgotten, loopVars, CountsInv, ShapesInv
<1>6. ASSUME NEW m \in GameMaps, Boots(m) PROVE CountsInv'
  BY <1>6, TravelAssumption
  DEF Boots, Writes, GameRest, loopVars, serverVars, pollHistory, CountsInv, ShapesInv
<1>7. ASSUME NEW m \in GameMaps, Enters(m) PROVE CountsInv'
  BY <1>7, TravelAssumption
  DEF Enters, Writes, Counted, GameRest, loopVars, serverVars, CountsInv, ShapesInv
<1>8. ASSUME NEW m \in GameMaps, Completes(m) PROVE CountsInv'
  BY <1>8, TravelAssumption
  DEF Completes, Writes, GameRest, loopVars, serverVars, pollHistory, CountsInv, ShapesInv
<1>9. ASSUME NEW m \in GameMaps, SendsOn(m) PROVE CountsInv'
  BY <1>9, TravelAssumption
  DEF SendsOn, Writes, GameRest, loopVars, serverVars, pollHistory, CountsInv, ShapesInv
<1>10. ASSUME NEW m \in GameMaps, DyingWrites(m) PROVE CountsInv'
  BY <1>10, TravelAssumption
  DEF DyingWrites, Writes, GameRest, loopVars, serverVars, pollHistory, CountsInv, ShapesInv
<1>11. ASSUME NEW m \in GameMaps, Asks(m) PROVE CountsInv'
  BY <1>11, TravelAssumption
  DEF Asks, loopVars, serverVars, gameVars, pollHistory, CountsInv, ShapesInv
<1>12. ASSUME NEW m \in GameMaps, NEW last \in BOOLEAN, Leaves(m, last) PROVE CountsInv'
  BY <1>12, TravelAssumption
  DEF Leaves, Emptied, Writes, GameRest, loopVars, serverVars, CountsInv, ShapesInv
<1>13. ASSUME NEW kept \in SUBSET past, LogTrimmed(kept) PROVE CountsInv'
  BY <1>13, TravelAssumption
  DEF LogTrimmed, loopVars, serverVars, gameVars, travelHistory, pollHistory, CountsInv,
      ShapesInv
<1>14. CASE ReapReads
  BY <1>14, TravelAssumption DEF ReapReads, Forgotten, ReapRest, serverVars, CountsInv, ShapesInv
<1>15. CASE ReapEnds
  BY <1>15, TravelAssumption DEF ReapEnds, ReapRests, ReapRest, serverVars, CountsInv, ShapesInv
<1>16. ASSUME NEW m \in GameMaps, ReapMap(m) PROVE CountsInv'
  BY <1>16, TravelAssumption
  DEF ReapMap, Stops, Forgotten, LowerToZero, Emptied, Kept, Counting, ReapRest, serverVars,
      CountsInv, ShapesInv
<1>17. CASE ReapCannotRead
  BY <1>17, TravelAssumption
  DEF ReapCannotRead, ReapRest, loopVars, serverVars, pollHistory, CountsInv, ShapesInv
<1>18. CASE WatchReads
  BY <1>18, TravelAssumption
  DEF WatchReads, WatchRests, serverVars, gameVars, travelHistory, pollHistory, CountsInv,
      ShapesInv
<1>19. CASE WatchEnds
  BY <1>19, TravelAssumption
  DEF WatchEnds, WatchRests, WatchRest, serverVars, travelHistory, pollHistory, CountsInv,
      ShapesInv
<1>20. CASE WatchQueries
  BY <1>20, TravelAssumption
  DEF WatchQueries, Refuses, WatchGoesOn, WatchRest, serverVars, pollHistory, CountsInv,
      ShapesInv
<1>21. CASE LooksAgain
  BY <1>21, TravelAssumption
  DEF LooksAgain, WatchTo, Refuses, WatchGoesOn, WatchRest, serverVars, pollHistory, CountsInv,
      ShapesInv
<1>22. CASE Starts
  BY <1>22, TravelAssumption DEF Starts, RaiseTo, Begins, WatchGoesOn, CountsInv, ShapesInv
<1>23. ASSUME NEW m \in GameMaps, WatchNext(m) PROVE CountsInv'
  BY <1>23, TravelAssumption
  DEF WatchNext, WatchRest, serverVars, travelHistory, pollHistory, CountsInv, ShapesInv
<1>24. CASE FreesNone
  BY <1>24, TravelAssumption
  DEF FreesNone, Refuses, WatchGoesOn, WatchRest, serverVars, CountsInv, ShapesInv
<1>25. ASSUME NEW m \in GameMaps, Frees(m) PROVE CountsInv'
  BY <1>25, TravelAssumption
  DEF Frees, Freeable, Stops, Forgotten, LowerToZero, Emptied, WatchTo, WatchRest, CountsInv,
      ShapesInv
<1>26. CASE TravelTime
  BY <1>26, TravelAssumption DEF TravelTime, Aged, serverVars, gameVars, CountsInv, ShapesInv
<1> QED
  BY <1>0, <1>1, <1>2, <1>3, <1>4, <1>5, <1>6, <1>7, <1>8, <1>9, <1>10, <1>11, <1>12, <1>13,
     <1>14, <1>15, <1>16, <1>17, <1>18, <1>19, <1>20, <1>21, <1>22, <1>23, <1>24, <1>25, <1>26
  DEF TravelNext, ReaperSteps, WatcherSteps, MakingRoom

\* Every step keeps every timer at most as old as the emptiness it counts.
LEMMA TimersStep ==
  ASSUME ShapesInv, CountsInv, TimersInv, [TravelNext]_travelVars
  PROVE  TimersInv'
<1>0. CASE UNCHANGED travelVars
  BY <1>0
  DEF TimersInv, Deleting, ShapesInv, TimerRange, travelVars, loopVars, serverVars, gameVars,
      boundVars, pollHistory, travelHistory
<1>1. ASSUME NEW m \in GameMaps, Respawns(m) PROVE TimersInv'
  BY <1>1, TravelAssumption
  DEF Respawns, Begins, loopVars, TimersInv, Deleting, ShapesInv, TimerRange
<1>2. ASSUME NEW m \in GameMaps, DrainEnds(m) PROVE TimersInv'
  BY <1>2, TravelAssumption
  DEF DrainEnds, loopVars, gameVars, travelHistory, pollHistory, TimersInv, Deleting,
      ShapesInv, TimerRange
<1>3. ASSUME NEW m \in GameMaps, ServerDies(m) PROVE TimersInv'
  BY <1>3, TravelAssumption
  DEF ServerDies, Emptied, TravelFault, NotForgotten, loopVars, TimersInv, Deleting, ShapesInv,
      TimerRange
<1>4. ASSUME NEW m \in GameMaps, OthersRaise(m) PROVE TimersInv'
  BY <1>4, TravelAssumption
  DEF OthersRaise, Begins, loopVars, TimersInv, Deleting, ShapesInv, TimerRange
<1>5. ASSUME NEW m \in GameMaps, OthersLower(m) PROVE TimersInv'
  BY <1>5, TravelAssumption
  DEF OthersLower, LowerToZero, Emptied, NotForgotten, loopVars, TimersInv, Deleting,
      ShapesInv, TimerRange
<1>6. ASSUME NEW m \in GameMaps, Boots(m) PROVE TimersInv'
  BY <1>6, TravelAssumption
  DEF Boots, Writes, GameRest, loopVars, serverVars, pollHistory, TimersInv, Deleting,
      ShapesInv, TimerRange
<1>7. ASSUME NEW m \in GameMaps, Enters(m) PROVE TimersInv'
  BY <1>7, TravelAssumption
  DEF Enters, Writes, Counted, GameRest, loopVars, serverVars, TimersInv, Deleting, ShapesInv,
      TimerRange
<1>8. ASSUME NEW m \in GameMaps, Completes(m) PROVE TimersInv'
  BY <1>8, TravelAssumption
  DEF Completes, Writes, GameRest, loopVars, serverVars, pollHistory, TimersInv, Deleting,
      ShapesInv, TimerRange
<1>9. ASSUME NEW m \in GameMaps, SendsOn(m) PROVE TimersInv'
  BY <1>9, TravelAssumption
  DEF SendsOn, Writes, GameRest, loopVars, serverVars, pollHistory, TimersInv, Deleting,
      ShapesInv, TimerRange
<1>10. ASSUME NEW m \in GameMaps, DyingWrites(m) PROVE TimersInv'
  BY <1>10, TravelAssumption
  DEF DyingWrites, Writes, GameRest, loopVars, serverVars, pollHistory, TimersInv, Deleting,
      ShapesInv, TimerRange
<1>11. ASSUME NEW m \in GameMaps, Asks(m) PROVE TimersInv'
  BY <1>11, TravelAssumption
  DEF Asks, loopVars, serverVars, gameVars, pollHistory, TimersInv, Deleting, ShapesInv,
      TimerRange
<1>12. ASSUME NEW m \in GameMaps, NEW last \in BOOLEAN, Leaves(m, last) PROVE TimersInv'
  BY <1>12, TravelAssumption
  DEF Leaves, Emptied, Writes, GameRest, loopVars, serverVars, TimersInv, Deleting, ShapesInv,
      TimerRange
<1>13. ASSUME NEW kept \in SUBSET past, LogTrimmed(kept) PROVE TimersInv'
  BY <1>13, TravelAssumption
  DEF LogTrimmed, loopVars, serverVars, gameVars, travelHistory, pollHistory, TimersInv,
      Deleting, ShapesInv, TimerRange
<1>14. CASE ReapReads
  BY <1>14, TravelAssumption
  DEF ReapReads, Forgotten, ReapRest, serverVars, TimersInv, Deleting, ShapesInv, TimerRange
<1>15. CASE ReapEnds
  BY <1>15, TravelAssumption
  DEF ReapEnds, ReapRests, ReapRest, serverVars, TimersInv, Deleting, ShapesInv, TimerRange
<1>16. ASSUME NEW m \in GameMaps, ReapMap(m) PROVE TimersInv'
  <2>0. /\ reap.at = "loop" /\ reap' = [reap EXCEPT !.todo = @ \ {m}]
        /\ UNCHANGED <<watch, asked, past, joined>>
    BY <1>16, ReapMapForms
  <2>1. CASE Stops(m)
    BY <1>16, <2>0, <2>1, TravelAssumption
    DEF Stops, Forgotten, LowerToZero, Emptied, TimersInv, Deleting, ShapesInv, TimerRange
  <2>2. CASE ~Stops(m)
    <3>1. /\ emptySince' = [emptySince EXCEPT ![m] =
                             IF m \in Warm \/ m \in reap.counts THEN NoTimer ELSE Counting(@)]
          /\ missed' = IF m \in Warm \/ m \in reap.counts THEN missed \ {m} ELSE missed
          /\ UNCHANGED <<up, live, inside, vacant, seen>>
      BY <1>16, <2>2, ReapMapForms
    <3> QED
      BY <2>0, <3>1, TimeNumbers
      DEF Counting, CountsInv, TimersInv, Deleting, ShapesInv, TimerRange
  <2> QED
    BY <2>1, <2>2
<1>17. CASE ReapCannotRead
  BY <1>17, TravelAssumption
  DEF ReapCannotRead, ReapRest, loopVars, serverVars, pollHistory, TimersInv, Deleting,
      ShapesInv, TimerRange
<1>18. CASE WatchReads
  BY <1>18, TravelAssumption
  DEF WatchReads, WatchRests, serverVars, gameVars, travelHistory, pollHistory, TimersInv,
      Deleting, ShapesInv, TimerRange
<1>19. CASE WatchEnds
  BY <1>19, TravelAssumption
  DEF WatchEnds, WatchRests, WatchRest, serverVars, travelHistory, pollHistory, TimersInv,
      Deleting, ShapesInv, TimerRange
<1>20. CASE WatchQueries
  BY <1>20, TravelAssumption
  DEF WatchQueries, Refuses, WatchGoesOn, WatchRest, serverVars, pollHistory, TimersInv,
      Deleting, ShapesInv, TimerRange
<1>21. CASE LooksAgain
  BY <1>21, TravelAssumption
  DEF LooksAgain, WatchTo, Refuses, WatchGoesOn, WatchRest, serverVars, pollHistory, TimersInv,
      Deleting, ShapesInv, TimerRange
<1>22. CASE Starts
  BY <1>22, TravelAssumption
  DEF Starts, RaiseTo, Begins, WatchGoesOn, TimersInv, Deleting, ShapesInv, TimerRange
<1>23. ASSUME NEW m \in GameMaps, WatchNext(m) PROVE TimersInv'
  BY <1>23, TravelAssumption
  DEF WatchNext, WatchRest, serverVars, travelHistory, pollHistory, TimersInv, Deleting,
      ShapesInv, TimerRange
<1>24. CASE FreesNone
  BY <1>24, TravelAssumption
  DEF FreesNone, Refuses, WatchGoesOn, WatchRest, serverVars, TimersInv, Deleting, ShapesInv,
      TimerRange
<1>25. ASSUME NEW m \in GameMaps, Frees(m) PROVE TimersInv'
  BY <1>25, TravelAssumption
  DEF Frees, Freeable, Stops, Forgotten, LowerToZero, Emptied, WatchTo, WatchRest, TimersInv,
      Deleting, ShapesInv, TimerRange
<1>26. CASE TravelTime
  BY <1>26, TravelAssumption
  DEF TravelTime, Aged, serverVars, gameVars, TimersInv, Deleting, ShapesInv, TimerRange
<1> QED
  BY <1>0, <1>1, <1>2, <1>3, <1>4, <1>5, <1>6, <1>7, <1>8, <1>9, <1>10, <1>11, <1>12, <1>13,
     <1>14, <1>15, <1>16, <1>17, <1>18, <1>19, <1>20, <1>21, <1>22, <1>23, <1>24, <1>25, <1>26
  DEF TravelNext, ReaperSteps, WatcherSteps, MakingRoom

\* The parts together: the invariant is inductive.
LEMMA TravelInvStep ==
  ASSUME TravelInv, [TravelNext]_travelVars
  PROVE  TravelInv'
BY ShapesStep, OpsStep, GuardStep, CountsStep, TimersStep DEF TravelInv

\* At the start no server has written anything.
LEMMA GuardInit == ASSUME TravelInit PROVE GuardInv
<1>1. /\ verdict = [m \in GameMaps |-> Clear] /\ lines = [m \in GameMaps |-> <<>>]
      /\ story = [m \in GameMaps |-> Fresh(m)] /\ haunted = {} /\ draining = {} /\ inside = {}
  BY DEF TravelInit
<1>2. Clear \in States /\ ReadThrough(Clear, <<>>) = Clear
  <2>1. Clear \in States
    BY DEF Clear, States
  <2> QED
    BY <2>1, ReadNothing
<1>3. GuardShapes
  BY <1>1, <1>2 DEF GuardShapes, Fresh
<1>4. ASSUME NEW m \in GameMaps PROVE Told(m)
  <2>1. verdict[m] = Clear /\ lines[m] = <<>> /\ story[m] = Fresh(m) /\ ReadAll(m) = Clear
    BY <1>1, <1>2 DEF ReadAll
  <2> QED
    BY <1>1, <2>1 DEF Told, Fits, Fresh, Clear
<1> QED
  BY <1>3, <1>4 DEF GuardInv

\* The invariant holds at the start.
LEMMA TravelInvInit == ASSUME TravelInit PROVE TravelInv
<1>1. ShapesInv /\ OpsInv /\ CountsInv /\ TimersInv
  BY TimeNumbers, TravelAssumption
  DEF TravelInit, ShapesInv, TimerRange, OpsInv, CountsInv, TimersInv, WatchRests, ReapRests
<1> QED
  BY <1>1, GuardInit DEF TravelInv

\* Only the two loops' own stops count, and they stop one map each.
LEMMA WhoStops ==
  ASSUME travelOps \in Nat, [TravelNext]_travelVars, NEW n \in up,
         n \notin up', travelOps' = travelOps
  PROVE  Frees(n) \/ (ReapMap(n) /\ Stops(n))
<1>1. travelOps' = travelOps /\ n \in up /\ n \notin up'
  OBVIOUS
<1>2. ASSUME NEW m \in GameMaps, Respawns(m) PROVE Frees(n) \/ (ReapMap(n) /\ Stops(n))
  BY <1>1, <1>2 DEF Respawns
<1>3. ASSUME NEW m \in GameMaps, DrainEnds(m) PROVE Frees(n) \/ (ReapMap(n) /\ Stops(n))
  BY <1>1, <1>3 DEF DrainEnds
<1>4. ASSUME NEW m \in GameMaps, ServerDies(m) PROVE Frees(n) \/ (ReapMap(n) /\ Stops(n))
  BY <1>1, <1>4 DEF ServerDies
<1>5. ASSUME NEW m \in GameMaps, OthersRaise(m) PROVE Frees(n) \/ (ReapMap(n) /\ Stops(n))
  BY <1>1, <1>5 DEF OthersRaise
<1>6. ASSUME NEW m \in GameMaps, OthersLower(m) PROVE Frees(n) \/ (ReapMap(n) /\ Stops(n))
  BY <1>1, <1>6, TravelAssumption DEF OthersLower
<1>7. ASSUME NEW m \in GameMaps, Boots(m) PROVE Frees(n) \/ (ReapMap(n) /\ Stops(n))
  BY <1>1, <1>7 DEF Boots, GameRest, serverVars
<1>8. ASSUME NEW m \in GameMaps, Enters(m) PROVE Frees(n) \/ (ReapMap(n) /\ Stops(n))
  BY <1>1, <1>8 DEF Enters, GameRest, serverVars
<1>9. ASSUME NEW m \in GameMaps, Completes(m) PROVE Frees(n) \/ (ReapMap(n) /\ Stops(n))
  BY <1>1, <1>9 DEF Completes, GameRest, serverVars
<1>10. ASSUME NEW m \in GameMaps, SendsOn(m) PROVE Frees(n) \/ (ReapMap(n) /\ Stops(n))
  BY <1>1, <1>10 DEF SendsOn, GameRest, serverVars
<1>11. ASSUME NEW m \in GameMaps, DyingWrites(m) PROVE Frees(n) \/ (ReapMap(n) /\ Stops(n))
  BY <1>1, <1>11 DEF DyingWrites, GameRest, serverVars
<1>12. ASSUME NEW m \in GameMaps, Asks(m) PROVE Frees(n) \/ (ReapMap(n) /\ Stops(n))
  BY <1>1, <1>12 DEF Asks, serverVars
<1>13. ASSUME NEW m \in GameMaps, NEW last \in BOOLEAN, Leaves(m, last)
       PROVE Frees(n) \/ (ReapMap(n) /\ Stops(n))
  BY <1>1, <1>13 DEF Leaves, GameRest, serverVars
<1>14. ASSUME NEW kept \in SUBSET past, LogTrimmed(kept)
       PROVE Frees(n) \/ (ReapMap(n) /\ Stops(n))
  BY <1>1, <1>14 DEF LogTrimmed, serverVars
<1>15. CASE ReapReads
  BY <1>1, <1>15 DEF ReapReads, serverVars
<1>16. CASE ReapEnds
  BY <1>1, <1>16 DEF ReapEnds, serverVars
<1>17. ASSUME NEW m \in GameMaps, ReapMap(m) PROVE Frees(n) \/ (ReapMap(n) /\ Stops(n))
  <2>1. CASE m = n
    <3>1. Stops(m)
      BY <1>1, <1>17, ReapMapForms
    <3> QED
      BY <1>17, <2>1, <3>1
  <2>2. CASE m # n
    <3>1. CASE Stops(m)
      BY <1>1, <2>2, <3>1 DEF Stops, LowerToZero
    <3> QED
      BY <1>1, <1>17, <3>1, ReapMapForms
  <2> QED
    BY <2>1, <2>2
<1>18. CASE ReapCannotRead
  BY <1>1, <1>18 DEF ReapCannotRead, serverVars
<1>19. CASE WatchReads
  BY <1>1, <1>19 DEF WatchReads, serverVars
<1>20. CASE WatchEnds
  BY <1>1, <1>20 DEF WatchEnds, serverVars
<1>21. CASE WatchQueries
  BY <1>1, <1>21 DEF WatchQueries, serverVars
<1>22. CASE LooksAgain
  BY <1>1, <1>22 DEF LooksAgain, serverVars
<1>23. CASE Starts
  BY <1>1, <1>23 DEF Starts, RaiseTo
<1>24. ASSUME NEW m \in GameMaps, WatchNext(m) PROVE Frees(n) \/ (ReapMap(n) /\ Stops(n))
  BY <1>1, <1>24 DEF WatchNext, serverVars
<1>25. CASE FreesNone
  BY <1>1, <1>25 DEF FreesNone, serverVars
<1>26. ASSUME NEW m \in GameMaps, Frees(m) PROVE Frees(n) \/ (ReapMap(n) /\ Stops(n))
  <2>1. CASE m = n
    BY <1>26, <2>1
  <2>2. CASE m # n
    BY <1>1, <1>26, <2>2 DEF Frees, Stops, LowerToZero
  <2> QED
    BY <2>1, <2>2
<1>27. CASE TravelTime
  BY <1>1, <1>27 DEF TravelTime, serverVars
<1>28. CASE UNCHANGED travelVars
  BY <1>1, <1>28 DEF travelVars, serverVars
<1> QED
  BY <1>28, <1>2, <1>3, <1>4, <1>5, <1>6, <1>7, <1>8, <1>9, <1>10, <1>11, <1>12, <1>13, <1>14,
     <1>15, <1>16, <1>17, <1>18, <1>19, <1>20, <1>21, <1>22, <1>23, <1>24, <1>25, <1>26, <1>27
  DEF TravelNext, ReaperSteps, WatcherSteps, MakingRoom

\* The reaper stops a map because its story is over, or because it has been empty for
\* long enough.
LEMMA ReaperStops ==
  ASSUME ShapesInv, GuardInv, NEW m \in GameMaps, ReapMap(m), m \in up, m \notin up'
  PROVE  /\ m \in reap.counts => m \in live /\ (story[m] = "loop" \/ m \in haunted)
         /\ Over(m) \/ (m \notin reap.counts /\ EmptyFor(m, IdleAfter))
         /\ m \in haunted /\ m \in live => m \notin inside
<1>1. Told(m) /\ GuardShapes /\ ReadAll(m) \in States /\ verdict[m] \in States
  BY KnownType DEF GuardInv
<1>2. m \in live => Scanned(m) = ReadAll(m)
  BY <1>1, ReadNothing DEF Scanned, ReadAll
<1>3. Finished(m, m \in reap.counts) \/ (m \notin reap.counts /\ EmptyFor(m, IdleAfter))
  BY DEF ReapMap, serverVars
<1>4. ASSUME Finished(m, m \in reap.counts)
      PROVE  /\ m \in live
             /\ \/ ReadAll(m).looping
                \/ ReadAll(m).abandoned /\ m \notin reap.counts
  <2>1. m \in live
    BY <1>4 DEF Finished, Scanned, Clear
  <2> QED
    BY <1>2, <1>4, <2>1 DEF Finished
<1>5. m \in haunted /\ m \in live => m \notin inside
  BY <1>1 DEF Told, Fits
<1> QED
  BY <1>1, <1>3, <1>4, <1>5 DEF Told, Fits, Over

\* Somebody who is on a map is put out by neither loop, but from a story that loops on
\* them, or when they came after the players were counted (Reaper.Tick,
\* Reaper.FreeSlot).
THEOREM NobodyIsPutOut == TravelSpec => NobodyPutOut
<1> DEFINE Kind == IF MakesRoom THEN "watcher" ELSE "reaper"
<1>1. ASSUME TravelInv, [TravelNext]_travelVars, NEW n \in Stopped \cap inside
      PROVE  story[n] = "loop" \/ n \in joined[Kind]
  <2>1. n \in GameMaps /\ n \in up /\ n \notin up' /\ travelOps \in Nat /\ travelOps' = travelOps
    BY <1>1 DEF Stopped, TravelInv, ShapesInv, OpsInv
  <2>2. CASE Frees(n)
    <3>1. watch.at = "free" /\ watch' = [watch EXCEPT !.at = "recheck"] /\ n \notin watch.counts
      BY <2>2 DEF Frees, Freeable, WatchTo
    <3>2. MakesRoom
      BY <1>1, <3>1 DEF MakesRoom, TravelInv, ShapesInv
    <3> QED
      BY <1>1, <3>1, <3>2 DEF TravelInv, CountsInv
  <2>3. CASE ReapMap(n) /\ Stops(n)
    <3>1. reap.at = "loop" /\ watch' = watch
      BY <2>1, <2>3, ReapMapForms
    <3>2. n \notin reap.counts \/ story[n] = "loop"
      <4>1. n \in inside /\ n \in live
        BY <1>1 DEF TravelInv, ShapesInv
      <4> QED
        BY <1>1, <2>1, <2>3, <4>1, ReaperStops DEF TravelInv
    <3>3. ~MakesRoom
      BY <3>1 DEF MakesRoom
    <3> QED
      BY <1>1, <3>1, <3>2, <3>3 DEF TravelInv, CountsInv
  <2> QED
    BY <1>1, <2>1, <2>2, <2>3, WhoStops
<1>2. TravelInv /\ [TravelNext]_travelVars
        => [\A m \in Stopped \cap inside :
              story[m] = "loop" \/ m \in joined[IF MakesRoom THEN "watcher" ELSE "reaper"]]_travelVars
  BY <1>1
<1> QED
  BY <1>2, TravelInvInit, TravelInvStep, PTL DEF TravelSpec, NobodyPutOut

\* Whatever a loop stops has been empty for as long as it promises, but when its
\* story is over, or when its server was started again or its visit fell between two
\* polls.
THEOREM KeptWhilePromised == TravelSpec => KeptWhileFresh
<1>1. ASSUME TravelInv, [TravelNext]_travelVars, NEW n \in (Stopped \cap live) \ inside,
             n \notin missed, ~Over(n)
      PROVE  vacant[n] >= (IF MakesRoom THEN MinEmpty ELSE IdleAfter)
  <2>1. n \in GameMaps /\ n \in up /\ n \notin up' /\ travelOps \in Nat /\ travelOps' = travelOps
    BY <1>1 DEF Stopped, TravelInv, ShapesInv, OpsInv
  <2>2. emptySince[n] \in TimerRange /\ vacant[n] \in 0..IdleAfter
    BY <1>1, <2>1 DEF TravelInv, ShapesInv
  <2>3. CASE Frees(n)
    <3>1. watch.at = "free" /\ watch' = [watch EXCEPT !.at = "recheck"] /\ reap.at = "rest"
      BY <2>3 DEF Frees, WatchTo
    <3>2. MakesRoom
      BY <1>1, <3>1 DEF MakesRoom, TravelInv, ShapesInv
    <3>3. emptySince[n] # NoTimer /\ emptySince[n] >= MinEmpty
      BY <2>3 DEF Frees, Freeable, EmptyFor
    <3>4. emptySince[n] <= vacant[n]
      BY <1>1, <2>1, <3>1, <3>3 DEF TravelInv, TimersInv, Deleting
    <3> QED
      BY <2>2, <3>2, <3>3, <3>4, TimeNumbers DEF TimerRange
  <2>4. CASE ReapMap(n) /\ Stops(n)
    <3>1. watch' = watch
      BY <2>1, <2>4, ReapMapForms
    <3>2. ~MakesRoom
      BY <3>1 DEF MakesRoom
    <3>3. n \notin reap.counts /\ emptySince[n] # NoTimer /\ emptySince[n] >= IdleAfter
      BY <1>1, <2>1, <2>4, ReaperStops DEF TravelInv, EmptyFor
    <3>4. emptySince[n] <= vacant[n]
      BY <1>1, <2>1, <3>3 DEF TravelInv, TimersInv, Deleting
    <3> QED
      BY <2>2, <3>2, <3>3, <3>4, TimeNumbers DEF TimerRange
  <2> QED
    BY <1>1, <2>1, <2>3, <2>4, WhoStops
<1>2. TravelInv /\ [TravelNext]_travelVars
        => [\A m \in (Stopped \cap live) \ inside :
              \/ Over(m) \/ m \in missed
              \/ vacant[m] >= (IF MakesRoom THEN MinEmpty ELSE IdleAfter)]_travelVars
  BY <1>1
<1> QED
  BY <1>2, TravelInvInit, TravelInvStep, PTL DEF TravelSpec, KeptWhileFresh

\* Between two ticks the reaper has no map on its list.
RestInv == reap.at = "rest" => reap.todo = {}

\* A map leaves the reaper's list by the reaper's step at it.
LEMMA ReapTakes ==
  ASSUME ShapesInv, RestInv, [TravelNext]_travelVars
  PROVE  RestInv' /\ \A m \in reap.todo : m \in reap'.todo \/ ReapMap(m)
<1>1. UNCHANGED reap \/ ReapReads \/ ReapEnds \/ \E m \in GameMaps : ReapMap(m)
  BY DEF TravelNext, ReaperSteps, WatcherSteps, MakingRoom, travelVars, loopVars, Respawns,
     DrainEnds, ServerDies, OthersRaise, OthersLower, Boots, Enters, Completes, SendsOn,
     DyingWrites, Asks, Leaves, GameRest, LogTrimmed, ReapCannotRead, WatchReads, WatchEnds,
     WatchQueries, LooksAgain, Starts, WatchNext, FreesNone, Frees, WatchRest, TravelTime
<1>2. CASE UNCHANGED reap
  BY <1>2 DEF RestInv
<1>3. CASE ReapReads
  BY <1>3 DEF RestInv, ReapReads
<1>4. CASE ReapEnds
  BY <1>4 DEF RestInv, ReapEnds, ReapRests
<1>5. ASSUME NEW m \in GameMaps, ReapMap(m)
      PROVE  RestInv' /\ \A n \in reap.todo : n \in reap'.todo \/ ReapMap(n)
  <2>1. reap.at = "loop" /\ reap' = [reap EXCEPT !.todo = @ \ {m}]
    BY <1>5, ReapMapForms
  <2> QED
    BY <1>5, <2>1 DEF RestInv, ShapesInv
<1> QED
  BY <1>1, <1>2, <1>3, <1>4, <1>5

\* Where stories are on demand, a story that is over is stopped by the tick that
\* reads of it, whatever the log still holds of an earlier server (StoryEnd.Check,
\* Reaper.Tick).  A map that is always warm is never stopped.
THEOREM StoryAlwaysStopped ==
  ASSUME StoryMaps \cap Warm = {}
  PROVE  TravelSpec => StoryStopped
<1>1. ASSUME TravelInv, RestInv, [TravelNext]_travelVars, NEW m \in StoryMaps \cap live,
             m \in reap.todo \ reap'.todo,
             story[m] = "loop" \/ (story[m] = "left" /\ m \notin reap.counts)
      PROVE  m \notin up'
  <2>1. m \in GameMaps /\ m \in live /\ m \notin Warm /\ ReapMap(m)
    BY <1>1, ReapTakes, TravelAssumption DEF TravelInv
  <2>2. Told(m) /\ GuardShapes /\ verdict[m] \in States
    BY <1>1, <2>1, KnownType DEF TravelInv, GuardInv
  <2>3. Scanned(m) = ReadAll(m)
    BY <2>1, <2>2, ReadNothing DEF Scanned, ReadAll
  <2>4. Finished(m, m \in reap.counts)
    BY <1>1, <2>1, <2>2, <2>3 DEF Told, Fits, Finished
  <2> QED
    BY <2>1, <2>4 DEF ReapMap, Stops, LowerToZero
<1>2. TravelInv /\ RestInv /\ [TravelNext]_travelVars
        => [\A m \in StoryMaps \cap live :
              /\ m \in reap.todo \ reap'.todo
              /\ \/ story[m] = "loop"
                 \/ story[m] = "left" /\ m \notin reap.counts
              => m \notin up']_travelVars
  BY <1>1
<1>3. TravelInit => RestInv
  BY DEF TravelInit, RestInv, ReapRests
<1>4. TravelInv /\ RestInv /\ [TravelNext]_travelVars => RestInv'
  BY ReapTakes DEF TravelInv
<1> QED
  BY <1>2, <1>3, <1>4, TravelInvInit, TravelInvStep, PTL DEF TravelSpec, StoryStopped

-----------------------------------------------------------------------------
(***************************************************************************)
(* The budget.  The maps that demand may be charged for are those that are *)
(* up and were counted when they came up; each has a tracked server, and   *)
(* only ScaleToOne from the watcher adds one, after it has seen room.      *)
(***************************************************************************)
Charged == up \ late

BudgetInv ==
  /\ late \subseteq up /\ Charged \subseteq live
  /\ MaxLive = 0 \/ Cardinality(Charged) <= Max({MaxLive, Cardinality(Warm)})
  /\ watch.at = "start" => MaxLive = 0 \/ Cardinality(Charged) < MaxLive

\* The larger of two numbers is at least each of them.
LEMMA LargerOfTwo ==
  ASSUME NEW a \in Nat, NEW b \in Nat
  PROVE  Max({a, b}) \in Nat /\ Max({a, b}) >= a /\ Max({a, b}) >= b
BY MaxOfTwo

\* There are finitely many maps, so what is charged, tracked and warm has a size.
LEMMA Sizes ==
  ASSUME ShapesInv
  PROVE  /\ IsFiniteSet(Charged) /\ IsFiniteSet(live)
         /\ Cardinality(Charged) \in Nat /\ Cardinality(live) \in Nat
         /\ Cardinality(Warm) \in Nat
BY TravelAssumption, FS_Subset, FS_CardinalityType DEF Charged, ShapesInv

\* A step that charges no map, and takes no decision to start one, keeps the budget.
LEMMA BudgetFrame ==
  ASSUME ShapesInv, BudgetInv,
         late' \subseteq up', Charged' \subseteq live', Charged' \subseteq Charged,
         watch'.at = "start" => watch.at = "start"
  PROVE  BudgetInv'
<1>1. /\ Cardinality(Charged') <= Cardinality(Charged) /\ Cardinality(Charged') \in Nat
  BY Sizes, FS_Subset, FS_CardinalityType
<1>2. MaxLive \in Nat
  BY TravelAssumption
<1>3. Max({MaxLive, Cardinality(Warm)}) \in Nat
  BY <1>2, Sizes, LargerOfTwo
<1> QED
  BY <1>1, <1>2, <1>3, Sizes DEF BudgetInv

\* A step that leaves the store, the lists and the watcher's decision alone keeps it.
LEMMA BudgetQuiet ==
  ASSUME ShapesInv, BudgetInv, UNCHANGED <<up, live, late>>,
         watch'.at = "start" => watch.at = "start"
  PROVE  BudgetInv'
<1>1. Charged' = Charged
  BY DEF Charged
<1> QED
  BY <1>1, BudgetFrame DEF BudgetInv

\* Lowering a map, from whichever loop, uncharges it.
LEMMA BudgetLowered ==
  ASSUME ShapesInv, BudgetInv, NEW m, LowerToZero(m), watch'.at = "start" => watch.at = "start"
  PROVE  BudgetInv'
BY BudgetFrame DEF LowerToZero, BudgetInv, Charged

\* ScaleToOne charges a map only when it was started out of the room that was seen.
LEMMA StartsBudget ==
  ASSUME ShapesInv, BudgetInv, Starts
  PROVE  BudgetInv'
<1> DEFINE m == watch.map
<1>1. m \in GameMaps /\ watch'.at = "next"
  BY DEF Starts, WatchGoesOn, ShapesInv
<1>2. CASE m \in up
  BY <1>1, <1>2, BudgetQuiet DEF Starts
<1>3. CASE m \notin up /\ late' = late \cup {m}
  <2>1. up' = up \cup {m} /\ live \subseteq live'
    BY <1>3 DEF Starts, RaiseTo, Begins
  <2>2. Charged' = Charged
    BY <1>3, <2>1 DEF Charged
  <2>3. late' \subseteq up' /\ Charged' \subseteq live'
    BY <1>3, <2>1, <2>2 DEF BudgetInv
  <2> QED
    BY <1>1, <2>2, <2>3, BudgetFrame
<1>4. CASE m \notin up /\ late' # late \cup {m}
  <2>1. /\ up' = up \cup {m} /\ live' = live \cup {m} /\ late' = late /\ watch.at = "start"
    BY <1>4 DEF Starts, RaiseTo, Begins
  <2>2. Charged' = Charged \cup {m} /\ m \notin Charged
    BY <1>4, <2>1 DEF Charged, BudgetInv
  <2>3. Cardinality(Charged') = Cardinality(Charged) + 1
    BY <2>2, Sizes, FS_AddElement
  <2>4. MaxLive \in Nat /\ Cardinality(Charged) \in Nat
    BY TravelAssumption, Sizes
  <2>5. Max({MaxLive, Cardinality(Warm)}) \in Nat /\ Max({MaxLive, Cardinality(Warm)}) >= MaxLive
    BY <2>4, Sizes, LargerOfTwo
  <2>6. MaxLive = 0 \/ Cardinality(Charged') <= Max({MaxLive, Cardinality(Warm)})
    BY <2>1, <2>3, <2>4, <2>5 DEF BudgetInv
  <2>7. late' \subseteq up' /\ Charged' \subseteq live'
    BY <2>1, <2>2 DEF BudgetInv
  <2> QED
    BY <1>1, <2>6, <2>7 DEF BudgetInv
<1> QED
  BY <1>2, <1>3, <1>4

\* When the watcher sees room among the tracked servers, there is room among what is
\* charged.
LEMMA RoomSeen ==
  ASSUME ShapesInv, BudgetInv, HasRoom
  PROVE  MaxLive = 0 \/ Cardinality(Charged) < MaxLive
<1>1. Cardinality(Charged) <= Cardinality(live)
  BY Sizes, FS_Subset DEF BudgetInv
<1> QED
  BY <1>1, Sizes, TravelAssumption DEF HasRoom

\* Every step keeps the budget, with stories, failures and the others' writes.
LEMMA BudgetStep ==
  ASSUME ShapesInv, BudgetInv, [TravelNext]_travelVars
  PROVE  BudgetInv'
<1>1. ASSUME NEW m \in GameMaps, Respawns(m) PROVE BudgetInv'
  <2>1. UNCHANGED <<up, late, watch>> /\ live \subseteq live'
    BY <1>1 DEF Respawns, Begins, loopVars
  <2> QED
    BY <2>1, BudgetFrame DEF BudgetInv, Charged
<1>2. ASSUME NEW m \in GameMaps, ServerDies(m) PROVE BudgetInv'
  <2>1. /\ UNCHANGED <<up, watch>> /\ live' = live \ {m} /\ late' = late \cup {m} /\ m \in live
    BY <1>2 DEF ServerDies, loopVars
  <2> QED
    BY <2>1, BudgetFrame DEF BudgetInv, Charged, ShapesInv
<1>3. ASSUME NEW m \in GameMaps, OthersRaise(m) PROVE BudgetInv'
  <2>1. /\ UNCHANGED watch /\ up' = up \cup {m} /\ late' = late \cup {m} /\ live \subseteq live'
    BY <1>3 DEF OthersRaise, Begins, loopVars
  <2> QED
    BY <2>1, BudgetFrame DEF BudgetInv, Charged
<1>4. ASSUME NEW m \in GameMaps, OthersLower(m) PROVE BudgetInv'
  BY <1>4, BudgetLowered DEF OthersLower, loopVars
<1>5. ASSUME NEW m \in GameMaps, ReapMap(m) PROVE BudgetInv'
  <2>1. CASE LowerToZero(m)
    BY <1>5, <2>1, BudgetLowered DEF ReapMap
  <2>2. CASE ~LowerToZero(m)
    BY <1>5, <2>2, BudgetQuiet DEF ReapMap, Stops, serverVars
  <2> QED
    BY <2>1, <2>2
<1>6. ASSUME NEW m \in GameMaps, Frees(m) PROVE BudgetInv'
  <2>1. watch'.at = "recheck" /\ LowerToZero(m)
    BY <1>6 DEF Frees, WatchTo, Stops, ShapesInv
  <2> QED
    BY <2>1, BudgetLowered
<1>7. CASE Starts
  BY <1>7, StartsBudget
<1>8. ASSUME NEW m \in GameMaps, WatchNext(m) PROVE BudgetInv'
  <2>1. /\ UNCHANGED <<up, live, late>>
        /\ watch'.at = IF m \in up THEN "raise" ELSE IF HasRoom THEN "start" ELSE "query"
    BY <1>8 DEF WatchNext, serverVars, travelHistory, ShapesInv
  <2>2. CASE watch'.at = "start"
    <3>1. MaxLive = 0 \/ Cardinality(Charged) < MaxLive
      BY <2>1, <2>2, RoomSeen
    <3> QED
      BY <2>1, <3>1 DEF BudgetInv, Charged
  <2>3. CASE watch'.at # "start"
    BY <2>1, <2>3, BudgetQuiet
  <2> QED
    BY <2>2, <2>3
<1>9. CASE LooksAgain
  <2>1. UNCHANGED <<up, live, late>>
    BY <1>9 DEF LooksAgain, serverVars
  <2>2. CASE HasRoom
    <3>1. MaxLive = 0 \/ Cardinality(Charged) < MaxLive
      BY <2>2, RoomSeen
    <3> QED
      BY <2>1, <3>1 DEF BudgetInv, Charged
  <2>3. CASE ~HasRoom
    <3>1. watch'.at = "next"
      BY <1>9, <2>3 DEF LooksAgain, Refuses, WatchGoesOn, ShapesInv
    <3> QED
      BY <2>1, <3>1, BudgetQuiet
  <2> QED
    BY <2>2, <2>3
<1>10. CASE WatchReads \/ WatchEnds \/ WatchQueries \/ FreesNone
  <2>1. UNCHANGED <<up, live, late>>
    BY <1>10 DEF WatchReads, WatchEnds, WatchQueries, FreesNone, serverVars, travelHistory
  <2>2. watch'.at # "start"
    <3>1. CASE WatchReads
      BY <3>1 DEF WatchReads, WatchRests
    <3>2. CASE WatchEnds
      BY <3>2 DEF WatchEnds, WatchRests
    <3>3. CASE WatchQueries
      BY <3>3 DEF WatchQueries, Refuses, WatchGoesOn, ShapesInv
    <3>4. CASE FreesNone
      BY <3>4 DEF FreesNone, Refuses, WatchGoesOn, ShapesInv
    <3> QED
      BY <1>10, <3>1, <3>2, <3>3, <3>4
  <2> QED
    BY <2>1, <2>2, BudgetQuiet
<1>11. CASE UNCHANGED <<up, live, late, watch>>
  BY <1>11, BudgetQuiet
<1>12. ASSUME NEW m \in GameMaps,
              \/ DrainEnds(m) \/ Boots(m) \/ Enters(m) \/ Completes(m) \/ SendsOn(m)
              \/ DyingWrites(m) \/ Asks(m) \/ \E last \in BOOLEAN : Leaves(m, last)
       PROVE  UNCHANGED <<up, live, late, watch>>
  BY <1>12 DEF DrainEnds, Boots, Enters, Completes, SendsOn, DyingWrites, Asks, Leaves,
               GameRest, loopVars, serverVars, travelHistory
<1>13. ASSUME \/ ReapReads \/ ReapEnds \/ ReapCannotRead \/ TravelTime
              \/ \E kept \in SUBSET past : LogTrimmed(kept)
              \/ UNCHANGED travelVars
       PROVE  UNCHANGED <<up, live, late, watch>>
  BY <1>13 DEF ReapReads, ReapEnds, ReapCannotRead, TravelTime, LogTrimmed, travelVars,
               loopVars, serverVars, travelHistory
<1> QED
  BY <1>1, <1>2, <1>3, <1>4, <1>5, <1>6, <1>7, <1>8, <1>9, <1>10, <1>11, <1>12, <1>13
  DEF TravelNext, ReaperSteps, WatcherSteps, MakingRoom

\* The watch, the reaper and the store begin in their ranges.
LEMMA ShapesInit == ASSUME TravelInit PROVE ShapesInv
BY TimeNumbers, TravelAssumption DEF TravelInit, ShapesInv, TimerRange, WatchRests, ReapRests

\* The warm maps are what is charged at first.
LEMMA BudgetInit == ASSUME TravelInit PROVE BudgetInv
<1>1. Charged = Warm /\ late \subseteq up /\ Charged \subseteq live /\ watch.at = "rest"
  BY DEF TravelInit, Charged, WatchRests
<1>2. MaxLive \in Nat /\ Cardinality(Warm) \in Nat
  BY TravelAssumption, FS_Subset, FS_CardinalityType
<1> QED
  BY <1>1, <1>2, LargerOfTwo DEF BudgetInv

\* Demand never has more maps up than MaxConcurrentInstances, or than the warm ones,
\* but for those that came up uncounted; stories, failures, trims of the log and the
\* others' writes included.
THEOREM BudgetAlwaysHeld == TravelSpec => []BudgetHeld
<1>1. TravelInit => ShapesInv /\ BudgetInv
  BY ShapesInit, BudgetInit
<1>2. ShapesInv /\ BudgetInv /\ [TravelNext]_travelVars => ShapesInv' /\ BudgetInv'
  BY ShapesStep, BudgetStep
<1>3. BudgetInv => BudgetHeld
  BY DEF BudgetInv, BudgetHeld, Charged
<1> QED
  BY <1>1, <1>2, <1>3, PTL DEF TravelSpec

-----------------------------------------------------------------------------
(* The map scaler: the inductive invariant                                 *)

\* What a pass holds is what it has read so far, and what it is about to write is
\* a number of replicas.
PassOK ==
  \A p \in Procs :
    LET s == pass[p] IN
    /\ s.at \in {"rest", "arm", "status"} => \A m \in Maps : s.count[m] = Unread
    /\ s.at \in {"count", "decide", "patch"} => \A m \in s.todo : s.seen[m] # None
    /\ s.at = "patch" => s.map \in Maps /\ s.to # None /\ s.seen[s.map] # None

\* A timer is no older than what it stands for.
AgesOK ==
  \A m \in Maps :
    /\ idle[m] # None => idle[m] <= busyAge[m]
    /\ demand[m] # None => demand[m] <= armedAge[m]
    /\ demand[m] = None => armedAge[m] = DemandGrace

\* Nobody is on a map that a pass has seen empty, or that a request takes down
\* because it was, but who has come since; and a pass takes down none but those.
NobodySettled ==
  /\ \A m \in Maps : settled[m] => online[m] > 0
  /\ \A p \in Procs, m \in Maps : pass[p].count[m] = 0 => ~settled[m]
  /\ \A p \in Procs : pass[p].at = "patch" /\ pass[p].to < pass[p].seen[pass[p].map]
       => pass[p].count[pass[p].map] = 0
  /\ request # None /\ request.by = "task" /\ request.to < request.seen => ~settled[request.map]

ScalerInv == ScalerTypeOK /\ PassOK /\ AgesOK /\ NobodySettled

\* What the assumption says of the numbers.
LEMMA ScalerNumbers ==
  /\ ScaleMax \in Nat \ {0} /\ IdleDrain \in Nat \ {0} /\ DemandGrace \in Nat \ {0}
  /\ ScanEvery \in Nat \ {0} /\ PerInstance \in Nat \ {0}
  /\ MinReplicas \in Nat /\ MaxReplicas \in Nat /\ Crowd \in Nat /\ MaxFaults \in Nat
  /\ MaxOps \in Nat /\ None \notin Int /\ Unread \notin Int
  BY ScalerAssumption

\* The largest of three integers is one of them and at least the first.
LEMMA MaxOfThree ==
  ASSUME NEW a \in Int, NEW b \in Int, NEW c \in Int
  PROVE  Max({a, b, c}) \in Int /\ Max({a, b, c}) >= a
  <1>1. IsFiniteSet({a, b})
    <2>1. {a, b} = {a} \cup {b}
      OBVIOUS
    <2>2. IsFiniteSet({a} \cup {b})
      BY FS_Singleton, FS_AddElement
    <2> QED
      BY <2>1, <2>2
  <1>2. IsFiniteSet({a, b, c})
    <2>1. {a, b, c} = {a, b} \cup {c}
      OBVIOUS
    <2> QED
      BY <1>1, <2>1, FS_AddElement
  <1>3. Max({a, b, c}) \in {a, b, c} /\ \A y \in {a, b, c} : y <= Max({a, b, c})
    BY <1>2, MaxOfSet
  <1> QED
    BY <1>3

\* How many instances a load needs is a number.
LEMMA NeededType ==
  ASSUME NEW count \in {Unread} \cup 0..Crowd PROVE Needed(count) \in Int
  <1>1. CASE count = Unread \/ count = 0
    BY <1>1 DEF Needed
  <1>2. CASE ~(count = Unread \/ count = 0)
    <2>1. count + PerInstance - 1 \in Nat /\ PerInstance \in Nat \ {0}
      BY <1>2, ScalerNumbers
    <2>2. \A n \in Nat, d \in Nat \ {0} : n \div d \in Int
      OBVIOUS
    <2> QED
      BY <1>2, <2>1, <2>2 DEF Needed
  <1> QED
    BY <1>1, <1>2

\* What decide_map answers: a number of replicas; fewer only of a managed map whose
\* count is zero, that is not in demand and whose two timers have run out.
LEMMA DecisionForms ==
  ASSUME NEW enabled \in BOOLEAN, NEW current \in 0..ScaleMax,
         NEW count \in {Unread} \cup 0..Crowd, NEW wanted \in BOOLEAN,
         NEW idleAge \in Ages(IdleDrain), NEW demandAge \in Ages(DemandGrace),
         NEW d, d = Decision(enabled, current, count, wanted, idleAge, demandAge)
  PROVE  /\ d.to \in 0..ScaleMax /\ d.idle \in Ages(IdleDrain) /\ d.demand \in Ages(DemandGrace)
         /\ ~enabled => d.to = current /\ d.idle = idleAge /\ d.demand = demandAge
         /\ enabled => /\ d.idle \in {None, 0, idleAge}
                       /\ d.idle # None => count = 0
                       /\ d.demand = IF wanted THEN 0 ELSE demandAge
         /\ d.to < current => /\ enabled /\ count = 0 /\ ~wanted
                              /\ idleAge # None /\ idleAge >= IdleDrain
                              /\ demandAge = None \/ demandAge >= DemandGrace
  <1> USE ScalerNumbers DEF Ages
  <1> DEFINE high == Min({MaxReplicas, ScaleMax})
             low == Min({MinReplicas, high})
             demanded == IF wanted THEN 1 ELSE 0
             want == Min({Max({low, Needed(count), demanded}), high})
             lastDemand == IF wanted THEN 0 ELSE demandAge
             started == IF idleAge = None THEN 0 ELSE idleAge
             inGrace == lastDemand # None /\ lastDemand < DemandGrace
             mayDrain == want <= current /\ current > low /\ count = 0
  <1>1. high \in 0..ScaleMax
    BY MinOfTwo
  <1>2. low \in 0..high
    <2> HIDE DEF high
    <2> QED
      BY <1>1, MinOfTwo
  <1>3. want \in 0..high
    <2> DEFINE most == Max({low, Needed(count), demanded})
    <2> HIDE DEF high, low
    <2>1. demanded \in Int /\ Needed(count) \in Int /\ low \in Int /\ high \in Int
      BY <1>1, <1>2, NeededType
    <2> HIDE DEF demanded
    <2>2. most \in Int /\ most >= low
      BY <2>1, MaxOfThree
    <2> HIDE DEF most
    <2>3. Min({most, high}) = IF most <= high THEN most ELSE high
      BY <2>1, <2>2, MinOfTwo
    <2> QED
      BY <1>1, <1>2, <2>2, <2>3 DEF most
  <1>4. d = IF ~enabled
            THEN [to |-> current, idle |-> idleAge, demand |-> demandAge]
            ELSE [to |-> IF want > current THEN want
                         ELSE IF mayDrain /\ started >= IdleDrain /\ ~inGrace THEN low
                         ELSE current,
                  idle |-> IF mayDrain /\ ~(started >= IdleDrain /\ ~inGrace)
                           THEN started ELSE None,
                  demand |-> lastDemand]
    BY DEF Decision
  <1> HIDE DEF high, low, want
  <1>5. CASE ~enabled
    BY <1>4, <1>5
  <1>6. CASE enabled
    <2>1. /\ d.to = IF want > current THEN want
                    ELSE IF mayDrain /\ started >= IdleDrain /\ ~inGrace THEN low
                    ELSE current
          /\ d.idle = IF mayDrain /\ ~(started >= IdleDrain /\ ~inGrace) THEN started ELSE None
          /\ d.demand = lastDemand
      BY <1>4, <1>6
    <2>2. d.to \in 0..ScaleMax
      BY <1>1, <1>2, <1>3, <2>1
    <2>3. d.idle \in {None, 0, idleAge} /\ (d.idle # None => count = 0)
      BY <2>1
    <2>4. d.idle \in Ages(IdleDrain) /\ d.demand \in Ages(DemandGrace)
      BY <2>1, <2>3
    <2>5. ASSUME d.to < current
          PROVE  /\ count = 0 /\ ~wanted /\ idleAge # None /\ idleAge >= IdleDrain
                 /\ demandAge = None \/ demandAge >= DemandGrace
      <3>1. ~(want > current)
        BY <1>1, <1>3, <2>1, <2>5
      <3>2. mayDrain /\ started >= IdleDrain /\ ~inGrace
        BY <2>1, <2>5, <3>1
      <3> QED
        BY <3>2
    <2> QED
      BY <1>6, <2>1, <2>2, <2>3, <2>4, <2>5
  <1> QED
    BY <1>5, <1>6

\* A poll makes an age one older, up to its limit.
LEMMA OlderByOne ==
  ASSUME NEW limit \in Nat, NEW age \in Ages(limit)
  PROVE  /\ age = None => Older(age, limit) = None
         /\ age # None => /\ Older(age, limit) \in 0..limit
                          /\ Older(age, limit) = IF age < limit THEN age + 1 ELSE limit
  <1>1. CASE age = None
    BY <1>1 DEF Older
  <1>2. CASE age # None
    <2>1. age \in 0..limit
      BY <1>2 DEF Ages
    <2>2. Min({age + 1, limit}) = IF age + 1 <= limit THEN age + 1 ELSE limit
      BY <2>1, MinOfTwo
    <2> QED
      BY <1>2, <2>1, <2>2 DEF Older
  <1> QED
    BY <1>1, <1>2, ScalerNumbers
\* At first nothing has been read, and nobody is anywhere.
LEMMA ScalerInit0 == ASSUME ScalerInit PROVE ScalerInv
  <1> USE ScalerNumbers DEF ScalerInit, AtRest
  <1>1. ScalerTypeOK
    <2>1. 0..1 \subseteq 0..ScaleMax
      OBVIOUS
    <2>2. replicas \in [Maps -> 0..ScaleMax] /\ online \in [Maps -> 0..Crowd]
      BY <2>1
    <2>3. pass \in [Procs -> PassRecords]
      BY DEF PassRecords
    <2>4. idle \in [Maps -> Ages(IdleDrain)] /\ demand \in [Maps -> Ages(DemandGrace)]
      BY DEF Ages
    <2>5. busyAge \in [Maps -> 0..IdleDrain] /\ armedAge \in [Maps -> 0..DemandGrace]
      OBVIOUS
    <2>6. settled \in [Maps -> BOOLEAN] /\ travel \in [Maps -> BOOLEAN] /\ offset \in BOOLEAN
      OBVIOUS
    <2>7. config \in [enabled : BOOLEAN, maps : SUBSET Maps]
      OBVIOUS
    <2>8. due \in BOOLEAN /\ nextFull \in 0..ScanEvery /\ faults \in 0..MaxFaults /\ ops \in 0..MaxOps
      OBVIOUS
    <2>9. request \in {None} \cup [map : Maps, to : 0..ScaleMax, by : {"panel", "task"},
                                   seen : 0..ScaleMax]
      OBVIOUS
    <2> QED
      BY <2>2, <2>3, <2>4, <2>5, <2>6, <2>7, <2>8, <2>9 DEF ScalerTypeOK
  <1>2. PassOK /\ AgesOK /\ NobodySettled
    BY DEF PassOK, AgesOK, NobodySettled
  <1> QED
    BY <1>1, <1>2 DEF ScalerInv

\* A pass moves on: what the others hold stays, and the step keeps its own promise.
LEMMA PassMoves ==
  ASSUME ScalerInv, NEW p \in Procs, NEW s \in PassRecords, pass' = [pass EXCEPT ![p] = s],
         \A m \in Maps : settled'[m] => settled[m],
         s.at \in {"rest", "arm", "status"} => \A m \in Maps : s.count[m] = Unread,
         s.at \in {"count", "decide", "patch"} => \A m \in s.todo : s.seen[m] # None,
         s.at = "patch" => s.map \in Maps /\ s.to # None /\ s.seen[s.map] # None,
         s.at = "patch" /\ s.to < s.seen[s.map] => s.count[s.map] = 0,
         \A m \in Maps : s.count[m] = 0 => ~settled[m]
  PROVE  /\ pass' \in [Procs -> PassRecords] /\ PassOK'
         /\ \A q \in Procs, m \in Maps : pass'[q].count[m] = 0 => ~settled'[m]
         /\ \A q \in Procs : pass'[q].at = "patch" /\ pass'[q].to < pass'[q].seen[pass'[q].map]
              => pass'[q].count[pass'[q].map] = 0
  <1>1. pass \in [Procs -> PassRecords]
    BY DEF ScalerInv, ScalerTypeOK
  <1>2. \A q \in Procs : pass'[q] = IF q = p THEN s ELSE pass[q]
    BY <1>1
  <1>3. pass' \in [Procs -> PassRecords]
    BY <1>1
  <1>4. PassOK'
    BY <1>2 DEF ScalerInv, PassOK
  <1>5. \A q \in Procs, m \in Maps : pass'[q].count[m] = 0 => ~settled'[m]
    BY <1>2 DEF ScalerInv, NobodySettled
  <1>6. \A q \in Procs : pass'[q].at = "patch" /\ pass'[q].to < pass'[q].seen[pass'[q].map]
          => pass'[q].count[pass'[q].map] = 0
    BY <1>2 DEF ScalerInv, NobodySettled
  <1> QED
    BY <1>3, <1>4, <1>5, <1>6

\* A process between passes holds nothing.
LEMMA RestIsQuiet ==
  /\ AtRest \in PassRecords /\ AtRest.at = "rest" /\ \A m \in Maps : AtRest.count[m] = Unread
  BY DEF AtRest, PassRecords

\* What the decision of one map in a full tick does: it answers d, whatever d is, and
\* writes the two timers and where the pass is.
FullDecided(p, m, d) ==
  /\ d.to \in 0..ScaleMax /\ d.idle \in Ages(IdleDrain) /\ d.demand \in Ages(DemandGrace)
  /\ m \notin config.maps => d.idle = idle[m] /\ d.demand = demand[m]
  /\ m \in config.maps =>
       /\ d.idle \in {None, 0, idle[m]}
       /\ d.idle # None => pass[p].count[m] = 0
       /\ d.demand = IF m \in pass[p].wants THEN 0 ELSE demand[m]
  /\ d.to < pass[p].seen[m] =>
       /\ m \in config.maps /\ pass[p].count[m] = 0 /\ m \notin pass[p].wants
       /\ idle[m] # None /\ idle[m] >= IdleDrain
       /\ demand[m] = None \/ demand[m] >= DemandGrace
  /\ idle' = [idle EXCEPT ![m] = d.idle] /\ demand' = [demand EXCEPT ![m] = d.demand]
  /\ pass' = [pass EXCEPT ![p] =
       [pass[p] EXCEPT !.at = IF d.to = pass[p].seen[m] THEN "decide" ELSE "patch",
                       !.todo = pass[p].todo \ {m}, !.map = m, !.to = d.to]]

LEMMA FullDecision ==
  ASSUME ScalerInv, NEW p \in Procs, NEW m \in Maps, DecideFull(p, m)
  PROVE  \E d : FullDecided(p, m, d)
  <1> DEFINE old == pass[p]
  <1>1. PICK e \in BOOLEAN : e <=> m \in config.maps
    OBVIOUS
  <1>2. PICK w \in BOOLEAN : w <=> m \in pass[p].wants
    OBVIOUS
  <1>3. PICK d : d = Decision(e, old.seen[m], old.count[m], w, idle[m], demand[m])
    OBVIOUS
  <1>4. d = Decision(m \in config.maps, old.seen[m], old.count[m], m \in old.wants,
                     idle[m], demand[m])
    BY <1>1, <1>2, <1>3 DEF Decision
  <1>5. /\ old.seen[m] \in 0..ScaleMax /\ old.count[m] \in {Unread} \cup 0..Crowd
        /\ idle[m] \in Ages(IdleDrain) /\ demand[m] \in Ages(DemandGrace)
    BY DEF ScalerInv, ScalerTypeOK, PassOK, PassRecords, DecideFull
  <1>6. /\ d.to \in 0..ScaleMax /\ d.idle \in Ages(IdleDrain) /\ d.demand \in Ages(DemandGrace)
        /\ ~e => d.to = old.seen[m] /\ d.idle = idle[m] /\ d.demand = demand[m]
        /\ e => /\ d.idle \in {None, 0, idle[m]}
                /\ d.idle # None => old.count[m] = 0
                /\ d.demand = IF w THEN 0 ELSE demand[m]
        /\ d.to < old.seen[m] => /\ e /\ old.count[m] = 0 /\ ~w
                                 /\ idle[m] # None /\ idle[m] >= IdleDrain
                                 /\ demand[m] = None \/ demand[m] >= DemandGrace
    BY <1>3, <1>5, DecisionForms
  <1>7. /\ idle' = [idle EXCEPT ![m] = d.idle] /\ demand' = [demand EXCEPT ![m] = d.demand]
        /\ pass' = [pass EXCEPT ![p] =
             [pass[p] EXCEPT !.at = IF d.to = pass[p].seen[m] THEN "decide" ELSE "patch",
                             !.todo = pass[p].todo \ {m}, !.map = m, !.to = d.to]]
    BY <1>4, Zenon DEF DecideFull, Goto
  <1> QED
    BY <1>1, <1>2, <1>6, <1>7 DEF FullDecided

\* The decision of one map in a wake pass never asks for fewer replicas.
LEMMA WakeDecision ==
  ASSUME ScalerInv, NEW p \in Procs, NEW m \in Maps, DecideWake(p, m)
  PROVE  \E to \in 0..ScaleMax :
           pass' = [pass EXCEPT ![p] =
             [pass[p] EXCEPT !.at = IF to > pass[p].seen[m] THEN "patch" ELSE "decide",
                             !.todo = pass[p].todo \ {m}, !.map = m, !.to = to]]
  <1> DEFINE old == pass[p]
  <1>1. PICK e \in BOOLEAN : e <=> m \in config.maps
    OBVIOUS
  <1>0. PICK w \in BOOLEAN : w
    OBVIOUS
  <1>a. PICK count, idleAge, demandAge : count = Unread /\ idleAge = None /\ demandAge = 0
    OBVIOUS
  <1>2. PICK d : d = Decision(e, old.seen[m], count, w, idleAge, demandAge)
    OBVIOUS
  <1>3. d = Decision(m \in config.maps, old.seen[m], Unread, TRUE, None, 0)
    BY <1>a, <1>0, <1>1, <1>2 DEF Decision
  <1>4. /\ old.seen[m] \in 0..ScaleMax /\ count \in {Unread} \cup 0..Crowd
        /\ idleAge \in Ages(IdleDrain) /\ demandAge \in Ages(DemandGrace)
    BY <1>a, ScalerNumbers DEF ScalerInv, ScalerTypeOK, PassOK, PassRecords, DecideWake, Ages
  <1>5. d.to \in 0..ScaleMax
    BY <1>2, <1>4, DecisionForms
  <1>6. pass' = [pass EXCEPT ![p] =
          [pass[p] EXCEPT !.at = IF d.to > pass[p].seen[m] THEN "patch" ELSE "decide",
                          !.todo = pass[p].todo \ {m}, !.map = m, !.to = d.to]]
    BY <1>3, Zenon DEF DecideWake, Goto
  <1>7. PICK to : to = d.to
    OBVIOUS
  <1> QED
    BY <1>5, <1>6, <1>7

\* What each step of a pass does to the passes.
LEMMA PassSteps ==
  ASSUME ScalerInv, NEW p \in Procs, StartPass(p) \/ PassStep(p) \/ Crash(p)
  PROVE  \/ pass' = pass
         \/ \E s \in PassRecords :
              /\ pass' = [pass EXCEPT ![p] = s]
              /\ s.at \in {"rest", "arm", "status"} => \A m \in Maps : s.count[m] = Unread
              /\ s.at \in {"count", "decide", "patch"} => \A m \in s.todo : s.seen[m] # None
              /\ s.at = "patch" => s.map \in Maps /\ s.to # None /\ s.seen[s.map] # None
              /\ s.at = "patch" /\ s.to < s.seen[s.map] => s.count[s.map] = 0
              /\ \A m \in Maps : s.count[m] = 0 => ~settled[m]
  <1> DEFINE Good(s) ==
        /\ s.at \in {"rest", "arm", "status"} => \A m \in Maps : s.count[m] = Unread
        /\ s.at \in {"count", "decide", "patch"} => \A m \in s.todo : s.seen[m] # None
        /\ s.at = "patch" => s.map \in Maps /\ s.to # None /\ s.seen[s.map] # None
        /\ s.at = "patch" /\ s.to < s.seen[s.map] => s.count[s.map] = 0
        /\ \A m \in Maps : s.count[m] = 0 => ~settled[m]
  <1> DEFINE old == pass[p]
  <1>0. /\ old \in PassRecords
        /\ old.at \in {"rest", "arm", "status"} => \A m \in Maps : old.count[m] = Unread
        /\ old.at \in {"count", "decide", "patch"} => \A m \in old.todo : old.seen[m] # None
        /\ \A m \in Maps : old.count[m] = 0 => ~settled[m]
        /\ replicas \in [Maps -> 0..ScaleMax] /\ online \in [Maps -> 0..Crowd]
    BY DEF ScalerInv, ScalerTypeOK, PassOK, NobodySettled
  <1>1. Good(AtRest) /\ AtRest \in PassRecords
    BY RestIsQuiet, ScalerNumbers
  <1> SUFFICES ASSUME pass' # pass
               PROVE  \E s \in PassRecords : pass' = [pass EXCEPT ![p] = s] /\ Good(s)
    OBVIOUS
  <1>2. CASE StartPass(p)
    <2>1. PICK kind \in {"full", "wake"} : ConsumeLog(p, kind) \/ LogUnreadable(p, kind)
      BY <1>2 DEF StartPass
    <2>2. PICK wants \in SUBSET Maps, at \in {"arm", "status"} :
            pass' = [pass EXCEPT ![p] = [old EXCEPT !.at = at, !.kind = kind, !.wants = wants]]
      <3>1. CASE ConsumeLog(p, kind)
        BY <3>1 DEF ConsumeLog, Goto
      <3>2. CASE LogUnreadable(p, kind)
        <4>1. pass' = [pass EXCEPT ![p] = [old EXCEPT !.at = IF kind = "wake" THEN "arm" ELSE "status",
                                                       !.kind = kind]]
          BY <3>2 DEF LogUnreadable, Goto
        <4>2. [old EXCEPT !.at = IF kind = "wake" THEN "arm" ELSE "status", !.kind = kind]
                = [old EXCEPT !.at = IF kind = "wake" THEN "arm" ELSE "status", !.kind = kind,
                              !.wants = old.wants] /\ old.wants \in SUBSET Maps
          BY <1>0 DEF PassRecords
        <4> QED
          BY <4>1, <4>2
      <3> QED
        BY <2>1, <3>1, <3>2
    <2> DEFINE s == [old EXCEPT !.at = at, !.kind = kind, !.wants = wants]
    <2>3. s \in PassRecords /\ s.at = at /\ s.count = old.count
      BY <1>0 DEF PassRecords
    <2>4. old.at = "rest"
      BY <1>2 DEF StartPass
    <2>5. Good(s)
      BY <1>0, <2>3, <2>4, ScalerNumbers
    <2> QED
      BY <2>2, <2>3, <2>5
  <1>3. CASE Arm(p)
    <2>1. CASE pass' = [pass EXCEPT ![p] = AtRest]
      BY <1>1, <2>1
    <2>2. CASE pass' = [pass EXCEPT ![p] = [old EXCEPT !.at = "status"]]
      <3> DEFINE s == [old EXCEPT !.at = "status"]
      <3>1. s \in PassRecords /\ s.at = "status" /\ s.count = old.count /\ old.at = "arm"
        BY <1>0, <1>3 DEF PassRecords, Arm
      <3>2. Good(s)
        BY <1>0, <3>1, ScalerNumbers
      <3> QED
        BY <2>2, <3>1, <3>2
    <2> QED
      BY <1>3, <2>1, <2>2 DEF Arm, Done, Goto
  <1>4. CASE ReadStatus(p)
    <2>1. PICK read \in {replicas, [m \in Maps |-> None]}, at \in {"decide", "count"},
               those \in SUBSET Maps :
            pass' = [pass EXCEPT ![p] = [old EXCEPT !.at = at, !.seen = read,
                                                     !.todo = {m \in those : read[m] # None}]]
      <3>1. old.wants \in SUBSET Maps
        BY <1>0 DEF PassRecords
      <3> QED
        BY <1>4, <3>1 DEF ReadStatus, Goto
    <2> DEFINE s == [old EXCEPT !.at = at, !.seen = read, !.todo = {m \in those : read[m] # None}]
    <2>2. read \in [Maps -> {None} \cup 0..ScaleMax]
      BY <1>0
    <2>3. /\ s \in PassRecords /\ s.at = at /\ s.count = old.count /\ s.seen = read
          /\ s.todo = {m \in those : read[m] # None} /\ old.at = "status"
      BY <1>0, <1>4, <2>2 DEF PassRecords, ReadStatus
    <2>4. Good(s)
      BY <1>0, <2>3, ScalerNumbers
    <2> QED
      BY <2>1, <2>3, <2>4
  <1>5. CASE ReadCounts(p)
    <2>1. CASE pass' = [pass EXCEPT ![p] = [old EXCEPT !.at = "decide", !.count = online]]
      <3> DEFINE s == [old EXCEPT !.at = "decide", !.count = online]
      <3>1. online \in [Maps -> {Unread} \cup 0..Crowd]
        BY <1>0
      <3>2. /\ s \in PassRecords /\ s.at = "decide" /\ s.count = online /\ s.seen = old.seen
            /\ s.todo = old.todo /\ old.at = "count"
        BY <1>0, <1>5, <3>1 DEF PassRecords, ReadCounts
      <3>3. \A m \in Maps : online[m] = 0 => ~settled[m]
        BY DEF ScalerInv, NobodySettled
      <3>4. Good(s)
        BY <1>0, <3>2, <3>3
      <3> QED
        BY <2>1, <3>2, <3>4
    <2>2. CASE pass' = [pass EXCEPT ![p] = [old EXCEPT !.at = "decide"]]
      <3> DEFINE s == [old EXCEPT !.at = "decide"]
      <3>1. /\ s \in PassRecords /\ s.at = "decide" /\ s.count = old.count /\ s.seen = old.seen
            /\ s.todo = old.todo /\ old.at = "count"
        BY <1>0, <1>5 DEF PassRecords, ReadCounts
      <3>2. Good(s)
        BY <1>0, <3>1
      <3> QED
        BY <2>2, <3>1, <3>2
    <2> QED
      BY <1>5, <2>1, <2>2 DEF ReadCounts, Goto
  <1>6. CASE Patch(p)
    <2> DEFINE s == [old EXCEPT !.at = "decide", !.map = None, !.to = None]
    <2>1. pass' = [pass EXCEPT ![p] = s]
      BY <1>6 DEF Patch, Goto
    <2>2. /\ s \in PassRecords /\ s.at = "decide" /\ s.count = old.count /\ s.seen = old.seen
          /\ s.todo = old.todo /\ old.at = "patch"
      BY <1>0, <1>6 DEF PassRecords, Patch
    <2>3. Good(s)
      BY <1>0, <2>2
    <2> QED
      BY <2>1, <2>2, <2>3
  <1>7. CASE EndPass(p) \/ Crash(p)
    BY <1>1, <1>7 DEF EndPass, Done, Crash
  <1>8. ASSUME NEW m \in Maps, DecideFull(p, m) \/ DecideWake(p, m)
        PROVE  \E s \in PassRecords : pass' = [pass EXCEPT ![p] = s] /\ Good(s)
    <2>1. /\ old.at = "decide" /\ m \in old.todo /\ old.seen[m] \in 0..ScaleMax
          /\ old.count[m] \in {Unread} \cup 0..Crowd
      BY <1>0, <1>8 DEF DecideFull, DecideWake, PassRecords
    <2>2. PICK to \in 0..ScaleMax, at \in {"decide", "patch"} :
            /\ pass' = [pass EXCEPT ![p] = [old EXCEPT !.at = at, !.todo = old.todo \ {m},
                                                        !.map = m, !.to = to]]
            /\ at = "patch" /\ to < old.seen[m] => old.count[m] = 0
      <3>1. CASE DecideFull(p, m)
        <4>1. PICK d : FullDecided(p, m, d)
          BY <3>1, FullDecision
        <4>3. PICK to \in 0..ScaleMax : to = d.to
          BY <4>1 DEF FullDecided
        <4> DEFINE at == IF to = old.seen[m] THEN "decide" ELSE "patch"
        <4>2. pass' = [pass EXCEPT ![p] = [old EXCEPT !.at = at, !.todo = old.todo \ {m},
                                                      !.map = m, !.to = to]]
          BY <4>1, <4>3 DEF FullDecided
        <4>4. to < old.seen[m] => old.count[m] = 0
          BY <4>1, <4>3 DEF FullDecided
        <4> QED
          BY <4>2, <4>4
      <3>2. CASE DecideWake(p, m)
        <4>1. PICK to \in 0..ScaleMax :
                pass' = [pass EXCEPT ![p] =
                  [old EXCEPT !.at = IF to > old.seen[m] THEN "patch" ELSE "decide",
                              !.todo = old.todo \ {m}, !.map = m, !.to = to]]
          BY <3>2, WakeDecision
        <4> DEFINE at == IF to > old.seen[m] THEN "patch" ELSE "decide"
        <4>2. pass' = [pass EXCEPT ![p] = [old EXCEPT !.at = at, !.todo = old.todo \ {m},
                                                      !.map = m, !.to = to]]
          BY <4>1
        <4>3. at = "patch" => ~(to < old.seen[m])
          BY <2>1, <4>1
        <4> QED
          BY <4>1, <4>2, <4>3
      <3> QED
        BY <1>8, <3>1, <3>2
    <2> DEFINE s == [old EXCEPT !.at = at, !.todo = old.todo \ {m}, !.map = m, !.to = to]
    <2>3. /\ s \in PassRecords /\ s.at = at /\ s.count = old.count /\ s.seen = old.seen
          /\ s.todo = old.todo \ {m} /\ s.map = m /\ s.to = to
      BY <1>0, <2>1 DEF PassRecords
    <2>4. Good(s)
      BY <1>0, <2>1, <2>2, <2>3, ScalerNumbers
    <2> QED
      BY <2>2, <2>3, <2>4
  <1> QED
    BY <1>2, <1>3, <1>4, <1>5, <1>6, <1>7, <1>8 DEF PassStep

\* A pass step keeps what it, and every other pass, holds.
LEMMA PassTurns ==
  ASSUME ScalerInv, NEW p \in Procs, StartPass(p) \/ PassStep(p) \/ Crash(p),
         \A m \in Maps : settled'[m] => settled[m]
  PROVE  /\ pass' \in [Procs -> PassRecords] /\ PassOK'
         /\ \A q \in Procs, m \in Maps : pass'[q].count[m] = 0 => ~settled'[m]
         /\ \A q \in Procs : pass'[q].at = "patch" /\ pass'[q].to < pass'[q].seen[pass'[q].map]
              => pass'[q].count[pass'[q].map] = 0
  <1>1. CASE pass' = pass
    BY <1>1 DEF ScalerInv, ScalerTypeOK, PassOK, NobodySettled
  <1>2. CASE pass' # pass
    <2>1. PICK s \in PassRecords :
            /\ pass' = [pass EXCEPT ![p] = s]
            /\ s.at \in {"rest", "arm", "status"} => \A m \in Maps : s.count[m] = Unread
            /\ s.at \in {"count", "decide", "patch"} => \A m \in s.todo : s.seen[m] # None
            /\ s.at = "patch" => s.map \in Maps /\ s.to # None /\ s.seen[s.map] # None
            /\ s.at = "patch" /\ s.to < s.seen[s.map] => s.count[s.map] = 0
            /\ \A m \in Maps : s.count[m] = 0 => ~settled[m]
      BY <1>2, PassSteps
    <2> QED
      BY <2>1, PassMoves
  <1> QED
    BY <1>1, <1>2

\* A change of a map's replicas keeps the types; of those who were there only
\* some may have gone.
LEMMA ResizeForms ==
  ASSUME ScalerInv, NEW m \in Maps, NEW n \in 0..ScaleMax, Resize(m, n)
  PROVE  /\ replicas' \in [Maps -> 0..ScaleMax] /\ online' \in [Maps -> 0..Crowd]
         /\ settled' \in [Maps -> BOOLEAN]
         /\ \A k \in Maps : settled'[k] => settled[k] /\ online'[k] > 0
  <1>0. /\ replicas \in [Maps -> 0..ScaleMax] /\ online \in [Maps -> 0..Crowd]
        /\ settled \in [Maps -> BOOLEAN] /\ Crowd \in Nat
        /\ \A k \in Maps : settled[k] => online[k] > 0
    BY ScalerNumbers DEF ScalerInv, ScalerTypeOK, NobodySettled
  <1>1. replicas' \in [Maps -> 0..ScaleMax]
    BY <1>0 DEF Resize
  <1>2. CASE n >= replicas[m]
    BY <1>0, <1>1, <1>2 DEF Resize
  <1>3. CASE ~(n >= replicas[m])
    <2>1. PICK left \in 0..(IF n = 0 THEN 0 ELSE online[m]) :
            /\ online' = [online EXCEPT ![m] = left]
            /\ settled' = [settled EXCEPT ![m] = settled[m] /\ left > 0]
      BY <1>3 DEF Resize
    <2>2. left \in 0..Crowd
      BY <1>0, <2>1
    <2>3. online' \in [Maps -> 0..Crowd]
      BY <1>0, <2>1, <2>2
    <2>4. settled' \in [Maps -> BOOLEAN]
      BY <1>0, <2>1
    <2>5. \A k \in Maps : settled'[k] => settled[k] /\ online'[k] > 0
      BY <1>0, <2>1
    <2> QED
      BY <1>1, <2>3, <2>4, <2>5
  <1> QED
    BY <1>2, <1>3

\* A step of a pass that sets no replicas keeps the players' part.
LEMMA PlayersStay ==
  ASSUME ScalerInv, UNCHANGED <<replicas, online, settled, request>>,
         pass' \in [Procs -> PassRecords] /\ PassOK',
         \A q \in Procs, m \in Maps : pass'[q].count[m] = 0 => ~settled'[m],
         \A q \in Procs : pass'[q].at = "patch" /\ pass'[q].to < pass'[q].seen[pass'[q].map]
           => pass'[q].count[pass'[q].map] = 0
  PROVE  NobodySettled'
  BY DEF ScalerInv, NobodySettled

\* The counters stay within their bounds.
LEMMA CountersStep ==
  ASSUME ScalerInv, [ScalerNext]_scalerVars
  PROVE  /\ due' \in BOOLEAN /\ nextFull' \in 0..ScanEvery
         /\ faults' \in 0..MaxFaults /\ ops' \in 0..MaxOps
  <1> USE ScalerNumbers
  <1>0. /\ due \in BOOLEAN /\ nextFull \in 0..ScanEvery
        /\ faults \in 0..MaxFaults /\ ops \in 0..MaxOps
    BY DEF ScalerInv, ScalerTypeOK
  <1>1. ASSUME NEW p \in Procs, StartPass(p)
        PROVE  /\ due' \in BOOLEAN /\ nextFull' \in 0..ScanEvery
               /\ faults' \in 0..MaxFaults /\ ops' \in 0..MaxOps
    <2>1. PICK kind : ConsumeLog(p, kind) \/ LogUnreadable(p, kind)
      BY <1>1 DEF StartPass
    <2>2. due' \in BOOLEAN /\ nextFull' \in 0..ScanEvery /\ faults' \in 0..MaxFaults
      <3>1. CASE ConsumeLog(p, kind)
        BY <1>0, <3>1 DEF ConsumeLog, Goto, NoFault
      <3>2. CASE LogUnreadable(p, kind)
        <4>1. CASE offset
          BY <1>0, <3>2, <4>1 DEF LogUnreadable, Goto, Fault
        <4>2. CASE ~offset
          BY <1>0, <3>2, <4>2 DEF LogUnreadable, Fault
        <4> QED
          BY <4>1, <4>2
      <3> QED
        BY <2>1, <3>1, <3>2
    <2>3. ops' \in 0..MaxOps
      BY <1>0, <1>1 DEF StartPass
    <2> QED
      BY <2>2, <2>3
  <1>2. ASSUME NEW p \in Procs, Arm(p) \/ EndPass(p)
        PROVE  /\ due' \in BOOLEAN /\ nextFull' \in 0..ScanEvery
               /\ faults' \in 0..MaxFaults /\ ops' \in 0..MaxOps
    <2>1. CASE Arm(p)
      <3>1. CASE pass[p].wants = {}
        BY <1>0, <2>1, <3>1 DEF Arm, Done
      <3>2. CASE pass[p].wants # {}
        BY <1>0, <2>1, <3>2 DEF Arm, Goto
      <3> QED
        BY <3>1, <3>2
    <2>2. CASE EndPass(p)
      BY <1>0, <2>2 DEF EndPass, Done
    <2> QED
      BY <1>2, <2>1, <2>2
  <1>3. ASSUME NEW p \in Procs, ReadStatus(p) \/ ReadCounts(p) \/ Patch(p)
        PROVE  /\ due' \in BOOLEAN /\ nextFull' \in 0..ScanEvery
               /\ faults' \in 0..MaxFaults /\ ops' \in 0..MaxOps
    <2>1. CASE ReadStatus(p)
      BY <1>0, <2>1 DEF ReadStatus, Goto, Fault, NoFault
    <2>2. CASE ReadCounts(p)
      BY <1>0, <2>2 DEF ReadCounts, Goto, Fault, NoFault
    <2>3. CASE Patch(p)
      BY <1>0, <2>3 DEF Patch, Goto, Fault, NoFault
    <2> QED
      BY <1>3, <2>1, <2>2, <2>3
  <1>4. ASSUME NEW p \in Procs, NEW m \in Maps, DecideFull(p, m) \/ DecideWake(p, m)
        PROVE  /\ due' \in BOOLEAN /\ nextFull' \in 0..ScanEvery
               /\ faults' \in 0..MaxFaults /\ ops' \in 0..MaxOps
    BY <1>0, <1>4 DEF DecideFull, DecideWake, Goto
  <1>5. ASSUME NEW p \in Procs, Crash(p)
        PROVE  /\ due' \in BOOLEAN /\ nextFull' \in 0..ScanEvery
               /\ faults' \in 0..MaxFaults /\ ops' \in 0..MaxOps
    BY <1>0, <1>5 DEF Crash, Fault
  <1>6. CASE SkipPass \/ RequestPatch \/ SetConfig
    <2>1. CASE SkipPass
      BY <1>0, <2>1 DEF SkipPass
    <2>2. CASE RequestPatch
      BY <1>0, <2>2 DEF RequestPatch
    <2>3. CASE SetConfig
      BY <1>0, <2>3 DEF SetConfig
    <2> QED
      BY <1>6, <2>1, <2>2, <2>3
  <1>7. CASE ScalerClock
    <2>1. Max({nextFull - 1, 0}) = IF nextFull - 1 >= 0 THEN nextFull - 1 ELSE 0
      BY <1>0, MaxOfTwo
    <2> QED
      BY <1>0, <1>7, <2>1 DEF ScalerClock
  <1>8. ASSUME NEW m \in Maps, NEW n, NEW force,
               PanelScale(m, n, force) \/ TaskScale(m, n)
        PROVE  /\ due' \in BOOLEAN /\ nextFull' \in 0..ScanEvery
               /\ faults' \in 0..MaxFaults /\ ops' \in 0..MaxOps
    BY <1>0, <1>8 DEF PanelScale, TaskScale, Fault, NoFault
  <1>9. ASSUME NEW m \in Maps, Travel(m) \/ JoinMap(m) \/ LeaveMap(m)
        PROVE  /\ due' \in BOOLEAN /\ nextFull' \in 0..ScanEvery
               /\ faults' \in 0..MaxFaults /\ ops' \in 0..MaxOps
    BY <1>0, <1>9 DEF Travel, JoinMap, LeaveMap
  <1>10. CASE UNCHANGED scalerVars
    BY <1>0, <1>10 DEF scalerVars
  <1> QED
    BY <1>1, <1>2, <1>3, <1>4, <1>5, <1>6, <1>7, <1>8, <1>9, <1>10 DEF ScalerNext, PassStep

\* The invariant in parts that a step leaves alone together.
WorldOK ==
  /\ replicas \in [Maps -> 0..ScaleMax] /\ online \in [Maps -> 0..Crowd]
  /\ settled \in [Maps -> BOOLEAN]
TimersOK ==
  /\ idle \in [Maps -> Ages(IdleDrain)] /\ demand \in [Maps -> Ages(DemandGrace)]
  /\ busyAge \in [Maps -> 0..IdleDrain] /\ armedAge \in [Maps -> 0..DemandGrace]
  /\ AgesOK
OrdersOK ==
  /\ travel \in [Maps -> BOOLEAN] /\ offset \in BOOLEAN
  /\ config \in [enabled : BOOLEAN, maps : SUBSET Maps]
  /\ request \in {None} \cup [map : Maps, to : 0..ScaleMax, by : {"panel", "task"},
                              seen : 0..ScaleMax]
PassesOK == pass \in [Procs -> PassRecords] /\ PassOK

\* A step of a pass does to the timers what their ages allow.
LEMMA AgesStep ==
  ASSUME ScalerInv, NEW p \in Procs, StartPass(p) \/ PassStep(p) \/ Crash(p)
  PROVE  TimersOK'
  <1> USE ScalerNumbers
  <1>0. TimersOK
    BY DEF ScalerInv, ScalerTypeOK, TimersOK
  <1>1. CASE UNCHANGED <<idle, demand, busyAge, armedAge>>
    BY <1>0, <1>1 DEF TimersOK, AgesOK
  <1>2. CASE Arm(p)
    <2>1. /\ demand' = [m \in Maps |-> IF m \in pass[p].wants THEN 0 ELSE demand[m]]
          /\ armedAge' = [m \in Maps |-> IF m \in pass[p].wants THEN 0 ELSE armedAge[m]]
          /\ idle' = idle /\ busyAge' = busyAge
      BY <1>2 DEF Arm
    <2>2. demand' \in [Maps -> Ages(DemandGrace)] /\ armedAge' \in [Maps -> 0..DemandGrace]
      BY <1>0, <2>1 DEF TimersOK, Ages
    <2>3. AgesOK'
      BY <1>0, <2>1 DEF TimersOK, AgesOK
    <2> QED
      BY <1>0, <2>1, <2>2, <2>3 DEF TimersOK
  <1>3. ASSUME NEW m \in Maps, DecideFull(p, m)
        PROVE  TimersOK'
    <2>1. PICK d : FullDecided(p, m, d)
      BY <1>3, FullDecision
    <2>2. /\ d.idle \in Ages(IdleDrain) /\ d.demand \in Ages(DemandGrace)
          /\ idle' = [idle EXCEPT ![m] = d.idle] /\ demand' = [demand EXCEPT ![m] = d.demand]
      BY <2>1 DEF FullDecided
    <2>3. PICK busy \in {0, busyAge[m]}, armed \in {0, armedAge[m]} :
            /\ busyAge' = [busyAge EXCEPT ![m] = busy] /\ armedAge' = [armedAge EXCEPT ![m] = armed]
            /\ busy = IF m \in config.maps /\ pass[p].count[m] # 0 THEN 0 ELSE busyAge[m]
            /\ armed = IF m \in config.maps /\ m \in pass[p].wants THEN 0 ELSE armedAge[m]
      BY <1>3 DEF DecideFull
    <2>4. /\ d.idle # None => d.idle <= busy
          /\ d.demand # None => d.demand <= armed
          /\ d.demand = None => armed = DemandGrace
      <3>1. CASE m \notin config.maps
        BY <1>0, <2>1, <2>3, <3>1 DEF FullDecided, TimersOK, AgesOK
      <3>2. CASE m \in config.maps
        <4>1. d.idle # None => d.idle <= busy
          BY <1>0, <2>1, <2>3, <3>2 DEF FullDecided, TimersOK, AgesOK
        <4>2. CASE m \in pass[p].wants
          BY <2>1, <2>3, <3>2, <4>1, <4>2 DEF FullDecided
        <4>3. CASE m \notin pass[p].wants
          BY <1>0, <2>1, <2>3, <3>2, <4>1, <4>3 DEF FullDecided, TimersOK, AgesOK
        <4> QED
          BY <4>2, <4>3
      <3> QED
        BY <3>1, <3>2
    <2>5. /\ idle' \in [Maps -> Ages(IdleDrain)] /\ demand' \in [Maps -> Ages(DemandGrace)]
          /\ busyAge' \in [Maps -> 0..IdleDrain] /\ armedAge' \in [Maps -> 0..DemandGrace]
      BY <1>0, <2>2, <2>3 DEF TimersOK
    <2>6. AgesOK'
      BY <1>0, <2>2, <2>3, <2>4 DEF TimersOK, AgesOK
    <2> QED
      BY <2>5, <2>6 DEF TimersOK
  <1>4. CASE StartPass(p)
    <2>1. PICK kind : ConsumeLog(p, kind) \/ LogUnreadable(p, kind)
      BY <1>4 DEF StartPass
    <2>2. UNCHANGED <<idle, demand, busyAge, armedAge>>
      BY <1>4 DEF StartPass
    <2> QED
      BY <1>1, <2>2
  <1>5. CASE ReadStatus(p) \/ ReadCounts(p) \/ Patch(p) \/ EndPass(p) \/ Crash(p)
    BY <1>1, <1>5 DEF ReadStatus, ReadCounts, Patch, EndPass, Crash, scalerLedger, scalerHistory
  <1>6. ASSUME NEW m \in Maps, DecideWake(p, m)
        PROVE  TimersOK'
    BY <1>1, <1>6 DEF DecideWake, scalerLedger, scalerHistory
  <1> QED
    BY <1>2, <1>3, <1>4, <1>5, <1>6 DEF PassStep

\* A step of a pass leaves what others ask for alone, but for what it reads.
LEMMA OrdersStep ==
  ASSUME ScalerInv, NEW p \in Procs, StartPass(p) \/ PassStep(p) \/ Crash(p)
  PROVE  OrdersOK' /\ request' = request /\ config' = config
  <1>0. OrdersOK
    BY DEF ScalerInv, ScalerTypeOK, OrdersOK
  <1>1. CASE StartPass(p)
    <2>1. PICK kind : ConsumeLog(p, kind) \/ LogUnreadable(p, kind)
      BY <1>1 DEF StartPass
    <2>2. travel' \in [Maps -> BOOLEAN] /\ offset' \in BOOLEAN
      BY <1>0, <2>1 DEF ConsumeLog, LogUnreadable, OrdersOK
    <2> QED
      BY <1>0, <1>1, <2>2 DEF StartPass, OrdersOK
  <1>2. CASE Arm(p)
    BY <1>0, <1>2 DEF Arm, OrdersOK
  <1>3. CASE ReadStatus(p) \/ ReadCounts(p) \/ Patch(p) \/ EndPass(p) \/ Crash(p)
    BY <1>0, <1>3 DEF ReadStatus, ReadCounts, Patch, EndPass, Crash, scalerLedger, OrdersOK
  <1>4. ASSUME NEW m \in Maps, DecideFull(p, m) \/ DecideWake(p, m)
        PROVE  OrdersOK' /\ request' = request /\ config' = config
    BY <1>0, <1>4 DEF DecideFull, DecideWake, scalerLedger, OrdersOK
  <1> QED
    BY <1>1, <1>2, <1>3, <1>4 DEF PassStep

\* The parts are the whole.
LEMMA ScalerParts ==
  ASSUME WorldOK', TimersOK', OrdersOK', PassesOK', NobodySettled',
         due' \in BOOLEAN /\ nextFull' \in 0..ScanEvery,
         faults' \in 0..MaxFaults /\ ops' \in 0..MaxOps
  PROVE  ScalerInv'
  BY DEF WorldOK, TimersOK, OrdersOK, PassesOK, ScalerInv, ScalerTypeOK

\* Every step of a pass keeps the invariant.
LEMMA PassKeeps ==
  ASSUME ScalerInv, ScalerNext, NEW p \in Procs, StartPass(p) \/ PassStep(p) \/ Crash(p)
  PROVE  ScalerInv'
  <1>0. WorldOK
    BY DEF ScalerInv, ScalerTypeOK, WorldOK
  <1>1. TimersOK' /\ OrdersOK' /\ request' = request
    BY AgesStep, OrdersStep
  <1>2. /\ due' \in BOOLEAN /\ nextFull' \in 0..ScanEvery
        /\ faults' \in 0..MaxFaults /\ ops' \in 0..MaxOps
    BY CountersStep
  <1>3. CASE UNCHANGED <<replicas, online, settled>>
    <2>1. \A m \in Maps : settled'[m] => settled[m]
      BY <1>3
    <2>2. /\ pass' \in [Procs -> PassRecords] /\ PassOK'
          /\ \A q \in Procs, m \in Maps : pass'[q].count[m] = 0 => ~settled'[m]
          /\ \A q \in Procs : pass'[q].at = "patch" /\ pass'[q].to < pass'[q].seen[pass'[q].map]
               => pass'[q].count[pass'[q].map] = 0
      BY <2>1, PassTurns
    <2>3. NobodySettled'
      BY <1>1, <1>3, <2>2, PlayersStay
    <2>4. WorldOK'
      BY <1>0, <1>3 DEF WorldOK
    <2> QED
      BY <1>1, <1>2, <2>2, <2>3, <2>4, ScalerParts DEF PassesOK
  <1>4. CASE Patch(p)
    <2>1. CASE UNCHANGED <<replicas, online, settled>>
      BY <1>3, <2>1
    <2>2. CASE Resize(pass[p].map, pass[p].to)
      <3>1. pass[p].map \in Maps /\ pass[p].to \in 0..ScaleMax
        BY <1>4 DEF Patch, ScalerInv, ScalerTypeOK, PassOK, PassRecords
      <3>2. WorldOK' /\ \A k \in Maps : settled'[k] => settled[k] /\ online'[k] > 0
        BY <2>2, <3>1, ResizeForms DEF WorldOK
      <3>3. /\ pass' \in [Procs -> PassRecords] /\ PassOK'
            /\ \A q \in Procs, m \in Maps : pass'[q].count[m] = 0 => ~settled'[m]
            /\ \A q \in Procs : pass'[q].at = "patch" /\ pass'[q].to < pass'[q].seen[pass'[q].map]
                 => pass'[q].count[pass'[q].map] = 0
        BY <3>2, PassTurns
      <3>4. NobodySettled'
        <4>1. request # None => request.map \in Maps
          BY DEF ScalerInv, ScalerTypeOK
        <4> QED
          BY <1>1, <3>2, <3>3, <4>1 DEF ScalerInv, NobodySettled
      <3> QED
        BY <1>1, <1>2, <3>2, <3>3, <3>4, ScalerParts DEF PassesOK
    <2> QED
      BY <1>4, <2>1, <2>2 DEF Patch
  <1>5. CASE StartPass(p) \/ Arm(p)
    BY <1>3, <1>5 DEF StartPass, Arm
  <1>6. CASE ReadStatus(p) \/ ReadCounts(p) \/ EndPass(p) \/ Crash(p)
    BY <1>3, <1>6 DEF ReadStatus, ReadCounts, EndPass, Crash
  <1>7. ASSUME NEW m \in Maps, DecideFull(p, m) \/ DecideWake(p, m)
        PROVE  ScalerInv'
    BY <1>3, <1>7 DEF DecideFull, DecideWake
  <1> QED
    BY <1>4, <1>5, <1>6, <1>7 DEF PassStep

\* A step of somebody else keeps the invariant.
LEMMA OthersKeep ==
  ASSUME ScalerInv, ScalerNext,
         \/ SkipPass \/ RequestPatch \/ SetConfig
         \/ \E m \in Maps, n \in 0..ScaleMax :
              (\E force \in BOOLEAN : PanelScale(m, n, force)) \/ TaskScale(m, n)
         \/ \E m \in Maps : Travel(m) \/ JoinMap(m) \/ LeaveMap(m)
  PROVE  ScalerInv'
  <1>0. WorldOK /\ TimersOK /\ OrdersOK /\ PassesOK
    BY DEF ScalerInv, ScalerTypeOK, WorldOK, TimersOK, OrdersOK, PassesOK
  <1>1. /\ due' \in BOOLEAN /\ nextFull' \in 0..ScanEvery
        /\ faults' \in 0..MaxFaults /\ ops' \in 0..MaxOps
    BY CountersStep
  <1>2. /\ pass' = pass /\ UNCHANGED <<idle, demand, busyAge, armedAge>>
    <2>1. CASE SkipPass
      BY <2>1 DEF SkipPass, scalerLedger, scalerHistory
    <2>2. CASE RequestPatch
      BY <2>2 DEF RequestPatch, scalerLedger, scalerHistory
    <2>3. CASE SetConfig
      BY <2>3 DEF SetConfig, scalerLedger, scalerHistory
    <2>4. ASSUME NEW m, NEW n, NEW force, PanelScale(m, n, force) \/ TaskScale(m, n)
          PROVE  pass' = pass /\ UNCHANGED <<idle, demand, busyAge, armedAge>>
      BY <2>4 DEF PanelScale, TaskScale, scalerLedger, scalerHistory
    <2>5. ASSUME NEW m, Travel(m) \/ JoinMap(m) \/ LeaveMap(m)
          PROVE  pass' = pass /\ UNCHANGED <<idle, demand, busyAge, armedAge>>
      BY <2>5 DEF Travel, JoinMap, LeaveMap, scalerLedger, scalerHistory
    <2> QED
      BY <2>1, <2>2, <2>3, <2>4, <2>5
  <1>3. TimersOK' /\ PassesOK'
    BY <1>0, <1>2 DEF TimersOK, PassesOK, PassOK, AgesOK
  <1> SUFFICES WorldOK' /\ OrdersOK' /\ NobodySettled'
    BY <1>1, <1>3, ScalerParts
  <1>4. ASSUME WorldOK', OrdersOK', \A m \in Maps : settled'[m] => settled[m] /\ online'[m] > 0,
               request' = request \/ request' = None
        PROVE  WorldOK' /\ OrdersOK' /\ NobodySettled'
    <2>1. request # None => request.map \in Maps
      BY DEF ScalerInv, ScalerTypeOK
    <2> QED
      BY <1>2, <1>4, <2>1 DEF ScalerInv, NobodySettled
  <1>5. \A m \in Maps : settled[m] => online[m] > 0
    BY DEF ScalerInv, NobodySettled
  <1>6. CASE SkipPass
    <2>1. WorldOK' /\ OrdersOK' /\ request' = request /\ settled' = settled /\ online' = online
      BY <1>0, <1>6 DEF SkipPass, scalerLedger, WorldOK, OrdersOK
    <2> QED
      BY <1>4, <1>5, <2>1
  <1>7. CASE RequestPatch
    <2>1. request.map \in Maps /\ request.to \in 0..ScaleMax /\ Resize(request.map, request.to)
      BY <1>7 DEF RequestPatch, ScalerInv, ScalerTypeOK
    <2>2. WorldOK' /\ \A k \in Maps : settled'[k] => settled[k] /\ online'[k] > 0
      BY <2>1, ResizeForms DEF WorldOK
    <2>3. OrdersOK' /\ request' = None
      BY <1>0, <1>7 DEF RequestPatch, scalerLedger, OrdersOK
    <2> QED
      BY <1>4, <2>2, <2>3
  <1>8. CASE SetConfig
    <2>1. config' \in [enabled : BOOLEAN, maps : SUBSET Maps]
      <3>1. config \in [enabled : BOOLEAN, maps : SUBSET Maps]
        BY <1>0 DEF OrdersOK
      <3>2. CASE config' = [config EXCEPT !.enabled = ~config.enabled]
        BY <3>1, <3>2
      <3>3. ASSUME NEW m \in Maps,
                   config' = [config EXCEPT !.maps = IF m \in config.maps THEN config.maps \ {m}
                                                     ELSE config.maps \cup {m}]
            PROVE  config' \in [enabled : BOOLEAN, maps : SUBSET Maps]
        <4>1. (IF m \in config.maps THEN config.maps \ {m} ELSE config.maps \cup {m}) \in SUBSET Maps
          BY <3>1
        <4> QED
          BY <3>1, <3>3, <4>1
      <3> QED
        BY <1>8, <3>2, <3>3 DEF SetConfig
    <2>2. WorldOK' /\ OrdersOK' /\ request' = request /\ settled' = settled /\ online' = online
      BY <1>0, <1>8, <2>1 DEF SetConfig, scalerLedger, WorldOK, OrdersOK
    <2> QED
      BY <1>4, <1>5, <2>2
  <1>9. ASSUME NEW m \in Maps, NEW n \in 0..ScaleMax, NEW force \in BOOLEAN,
               PanelScale(m, n, force) \/ TaskScale(m, n)
        PROVE  WorldOK' /\ OrdersOK' /\ NobodySettled'
    <2>1. PICK by \in {"panel", "task"} :
            request' = [map |-> m, to |-> n, by |-> by, seen |-> replicas[m]]
            /\ (by = "task" /\ n < replicas[m] => online[m] = 0)
      BY <1>9 DEF PanelScale, TaskScale
    <2>2. UNCHANGED <<replicas, online, settled, travel, offset, config>>
      BY <1>9 DEF PanelScale, TaskScale, scalerLedger
    <2>3. WorldOK' /\ OrdersOK'
      BY <1>0, <2>1, <2>2 DEF WorldOK, OrdersOK
    <2>4. NobodySettled'
      BY <1>2, <1>5, <2>1, <2>2 DEF ScalerInv, NobodySettled
    <2> QED
      BY <2>3, <2>4
  <1>10. ASSUME NEW m \in Maps, Travel(m)
         PROVE  WorldOK' /\ OrdersOK' /\ NobodySettled'
    <2>1. WorldOK' /\ OrdersOK' /\ request' = request /\ settled' = settled /\ online' = online
      BY <1>0, <1>10 DEF Travel, scalerLedger, WorldOK, OrdersOK
    <2> QED
      BY <1>4, <1>5, <2>1
  <1>11. ASSUME NEW m \in Maps, JoinMap(m)
         PROVE  WorldOK' /\ OrdersOK' /\ NobodySettled'
    <2>1. OrdersOK' /\ request' = request
      BY <1>0, <1>11 DEF JoinMap, scalerLedger, OrdersOK
    <2>2. /\ online \in [Maps -> 0..Crowd] /\ online[m] < Crowd /\ Crowd \in Nat
          /\ online' = [online EXCEPT ![m] = online[m] + 1]
          /\ settled' = settled /\ replicas' = replicas
      BY <1>0, <1>11, ScalerNumbers DEF JoinMap, WorldOK
    <2>3. online[m] + 1 \in 0..Crowd
      BY <2>2
    <2>4. WorldOK'
      BY <1>0, <2>2, <2>3 DEF WorldOK
    <2>5. \A k \in Maps : settled'[k] => settled[k] /\ online'[k] > 0
      BY <1>5, <2>2
    <2> QED
      BY <1>4, <2>1, <2>4, <2>5
  <1>12. ASSUME NEW m \in Maps, LeaveMap(m)
         PROVE  WorldOK' /\ OrdersOK' /\ NobodySettled'
    <2>1. OrdersOK' /\ request' = request
      BY <1>0, <1>12 DEF LeaveMap, scalerLedger, OrdersOK
    <2>2. /\ online \in [Maps -> 0..Crowd] /\ settled \in [Maps -> BOOLEAN]
          /\ online[m] > 0 /\ Crowd \in Nat
          /\ online' = [online EXCEPT ![m] = online[m] - 1]
          /\ settled' = [settled EXCEPT ![m] = settled[m] /\ online[m] > 1] /\ replicas' = replicas
      BY <1>0, <1>12, ScalerNumbers DEF LeaveMap, WorldOK
    <2>3. online[m] - 1 \in 0..Crowd
      BY <2>2
    <2>4. WorldOK'
      BY <1>0, <2>2, <2>3 DEF WorldOK
    <2>5. ASSUME NEW k \in Maps, settled'[k]
          PROVE  settled[k] /\ online'[k] > 0
      <3>1. CASE k = m
        <4>1. online'[m] = online[m] - 1 /\ online[m] \in 0..Crowd
          BY <2>2
        <4>2. settled'[m] = (settled[m] /\ online[m] > 1)
          BY <2>2
        <4>3. settled[m] /\ online[m] > 1
          BY <2>5, <3>1, <4>2
        <4> QED
          BY <3>1, <4>1, <4>3
      <3>2. CASE k # m
        <4>1. settled'[k] = settled[k] /\ online'[k] = online[k]
          BY <2>2, <3>2
        <4> QED
          BY <1>5, <2>5, <4>1
      <3> QED
        BY <3>1, <3>2
    <2> QED
      BY <1>4, <2>1, <2>4, <2>5
  <1> QED
    BY <1>6, <1>7, <1>8, <1>9, <1>10, <1>11, <1>12

\* A poll goes by between passes and requests only, so nothing read before it is
\* used after it.
LEMMA ClockKeeps ==
  ASSUME ScalerInv, ScalerNext, ScalerClock
  PROVE  ScalerInv'
  <1> USE ScalerNumbers
  <1>0. WorldOK /\ TimersOK /\ OrdersOK /\ PassesOK
    BY DEF ScalerInv, ScalerTypeOK, WorldOK, TimersOK, OrdersOK, PassesOK
  <1>1. /\ due' \in BOOLEAN /\ nextFull' \in 0..ScanEvery
        /\ faults' \in 0..MaxFaults /\ ops' \in 0..MaxOps
    BY CountersStep
  <1>2. WorldOK' /\ OrdersOK' /\ PassesOK'
    BY <1>0 DEF ScalerClock, WorldOK, OrdersOK, PassesOK, PassOK
  <1>3. NobodySettled'
    <2>1. \A q \in Procs : pass'[q].at = "rest" /\ \A m \in Maps : pass'[q].count[m] = Unread
      BY DEF ScalerClock, ScalerInv, PassOK
    <2>2. request' = None /\ settled' = [m \in Maps |-> online[m] > 0] /\ online' = online
      BY DEF ScalerClock
    <2>3. \A m \in Maps : settled'[m] <=> online[m] > 0
      BY <2>2
    <2>4. \A q \in Procs, m \in Maps : ~(pass'[q].count[m] = 0)
      BY <2>1
    <2> QED
      BY <2>1, <2>2, <2>3, <2>4 DEF NobodySettled
  <1>4. TimersOK'
    <2> USE <1>0 DEF TimersOK
    <2>1. /\ idle' = [m \in Maps |-> Older(idle[m], IdleDrain)]
          /\ demand' = [m \in Maps |-> Older(demand[m], DemandGrace)]
          /\ busyAge' = [m \in Maps |-> Older(busyAge[m], IdleDrain)]
          /\ armedAge' = [m \in Maps |-> Older(armedAge[m], DemandGrace)]
      BY DEF ScalerClock
    <2>2. ASSUME NEW m \in Maps
          PROVE  /\ idle[m] = None => Older(idle[m], IdleDrain) = None
                 /\ idle[m] # None => Older(idle[m], IdleDrain) \in 0..IdleDrain
                 /\ busyAge[m] # None /\ Older(busyAge[m], IdleDrain) \in 0..IdleDrain
                 /\ idle[m] # None => Older(idle[m], IdleDrain) <= Older(busyAge[m], IdleDrain)
      <3>1. /\ idle[m] \in Ages(IdleDrain) /\ busyAge[m] \in Ages(IdleDrain)
            /\ busyAge[m] \in 0..IdleDrain /\ (idle[m] # None => idle[m] <= busyAge[m])
        BY DEF Ages, AgesOK
      <3> QED
        BY <3>1, OlderByOne DEF Ages
    <2>3. ASSUME NEW m \in Maps
          PROVE  /\ demand[m] = None => Older(demand[m], DemandGrace) = None
                                        /\ Older(armedAge[m], DemandGrace) = DemandGrace
                 /\ demand[m] # None => Older(demand[m], DemandGrace) \in 0..DemandGrace
                 /\ armedAge[m] # None /\ Older(armedAge[m], DemandGrace) \in 0..DemandGrace
                 /\ demand[m] # None
                      => Older(demand[m], DemandGrace) <= Older(armedAge[m], DemandGrace)
      <3>1. /\ demand[m] \in Ages(DemandGrace) /\ armedAge[m] \in Ages(DemandGrace)
            /\ armedAge[m] \in 0..DemandGrace
            /\ (demand[m] # None => demand[m] <= armedAge[m])
            /\ (demand[m] = None => armedAge[m] = DemandGrace)
        BY DEF Ages, AgesOK
      <3> QED
        BY <3>1, OlderByOne DEF Ages
    <2>4. /\ idle' \in [Maps -> Ages(IdleDrain)] /\ demand' \in [Maps -> Ages(DemandGrace)]
          /\ busyAge' \in [Maps -> 0..IdleDrain] /\ armedAge' \in [Maps -> 0..DemandGrace]
      BY <2>1, <2>2, <2>3 DEF Ages
    <2>5. AgesOK'
      BY <2>1, <2>2, <2>3 DEF AgesOK
    <2> QED
      BY <2>4, <2>5
  <1> QED
    BY <1>1, <1>2, <1>3, <1>4, ScalerParts

\* Every step keeps the invariant.
LEMMA ScalerStep == ASSUME ScalerInv, [ScalerNext]_scalerVars PROVE ScalerInv'
  <1>1. CASE UNCHANGED scalerVars
    BY <1>1 DEF scalerVars, scalerLedger, scalerHistory, ScalerInv, ScalerTypeOK, PassOK, AgesOK,
                NobodySettled
  <1>2. CASE ScalerNext
    BY <1>2, PassKeeps, OthersKeep, ClockKeeps DEF ScalerNext
  <1> QED
    BY <1>1, <1>2

-----------------------------------------------------------------------------
(* The map scaler: drains                                                  *)

\* Only a full tick decides for fewer replicas, and only with both timers run out.
LEMMA EarnedStep ==
  ASSUME ScalerInv, [ScalerNext]_scalerVars, NEW p \in Procs, NEW m \in Maps, DecidesDown(p, m)
  PROVE  busyAge[m] >= IdleDrain /\ armedAge[m] >= DemandGrace
  <1> USE ScalerNumbers
  <1>0. /\ pass \in [Procs -> PassRecords] /\ pass[p].at = "decide" /\ pass'[p].at = "patch"
        /\ pass'[p].map = m /\ pass'[p].to < pass[p].seen[m]
    BY DEF DecidesDown, ScalerInv, ScalerTypeOK
  <1>1. /\ idle[m] \in Ages(IdleDrain) /\ demand[m] \in Ages(DemandGrace)
        /\ busyAge[m] \in 0..IdleDrain /\ armedAge[m] \in 0..DemandGrace
        /\ idle[m] # None => idle[m] <= busyAge[m]
        /\ demand[m] # None => demand[m] <= armedAge[m]
        /\ demand[m] = None => armedAge[m] = DemandGrace
    BY DEF ScalerInv, ScalerTypeOK, AgesOK
  <1>2. PICK q \in Procs : StartPass(q) \/ PassStep(q) \/ Crash(q)
    <2>1. pass' # pass
      BY <1>0
    <2> QED
      BY <2>1 DEF ScalerNext, scalerVars, SkipPass, RequestPatch, SetConfig, ScalerClock,
                  PanelScale, TaskScale, Travel, JoinMap, LeaveMap
  <1>3. CASE \E k \in Maps : DecideFull(q, k)
    <2>0. PICK k \in Maps : DecideFull(q, k)
      BY <1>3
    <2>1. PICK d : FullDecided(q, k, d)
      BY <2>0, FullDecision
    <2>2. q = p /\ k = m
      BY <1>0, <2>1 DEF FullDecided
    <2>3. d.to < pass[p].seen[m]
      BY <1>0, <2>1, <2>2 DEF FullDecided
    <2>4. /\ idle[m] # None /\ idle[m] >= IdleDrain
          /\ demand[m] = None \/ demand[m] >= DemandGrace
      BY <2>1, <2>2, <2>3 DEF FullDecided
    <2> QED
      BY <1>1, <2>4 DEF Ages
  <1>4. CASE \E k \in Maps : DecideWake(q, k)
    <2>0. PICK k \in Maps : DecideWake(q, k)
      BY <1>4
    <2>1. PICK to \in 0..ScaleMax :
            pass' = [pass EXCEPT ![q] =
              [pass[q] EXCEPT !.at = IF to > pass[q].seen[k] THEN "patch" ELSE "decide",
                              !.todo = pass[q].todo \ {k}, !.map = k, !.to = to]]
      BY <2>0, WakeDecision
    <2>2. q = p /\ k = m
      BY <1>0, <2>1
    <2>3. to < pass[p].seen[m] /\ to > pass[p].seen[m]
      BY <1>0, <2>1, <2>2
    <2>4. pass[p].seen[m] \in 0..ScaleMax
      BY <1>0, <2>0, <2>2 DEF DecideWake, ScalerInv, PassOK, PassRecords
    <2> QED
      BY <2>3, <2>4
  <1>5. ASSUME ~(\E k \in Maps : DecideFull(q, k) \/ DecideWake(q, k))
        PROVE  FALSE
    <2>1. q = p
      <3>1. CASE StartPass(q)
        <4>1. PICK kind : ConsumeLog(q, kind) \/ LogUnreadable(q, kind)
          BY <3>1 DEF StartPass
        <4> QED
          BY <1>0, <4>1 DEF ConsumeLog, LogUnreadable, Goto
      <3>2. CASE Arm(q)
        BY <1>0, <3>2 DEF Arm, Goto, Done
      <3>3. CASE ReadStatus(q) \/ ReadCounts(q) \/ Patch(q) \/ EndPass(q) \/ Crash(q)
        BY <1>0, <3>3 DEF ReadStatus, ReadCounts, Patch, EndPass, Crash, Goto, Done
      <3> QED
        BY <1>2, <1>5, <3>1, <3>2, <3>3 DEF PassStep
    <2>2. EndPass(p) \/ Crash(p)
      BY <1>0, <1>2, <1>5, <2>1 DEF PassStep, StartPass, Arm, ReadStatus, ReadCounts, Patch
    <2> QED
      BY <1>0, <2>2 DEF EndPass, Crash, Done, AtRest
  <1> QED
    BY <1>3, <1>4, <1>5

\* A map goes down (the autoscaler's drain, a scheduled scale-down) only if earned,
\* and with nobody on it who has been there since before the instant of the pass:
\* run_tick's and run_scale_instance's guards, in every interleaving with the wake
\* pass, the on-demand tick, the panel, crashes and failed reads.
THEOREM DrainsAlwaysSafe == ScalerSpec => DrainsSafe
  <1>1. ScalerInit => ScalerInv
    BY ScalerInit0
  <1>2. ScalerInv /\ [ScalerNext]_scalerVars => ScalerInv'
    BY ScalerStep
  <1>3. ScalerInv /\ [ScalerNext]_scalerVars =>
          [\A p \in Procs, m \in Maps : DecidesDown(p, m) =>
             busyAge[m] >= IdleDrain /\ armedAge[m] >= DemandGrace]_scalerVars
    BY EarnedStep
  <1>4. ScalerInv /\ [ScalerNext]_scalerVars =>
          [\A m \in Maps :
             /\ \A p \in Procs : pass[p].at = "patch" /\ pass[p].map = m
                                   /\ pass[p].to < pass[p].seen[m] /\ pass'[p].at = "decide"
                                   /\ replicas'[m] # replicas[m] => ~settled[m]
             /\ request # None /\ request' = None /\ request.by = "task" /\ request.map = m
                   /\ request.to < request.seen => ~settled[m]]_scalerVars
    BY DEF ScalerInv, NobodySettled
  <1>5. ScalerSpec => DrainEarned
    BY <1>1, <1>2, <1>3, PTL DEF ScalerSpec, DrainEarned
  <1>6. ScalerSpec => SettledStay
    BY <1>1, <1>2, <1>4, PTL DEF ScalerSpec, SettledStay
  <1> QED
    BY <1>5, <1>6 DEF DrainsSafe

-----------------------------------------------------------------------------
(***************************************************************************)
(* The types of both programs.  Besides the ranges: a server that drains   *)
(* is not tracked, only a map with a timer can have missed a visit, and    *)
(* the Director never asks for a map that is always warm.                  *)
(***************************************************************************)
AskedInv ==
  /\ asked \subseteq OnDemand /\ past \subseteq OnDemand
  /\ live \cap draining = {}
  /\ missed \subseteq {m \in GameMaps : emptySince[m] # NoTimer}
  /\ Warm \cap watch.todo = {}

\* A step that leaves the tailer's part, the servers and the timers alone keeps it.
LEMMA AskedQuiet ==
  ASSUME AskedInv, asked' \subseteq OnDemand, past' \subseteq OnDemand,
         live' \cap draining' = {}, watch'.todo \subseteq watch.todo,
         missed' \subseteq {m \in GameMaps : emptySince'[m] # NoTimer}
  PROVE  AskedInv'
BY DEF AskedInv, OnDemand

\* Every step keeps it: what the Director asks for is on demand, a map is lowered
\* when it begins to drain, and a timer goes with what was missed.
LEMMA AskedStep ==
  ASSUME ShapesInv, AskedInv, [TravelNext]_travelVars
  PROVE  AskedInv'
<1>0. /\ asked \subseteq OnDemand /\ past \subseteq OnDemand /\ live \cap draining = {}
      /\ missed \subseteq {m \in GameMaps : emptySince[m] # NoTimer}
      /\ Warm \cap watch.todo = {} /\ up \subseteq GameMaps
      /\ emptySince \in [GameMaps -> TimerRange]
      /\ watch \in [at : {"rest", "next", "query", "free", "recheck", "raise", "start"},
                    todo : SUBSET GameMaps, map : GameMaps \cup {NoMap}, counts : SUBSET GameMaps]
  BY DEF AskedInv, ShapesInv
<1>1. ASSUME UNCHANGED <<asked, past, watch, live, draining, missed, emptySince>>
      PROVE  AskedInv'
  BY <1>0, <1>1 DEF AskedInv, OnDemand
<1>2. ASSUME NEW m \in GameMaps, Respawns(m) \/ OthersRaise(m)
      PROVE  AskedInv'
  <2>1. UNCHANGED <<asked, past, watch, emptySince, draining>>
    BY <1>2 DEF Respawns, OthersRaise, loopVars
  <2>2. \/ UNCHANGED <<live, missed>>
        \/ /\ m \notin draining /\ live' = live \cup {m}
           /\ missed' = IF emptySince[m] # NoTimer THEN missed \cup {m} ELSE missed
    BY <1>2 DEF Respawns, OthersRaise, Begins
  <2> QED
    BY <1>0, <2>1, <2>2, AskedQuiet
<1>3. CASE Starts
  <2>1. UNCHANGED <<asked, past, emptySince, draining>> /\ watch'.todo = watch.todo
    BY <1>0, <1>3 DEF Starts, WatchGoesOn
  <2>2. watch.map \in GameMaps
    BY <1>3 DEF ShapesInv, Starts
  <2>3. \/ UNCHANGED <<live, missed>>
        \/ /\ watch.map \notin draining /\ live' = live \cup {watch.map}
           /\ missed' = IF emptySince[watch.map] # NoTimer THEN missed \cup {watch.map} ELSE missed
    BY <1>3 DEF Starts, RaiseTo, Begins
  <2> QED
    BY <1>0, <2>1, <2>2, <2>3, AskedQuiet
<1>4. ASSUME NEW m \in GameMaps, DrainEnds(m)
      PROVE  AskedInv'
  BY <1>0, <1>4, AskedQuiet DEF DrainEnds, loopVars, travelHistory, pollHistory
<1>5. ASSUME NEW m \in GameMaps, ServerDies(m)
      PROVE  AskedInv'
  BY <1>0, <1>5, AskedQuiet DEF ServerDies, Emptied, loopVars
<1>6. ASSUME NEW m \in GameMaps, OthersLower(m)
      PROVE  AskedInv'
  BY <1>0, <1>6, AskedQuiet DEF OthersLower, LowerToZero, Emptied, loopVars
<1>7. ASSUME NEW m \in GameMaps, NEW last \in BOOLEAN, Leaves(m, last)
      PROVE  AskedInv'
  <2>1. UNCHANGED <<asked, past, watch, emptySince, live, draining>>
    BY <1>7 DEF Leaves, GameRest, loopVars, serverVars
  <2>2. missed' = missed \/ (missed' = missed \cup {m} /\ emptySince[m] # NoTimer)
    BY <1>7 DEF Leaves
  <2> QED
    BY <1>0, <2>1, <2>2, AskedQuiet
<1>8. ASSUME NEW m \in GameMaps,
             Boots(m) \/ Enters(m) \/ Completes(m) \/ SendsOn(m) \/ DyingWrites(m)
      PROVE  AskedInv'
  <2>1. UNCHANGED <<asked, past, watch, live, draining, missed, emptySince>>
    BY <1>8 DEF Boots, Enters, Completes, SendsOn, DyingWrites, GameRest, loopVars, serverVars,
                pollHistory
  <2> QED
    BY <1>1, <2>1
<1>9. ASSUME NEW m \in GameMaps, Asks(m)
      PROVE  AskedInv'
  BY <1>0, <1>9, AskedQuiet DEF Asks, loopVars, serverVars, pollHistory
<1>10. ASSUME NEW kept \in SUBSET past, LogTrimmed(kept)
       PROVE  AskedInv'
  BY <1>0, <1>10, AskedQuiet DEF LogTrimmed, loopVars, serverVars, travelHistory, pollHistory
<1>11. CASE ReapReads
  BY <1>0, <1>11, AskedQuiet DEF ReapReads, Forgotten, ReapRest, serverVars
<1>12. CASE ReapEnds \/ ReapCannotRead
  <2>1. UNCHANGED <<asked, past, watch, live, draining, missed, emptySince>>
    BY <1>12 DEF ReapEnds, ReapCannotRead, ReapRest, loopVars, serverVars, pollHistory
  <2> QED
    BY <1>1, <2>1
<1>13. ASSUME NEW m \in GameMaps, Stops(m), UNCHANGED <<asked, past>>,
              watch'.todo = watch.todo
       PROVE  AskedInv'
  BY <1>0, <1>13, AskedQuiet DEF Stops, Forgotten, LowerToZero
<1>14. ASSUME NEW m \in GameMaps, ReapMap(m)
       PROVE  AskedInv'
  <2>1. UNCHANGED <<asked, past, watch>>
    BY <1>14, ReapMapForms
  <2>2. CASE Stops(m)
    BY <1>13, <2>1, <2>2
  <2>3. CASE ~Stops(m)
    <3>1. /\ emptySince' = [emptySince EXCEPT ![m] =
                             IF m \in Warm \/ m \in reap.counts THEN NoTimer ELSE Counting(@)]
          /\ missed' = IF m \in Warm \/ m \in reap.counts THEN missed \ {m} ELSE missed
      BY <1>14, <2>3, ReapMapForms
    <3>2. UNCHANGED <<live, draining>>
      BY <1>14, <2>3 DEF ReapMap, serverVars
    <3>3. m \in missed => Counting(emptySince[m]) # NoTimer
      BY <1>0 DEF Counting
    <3>4. missed' \subseteq {n \in GameMaps : emptySince'[n] # NoTimer}
      BY <1>0, <3>1, <3>3
    <3> QED
      BY <1>0, <2>1, <3>2, <3>4, AskedQuiet
  <2> QED
    BY <2>2, <2>3
<1>15. CASE WatchReads
  <2>1. watch'.todo = asked /\ asked' = {} /\ past' \subseteq past \cup asked
    BY <1>15 DEF WatchReads, WatchRests
  <2>2. UNCHANGED <<live, draining, missed, emptySince>>
    BY <1>15 DEF WatchReads, serverVars, travelHistory, pollHistory
  <2> QED
    BY <1>0, <2>1, <2>2 DEF AskedInv, OnDemand
<1>16. CASE WatchEnds \/ WatchQueries \/ LooksAgain \/ FreesNone \/ \E m \in GameMaps : WatchNext(m)
  <2>1. UNCHANGED <<asked, past, live, draining, missed, emptySince>>
    BY <1>16 DEF WatchEnds, WatchQueries, LooksAgain, FreesNone, WatchNext, WatchRest, serverVars,
                 travelHistory, pollHistory
  <2>2. watch'.todo \subseteq watch.todo
    <3>1. CASE WatchEnds
      BY <3>1 DEF WatchEnds, WatchRests
    <3>2. CASE WatchQueries
      BY <1>0, <3>2 DEF WatchQueries, Refuses, WatchGoesOn
    <3>3. CASE LooksAgain
      BY <1>0, <3>3 DEF LooksAgain, WatchTo, Refuses, WatchGoesOn
    <3>4. CASE FreesNone
      BY <1>0, <3>4 DEF FreesNone, Refuses, WatchGoesOn
    <3>5. ASSUME NEW m \in GameMaps, WatchNext(m) PROVE watch'.todo \subseteq watch.todo
      BY <1>0, <3>5 DEF WatchNext
    <3> QED
      BY <1>16, <3>1, <3>2, <3>3, <3>4, <3>5
  <2> QED
    BY <1>0, <2>1, <2>2, AskedQuiet
<1>17. ASSUME NEW m \in GameMaps, Frees(m)
       PROVE  AskedInv'
  <2>1. UNCHANGED <<asked, past>> /\ watch'.todo = watch.todo /\ Stops(m)
    BY <1>0, <1>17 DEF Frees, WatchTo, WatchRest
  <2> QED
    BY <1>13, <2>1
<1>18. CASE TravelTime
  <2>1. UNCHANGED <<asked, past, watch, live, draining, missed>>
    BY <1>18 DEF TravelTime, serverVars
  <2>2. ASSUME NEW m \in GameMaps, emptySince[m] # NoTimer PROVE emptySince'[m] # NoTimer
    <3>1. emptySince[m] \in 0..IdleAfter
      BY <1>0, <2>2 DEF TimerRange
    <3> QED
      BY <1>18, <2>2, <3>1, TimeNumbers DEF TravelTime, Aged
  <2> QED
    BY <1>0, <2>1, <2>2, AskedQuiet
<1>19. CASE UNCHANGED travelVars
  BY <1>1, <1>19 DEF travelVars, loopVars, serverVars, travelHistory, pollHistory
<1> QED
  BY <1>2, <1>3, <1>4, <1>5, <1>6, <1>7, <1>8, <1>9, <1>10, <1>11, <1>12, <1>14, <1>15, <1>16,
     <1>17, <1>18, <1>19
  DEF TravelNext, ReaperSteps, WatcherSteps, MakingRoom

\* The two programs share no state, so each keeps its own types while the other runs.
THEOREM OnDemandTyped == OnDemandSpec => []OnDemandTypeOK
<1> DEFINE Inv == ScalerInv /\ ShapesInv /\ BudgetInv /\ AskedInv
<1>1. OnDemandInit => Inv
  <2>1. TravelInit => AskedInv
    BY DEF TravelInit, AskedInv, WatchRests
  <2> QED
    BY <2>1, ScalerInit0, ShapesInit, BudgetInit DEF OnDemandInit
<1>2. Inv /\ [PanelRuns \/ MockRuns]_onDemandVars => Inv'
  <2>1. ASSUME [PanelRuns \/ MockRuns]_onDemandVars
        PROVE  [ScalerNext]_scalerVars /\ [TravelNext]_travelVars
    BY <2>1 DEF PanelRuns, MockRuns, onDemandVars
  <2> QED
    BY <2>1, ScalerStep, ShapesStep, BudgetStep, AskedStep
<1>3. Inv => OnDemandTypeOK
  BY DEF ScalerInv, ShapesInv, BudgetInv, AskedInv, OnDemandTypeOK, TravelTypeOK, TimerRange
<1> QED
  BY <1>1, <1>2, <1>3, PTL DEF OnDemandSpec
=============================================================================
