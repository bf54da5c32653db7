----------------------------- MODULE TravelDemand -----------------------------
(***************************************************************************)
(* Maps on demand in mock-k8s, internal/traveldemand: the watcher that     *)
(* starts a map when the Director's log says that a player travels there,  *)
(* the reaper that stops the maps nobody is on, and the guard that stops a *)
(* finished story.  Each loop is a goroutine; both lower maps, the watcher *)
(* when it is at MaxConcurrentInstances and makes room.                    *)
(*                                                                         *)
(* The store and the spawner are what these loops see of them: a map is up *)
(* (replicas above zero), its server is tracked, and a server that was     *)
(* stopped drains for a while and holds back the next one of its map       *)
(* (Spawner has the rest).  The log of a map's server is read by the       *)
(* guard; successive servers write the same file, since its name has the   *)
(* lowest free slot.  Time is counted in ages, up to IdleAfter; the loops  *)
(* take time only where they run a query.                                  *)
(***************************************************************************)
EXTENDS FiniteSets, Integers, SequencesExt

CONSTANTS
  GameMaps, Warm,  \* the maps; AlwaysWarmMaps
  StoryMaps,       \* maps whose servers play a story
  Visited,         \* bound: the maps somebody enters
  MaxLive,         \* MaxConcurrentInstances, 0 for none
  IdleAfter,       \* AutomaticStopDuration
  MinEmpty,        \* freeSlotMinEmpty
  TravelFaults,    \* bound: failed queries and starts, servers that die
  TravelOps,       \* bound: writes of replicas by the Director or the panel
  LogTrims,        \* bound: trims of the Director's log
  LogBound,        \* bound: unread lines of a server's log
  NoTimer, NoMap

ASSUME TravelAssumption ==
  /\ IsFiniteSet(GameMaps) /\ {Warm, StoryMaps, Visited} \subseteq SUBSET GameMaps
  /\ {MaxLive, IdleAfter, MinEmpty, TravelFaults, TravelOps, LogTrims, LogBound} \subseteq Nat
  /\ IdleAfter > 0 /\ MinEmpty <= IdleAfter
  /\ NoTimer \notin Int /\ NoMap \notin GameMaps

VARIABLES
  asked,     \* director.log: maps of the requests the tailer has not read
  past,      \* director.log: maps of the requests it has read
  watch,     \* the watcher's tick
  reap,      \* the reaper's tick
  emptySince, \* reaper: age of each map's timer, or NoTimer
  verdict,   \* StoryEnd: what the guard has concluded of each log
  up,        \* store: maps above zero replicas
  live,      \* spawner: maps with a tracked server
  draining,  \* spawner: maps with a server being stopped
  inside,    \* game: maps somebody is on
  story,     \* game: how far the story of each server is
  lines,     \* game: the unread lines of each log
  travelFaults, travelOps, logTrims,
  vacant,    \* history: since when nobody is on the map of a server that runs
  seen,      \* history: occupied maps whose visit the reaper has polled
  missed,    \* history: maps with a visit or a restart that fell between two polls
  joined,    \* history: maps entered since the query each loop acts on
  haunted,   \* history: servers whose log still tells of an earlier one
  late,      \* history: maps that are up and were not counted when they came up
  waiting,   \* history: maps of the requests that are not answered
  phantom    \* history: maps started though nobody waited for them

loopVars == <<watch, reap, emptySince, verdict>>
serverVars == <<up, live, draining>>
gameVars == <<inside, story, lines>>
boundVars == <<travelFaults, travelOps, logTrims>>
pollHistory == <<vacant, seen, missed, joined>>
travelHistory == <<pollHistory, haunted, late, waiting, phantom>>
travelVars == <<asked, past, loopVars, serverVars, gameVars, boundVars, travelHistory>>

OnDemand == GameMaps \ Warm

\* How a server begins; its boot matters to the reader of its log.
Fresh(m) == IF m \in StoryMaps THEN "boot" ELSE "play"
Clear == [completed |-> FALSE, out |-> FALSE, abandoned |-> FALSE, looping |-> FALSE]
WatchRests == [at |-> "rest", todo |-> {}, map |-> NoMap, counts |-> {}]
ReapRests == [at |-> "rest", todo |-> {}, counts |-> {}]

TravelInit ==
  /\ asked = {} /\ past = {}
  /\ watch = WatchRests /\ reap = ReapRests
  /\ emptySince = [m \in GameMaps |-> NoTimer]
  /\ verdict = [m \in GameMaps |-> Clear]
  /\ up = Warm /\ live = Warm /\ draining = {}
  /\ inside = {}
  /\ story = [m \in GameMaps |-> Fresh(m)]
  /\ lines = [m \in GameMaps |-> <<>>]
  /\ travelFaults = 0 /\ travelOps = 0 /\ logTrims = 0
  /\ vacant = [m \in GameMaps |-> 0]
  /\ seen = {} /\ missed = {}
  /\ joined = [l \in {"watcher", "reaper"} |-> {}]
  /\ haunted = {} /\ late = {}
  /\ waiting = {} /\ phantom = {}

TravelFault == travelFaults < TravelFaults /\ travelFaults' = travelFaults + 1

Aged(age) == IF age = NoTimer \/ age >= IdleAfter THEN age ELSE age + 1

\* The timers of the maps in S are deleted.
Forgotten(S) == [m \in GameMaps |-> IF m \in S THEN NoTimer ELSE emptySince[m]]

-----------------------------------------------------------------------------
(* The store, the spawner and the servers                                  *)

\* The server of m starts: what is known of an earlier one is still there.
Begins(m) ==
  /\ live' = live \cup {m}
  /\ vacant' = [vacant EXCEPT ![m] = 0]
  /\ missed' = IF emptySince[m] # NoTimer THEN missed \cup {m} ELSE missed
  /\ story' = [story EXCEPT ![m] = Fresh(m)]
  /\ haunted' = IF lines[m] # <<>> THEN haunted \cup {m} ELSE haunted

\* Nobody is on m any more.
Emptied(m) ==
  /\ inside' = inside \ {m}
  /\ seen' = seen \ {m}
  /\ vacant' = [vacant EXCEPT ![m] = 0]

\* OnSpecChange for more replicas: it starts the server at once, but not while
\* another one drains, and a start may fail until the loop repeats it.
RaiseTo(m, counted) ==
  /\ up' = up \cup {m}
  /\ \/ /\ m \notin draining /\ Begins(m)
        /\ late' = IF counted THEN late ELSE late \cup {m}
        /\ UNCHANGED travelFaults
     \/ /\ IF m \in draining THEN UNCHANGED travelFaults ELSE TravelFault
        /\ late' = late \cup {m}
        /\ UNCHANGED <<live, vacant, missed, story, haunted>>

\* Broken form for OnDemandTypeOK: the server that is stopped stays in the list.
LowersTracked(m) ==
  /\ up' = up \ {m} /\ late' = late \ {m} /\ UNCHANGED live
  /\ draining' = IF m \in live THEN draining \cup {m} ELSE draining

\* OnSpecChange for none: the server leaves the list and drains.
LowerToZero(m) ==
  /\ up' = up \ {m} /\ live' = live \ {m} /\ late' = late \ {m}
  /\ draining' = IF m \in live THEN draining \cup {m} ELSE draining

\* The reconcile loop starts what is up and not tracked.
Respawns(m) ==
  /\ m \in up \ live /\ m \notin draining
  /\ Begins(m)
  /\ UNCHANGED <<asked, past, loopVars, up, draining, inside, lines, boundVars, seen, joined,
                 late, waiting, phantom>>

DrainEnds(m) ==
  /\ m \in draining /\ draining' = draining \ {m}
  /\ UNCHANGED <<asked, past, loopVars, up, live, gameVars, boundVars, travelHistory>>

\* A server ends and the guard is not told: its verdict stays.
NotForgotten(m) ==
  haunted' = IF verdict[m].abandoned \/ verdict[m].looping THEN haunted \cup {m} ELSE haunted

ServerDies(m) ==
  /\ m \in live \cap OnDemand /\ TravelFault
  /\ live' = live \ {m} /\ late' = late \cup {m}
  /\ Emptied(m) /\ NotForgotten(m)
  /\ missed' = IF m \in inside \ seen /\ emptySince[m] # NoTimer THEN missed \cup {m} ELSE missed
  /\ UNCHANGED <<asked, past, loopVars, up, draining, story, lines, travelOps, logTrims, joined,
                 waiting, phantom>>

\* The Director or the panel writes the replicas of m.
OthersRaise(m) ==
  /\ m \notin up /\ travelOps < TravelOps /\ travelOps' = travelOps + 1
  /\ up' = up \cup {m} /\ late' = late \cup {m}
  /\ IF m \in draining THEN UNCHANGED <<live, vacant, missed, story, haunted>> ELSE Begins(m)
  /\ UNCHANGED <<asked, past, loopVars, draining, inside, lines, travelFaults, logTrims, seen,
                 joined, waiting, phantom>>

OthersLower(m) ==
  /\ m \in up /\ travelOps < TravelOps /\ travelOps' = travelOps + 1
  /\ LowerToZero(m) /\ Emptied(m) /\ NotForgotten(m)
  /\ UNCHANGED <<asked, past, loopVars, story, lines, travelFaults, logTrims, missed, joined,
                 waiting, phantom>>

-----------------------------------------------------------------------------
(* The game                                                                *)

\* A loop acts on player counts it has read.
Counted(l) == IF l = "reaper" THEN reap.at # "rest" ELSE watch.at = "free"

\* The server of m writes to its log; only stories are read.
Writes(m, new) ==
  IF m \notin StoryMaps THEN UNCHANGED lines
  ELSE Len(lines[m]) + Len(new) <= LogBound /\ lines' = [lines EXCEPT ![m] = @ \o new]

GameRest == <<asked, past, loopVars, serverVars, boundVars, late, waiting, phantom>>

\* The first line of a boot.
Boots(m) ==
  /\ m \in live /\ story[m] = "boot"
  /\ Writes(m, <<"boot">>)
  /\ story' = [story EXCEPT ![m] = "play"]
  /\ haunted' = haunted \ {m}
  /\ UNCHANGED <<GameRest, inside, pollHistory>>

\* Somebody enters; who comes back to a finished story is caught in its loop.
Enters(m) ==
  /\ m \in (live \cap Visited) \ inside /\ story[m] # "boot"
  /\ inside' = inside \cup {m}
  /\ joined' = [l \in DOMAIN joined |-> joined[l] \cup (IF Counted(l) THEN {m} ELSE {})]
  /\ IF story[m] = "left"
     THEN Writes(m, <<"looped">>) /\ story' = [story EXCEPT ![m] = "loop"]
     ELSE UNCHANGED <<lines, story>>
  /\ UNCHANGED <<GameRest, vacant, seen, missed, haunted>>

Completes(m) ==
  /\ m \in inside \cap StoryMaps /\ story[m] \in {"play", "sent"}
  /\ Writes(m, <<"completed">>)
  /\ story' = [story EXCEPT ![m] = "done"]
  /\ UNCHANGED <<GameRest, inside, pollHistory, haunted>>

\* After the end the server sends its players on ...
SendsOn(m) ==
  /\ m \in inside /\ story[m] = "done"
  /\ Writes(m, <<"travel">>)
  /\ story' = [story EXCEPT ![m] = "sent"]
  /\ UNCHANGED <<GameRest, inside, pollHistory, haunted>>

\* ... or they drop out of the finished story.  When the last one leaves, the
\* level is reloaded.
Leaves(m, last) ==
  /\ m \in inside
  /\ story' = [story EXCEPT ![m] =
                 CASE @ = "done" -> "left" [] @ = "sent" /\ last -> "play" [] OTHER -> @]
  /\ Writes(m, IF last THEN <<"left", "reload">> ELSE <<"left">>)
  /\ IF last
     THEN /\ Emptied(m)
          /\ missed' = IF m \notin seen /\ emptySince[m] # NoTimer THEN missed \cup {m} ELSE missed
     ELSE m \in StoryMaps /\ UNCHANGED <<inside, seen, vacant, missed>>
  /\ UNCHANGED <<GameRest, joined, haunted>>

\* A server that drains still writes.
DyingWrites(m) ==
  /\ m \in draining /\ story[m] = "loop"
  /\ Writes(m, <<"looped">>)
  /\ UNCHANGED <<GameRest, inside, story, pollHistory, haunted>>

\* A player asks to travel to m.
Asks(m) ==
  /\ m \in OnDemand \ asked
  /\ asked' = asked \cup {m}
  /\ waiting' = waiting \cup {m}
  /\ UNCHANGED <<past, loopVars, serverVars, gameVars, boundVars, pollHistory, haunted, late,
                 phantom>>

\* rotate-logs.sh trims the Director's log in place: it has shrunk, and what is
\* left of it is read again from its start.
LogTrimmed(kept) ==
  /\ logTrims < LogTrims /\ logTrims' = logTrims + 1
  /\ kept \subseteq past
  /\ asked' = asked \cup kept /\ past' = kept
  /\ UNCHANGED <<loopVars, serverVars, gameVars, travelFaults, travelOps, travelHistory>>

-----------------------------------------------------------------------------
(* The story guard                                                         *)

\* Broken form for StoryStopped: the reload of the level clears what is concluded.
ReadClearing(st, line) ==
  CASE line \in {"boot", "reload"} -> Clear
    [] line = "looped" -> [st EXCEPT !.looping = TRUE]
    [] line = "completed" -> [st EXCEPT !.completed = TRUE, !.out = FALSE]
    [] line = "travel" -> [st EXCEPT !.out = st.completed \/ @]
    [] line = "left" /\ st.completed /\ ~st.out -> [st EXCEPT !.abandoned = TRUE]
    [] OTHER -> st

\* What a line of a server's log says.
Read(st, line) ==
  CASE line = "boot" -> Clear
    [] line = "looped" -> [st EXCEPT !.looping = TRUE]
    [] line = "completed" -> [st EXCEPT !.completed = TRUE, !.out = FALSE]
    [] line = "travel" -> [st EXCEPT !.out = st.completed \/ @]
    [] line = "left" /\ st.completed /\ ~st.out -> [st EXCEPT !.abandoned = TRUE]
    [] line = "reload" -> [st EXCEPT !.completed = FALSE, !.out = FALSE]
    [] OTHER -> st

\* What is concluded after each line of a log.
ReadThrough(st, log) ==
  LET after[n \in 0..Len(log)] == IF n = 0 THEN st ELSE Read(after[n - 1], log[n])
  IN after[Len(log)]

\* Check reads what the log gained, of a map with a tracked server.
ReadAll(m) == ReadThrough(verdict[m], lines[m])
Scanned(m) ==
  IF m \notin live THEN Clear ELSE IF lines[m] = <<>> THEN verdict[m] ELSE ReadAll(m)

\* Stop now, or stop once nobody is there.
Finished(m, occupied) ==
  LET st == Scanned(m) IN st.looping \/ (st.abandoned /\ ~occupied)

-----------------------------------------------------------------------------
(* The reaper's tick, under its lock                                       *)

ReapRest == <<asked, past, story, travelOps, logTrims, waiting, phantom>>

\* PlayerCounts answers; the maps that are up are listed, the others lose their
\* timer.
ReapReads ==
  /\ reap.at = "rest"
  /\ reap' = [at |-> "loop", todo |-> up, counts |-> inside]
  /\ seen' = inside
  /\ emptySince' = Forgotten(GameMaps \ up)
  /\ missed' = missed \cap up
  /\ UNCHANGED <<ReapRest, watch, verdict, serverVars, inside, lines, travelFaults, vacant, joined,
                 haunted, late>>

\* Without an answer nothing is done.
ReapCannotRead ==
  /\ reap.at = "rest" /\ TravelFault
  /\ UNCHANGED <<ReapRest, loopVars, serverVars, inside, lines, pollHistory, haunted, late>>

\* ScaleToZero, from a loop.
Stops(m) ==
  /\ LowerToZero(m) /\ Emptied(m)
  /\ emptySince' = Forgotten({m})
  /\ missed' = missed \ {m}

\* Broken form for KeptWhileFresh: the guard keeps the verdict of what it stopped.
KeptAlways(m, finished) == Scanned(m)

\* Forget, for the map of a finished story.
Kept(m, finished) == IF finished THEN Clear ELSE Scanned(m)

\* Broken form for SlotsReturn: the timer of an empty map is never started.
CountingNever(age) == age

\* The timer of a map that is empty.
Counting(age) == IF age = NoTimer THEN 0 ELSE age

EmptyFor(m, age) == emptySince[m] # NoTimer /\ emptySince[m] >= age

\* One map of the list: a finished story is stopped, a visited map loses its
\* timer, a map that is empty for the first time gets one, and one that is empty
\* for IdleAfter is stopped.
ReapMap(m) ==
  /\ reap.at = "loop" /\ m \in reap.todo
  /\ reap' = [reap EXCEPT !.todo = @ \ {m}]
  /\ LET occupied == m \in reap.counts
         finished == m \notin Warm /\ Finished(m, occupied) IN
     /\ IF m \in Warm \/ m \notin live THEN UNCHANGED <<verdict, lines>>
        ELSE /\ verdict' = [verdict EXCEPT ![m] = Kept(m, finished)]
             /\ lines' = [lines EXCEPT ![m] = <<>>]
     /\ IF finished \/ (m \notin Warm /\ ~occupied /\ EmptyFor(m, IdleAfter))
        THEN /\ Stops(m)
             /\ haunted' = IF finished THEN haunted \ {m} ELSE haunted
        ELSE /\ emptySince' = [emptySince EXCEPT ![m] =
                                 IF m \in Warm \/ occupied THEN NoTimer ELSE Counting(@)]
             /\ missed' = IF m \in Warm \/ occupied THEN missed \ {m} ELSE missed
             /\ UNCHANGED <<serverVars, inside, vacant, seen, late, haunted>>
  /\ UNCHANGED <<ReapRest, watch, travelFaults, joined>>

ReapEnds ==
  /\ reap.at = "loop" /\ reap.todo = {}
  /\ reap' = ReapRests
  /\ joined' = [joined EXCEPT !["reaper"] = {}]
  /\ UNCHANGED <<ReapRest, watch, emptySince, verdict, serverVars, inside, lines, travelFaults,
                 vacant, seen, missed, haunted, late>>

-----------------------------------------------------------------------------
(* The watcher's tick                                                      *)

WatchRest == <<past, reap, story, travelOps, logTrims>>
WatchTo(at) == watch' = [watch EXCEPT !.at = at]
WatchGoesOn == watch' = [watch EXCEPT !.at = "next", !.counts = {}]

\* The request is answered, but for one that was written since.
Answered == waiting' = waiting \ ({watch.map} \ asked)

\* Broken form for TravelAnswered: only the first request of what was read counts.
WatchReadsFirst ==
  /\ watch.at = "rest" /\ asked # {}
  /\ watch' = [WatchRests EXCEPT !.at = "next", !.todo = {CHOOSE m \in asked : TRUE}]
  /\ asked' = {} /\ past' = IF logTrims < LogTrims THEN past \cup asked ELSE past
  /\ UNCHANGED <<reap, emptySince, verdict, serverVars, gameVars, boundVars, travelHistory>>

\* The tailer reads what was written since the last tick.
WatchReads ==
  /\ watch.at = "rest" /\ asked # {}
  /\ watch' = [WatchRests EXCEPT !.at = "next", !.todo = asked]
  /\ asked' = {} /\ past' = IF logTrims < LogTrims THEN past \cup asked ELSE past
  /\ UNCHANGED <<reap, emptySince, verdict, serverVars, gameVars, boundVars, travelHistory>>

\* Broken form for BudgetHeld: one map too many fits.
HasRoomForOneMore == MaxLive = 0 \/ Cardinality(live) <= MaxLive

HasRoom == MaxLive = 0 \/ Cardinality(live) < MaxLive

\* A map that is up needs no room.
WatchNext(m) ==
  /\ watch.at = "next" /\ m \in watch.todo
  /\ watch' = [watch EXCEPT !.at = IF m \in up THEN "raise"
                                    ELSE IF HasRoom THEN "start" ELSE "query",
                            !.todo = @ \ {m}, !.map = m]
  /\ UNCHANGED <<asked, WatchRest, emptySince, verdict, serverVars, inside, lines, travelFaults,
                 travelHistory>>

WatchEnds ==
  /\ watch.at = "next" /\ watch.todo = {}
  /\ watch' = WatchRests
  /\ UNCHANGED <<asked, WatchRest, emptySince, verdict, serverVars, inside, lines, travelFaults,
                 travelHistory>>

Refuses == Answered /\ WatchGoesOn

\* FreeSlot asks who is where before it takes the reaper's lock.
WatchQueries ==
  /\ watch.at = "query"
  /\ \/ /\ watch' = [watch EXCEPT !.at = "free", !.counts = inside]
        /\ UNCHANGED <<travelFaults, waiting>>
     \/ TravelFault /\ Refuses
  /\ UNCHANGED <<asked, WatchRest, emptySince, verdict, serverVars, inside, lines, pollHistory,
                 haunted, late, phantom>>

\* Broken form for NobodyPutOut: who is on the map does not count.
FreeableOccupied == {m \in up \ (Warm \cup {watch.map}) : EmptyFor(m, MinEmpty)}

\* What may be stopped to make room.
Freeable == {m \in up \ (Warm \cup watch.counts \cup {watch.map}) : EmptyFor(m, MinEmpty)}

\* The map that is empty the longest is stopped.
Frees(m) ==
  /\ watch.at = "free" /\ reap.at = "rest"
  /\ m \in Freeable /\ \A n \in Freeable : emptySince[n] <= emptySince[m]
  /\ Stops(m)
  /\ verdict' = [verdict EXCEPT ![m] = Clear] /\ haunted' = haunted \ {m}
  /\ WatchTo("recheck")
  /\ joined' = [joined EXCEPT !["watcher"] = {}]
  /\ UNCHANGED <<asked, WatchRest, lines, travelFaults, waiting, phantom>>

FreesNone ==
  /\ watch.at = "free" /\ reap.at = "rest" /\ Freeable = {}
  /\ Refuses
  /\ joined' = [joined EXCEPT !["watcher"] = {}]
  /\ UNCHANGED <<asked, WatchRest, emptySince, verdict, serverVars, inside, lines, travelFaults,
                 vacant, seen, missed, haunted, late, phantom>>

LooksAgain ==
  /\ watch.at = "recheck"
  /\ IF HasRoom THEN WatchTo("start") /\ UNCHANGED waiting ELSE Refuses
  /\ UNCHANGED <<asked, WatchRest, emptySince, verdict, serverVars, inside, lines, travelFaults,
                 pollHistory, haunted, late, phantom>>

\* ScaleToOne, which leaves a map that is up alone.
Starts ==
  /\ watch.at \in {"raise", "start"}
  /\ LET m == watch.map IN
     IF m \in up
     THEN UNCHANGED <<up, live, vacant, missed, story, haunted, late, travelFaults, phantom>>
     ELSE /\ RaiseTo(m, watch.at = "start")
          /\ phantom' = IF m \in waiting THEN phantom ELSE phantom \cup {m}
  /\ Answered /\ WatchGoesOn
  /\ UNCHANGED <<asked, past, reap, emptySince, verdict, draining, inside, lines, travelOps,
                 logTrims, seen, joined>>

\* Time passes, but not in the reaper's loop: its tick takes the time once.
TravelTime ==
  /\ reap.at = "rest"
  /\ emptySince' = [m \in GameMaps |-> Aged(emptySince[m])]
  /\ vacant' = [m \in GameMaps |-> IF m \in live \ inside THEN Aged(vacant[m]) ELSE 0]
  /\ UNCHANGED <<asked, past, watch, reap, verdict, serverVars, gameVars, boundVars, seen, missed,
                 joined, haunted, late, waiting, phantom>>

\* What each loop does; making room waits for the reaper's lock.
ReaperSteps == ReapReads \/ ReapEnds \/ \E m \in GameMaps : ReapMap(m)
WatcherSteps ==
  \/ WatchReads \/ WatchEnds \/ WatchQueries \/ LooksAgain \/ Starts
  \/ \E m \in GameMaps : WatchNext(m)
MakingRoom == FreesNone \/ \E m \in GameMaps : Frees(m)

TravelNext ==
  \/ \E m \in GameMaps : \/ Respawns(m) \/ DrainEnds(m) \/ ServerDies(m)
                     \/ OthersRaise(m) \/ OthersLower(m)
                     \/ Boots(m) \/ Enters(m) \/ Completes(m) \/ SendsOn(m)
                     \/ DyingWrites(m) \/ Asks(m)
                     \/ \E last \in BOOLEAN : Leaves(m, last)
  \/ \E kept \in SUBSET past : LogTrimmed(kept)
  \/ ReaperSteps \/ ReapCannotRead \/ WatcherSteps \/ MakingRoom \/ TravelTime

\* The loops go on, servers start and drain, and time passes.
TravelFairness ==
  /\ WF_travelVars(ReaperSteps) /\ WF_travelVars(WatcherSteps) /\ SF_travelVars(MakingRoom)
  /\ \A m \in GameMaps : WF_travelVars(Respawns(m)) /\ WF_travelVars(DrainEnds(m))
  /\ SF_travelVars(TravelTime)

TravelSpec == TravelInit /\ [][TravelNext]_travelVars
FairTravelSpec == TravelSpec /\ TravelFairness

-----------------------------------------------------------------------------
(* Properties                                                              *)

\* Every value stays in its range; only maps that are up have a tracked server.
TravelTypeOK ==
  /\ asked \subseteq OnDemand /\ past \subseteq OnDemand
  /\ watch.at \in {"rest", "next", "query", "free", "recheck", "raise", "start"}
  /\ reap.at \in {"rest", "loop"}
  /\ \A m \in GameMaps : emptySince[m] \in {NoTimer} \cup 0..IdleAfter
  /\ live \subseteq up /\ late \subseteq up /\ live \cap draining = {} /\ inside \subseteq live
  /\ missed \subseteq {m \in GameMaps : emptySince[m] # NoTimer}
  /\ Warm \cap watch.todo = {}

\* The maps that a step of these loops stops, and whether it makes room.
Stopped == IF travelOps' = travelOps THEN up \ up' ELSE {}
MakesRoom == watch.at = "free" /\ watch'.at = "recheck"
Over(m) == story[m] \in {"left", "loop"} \/ m \in haunted

\* A map somebody is on is not stopped, but to get them out of a looping story, or
\* when they came after the players were counted (Occupancy: "An error means
\* UNKNOWN, never empty").
NobodyPutOut ==
  [][\A m \in Stopped \cap inside :
       story[m] = "loop" \/ m \in joined[IF MakesRoom THEN "watcher" ELSE "reaper"]]_travelVars

\* A map is not stopped before it has been empty for as long as is promised,
\* counted from its server's start or its last visit, but when its story is over, or when
\* it restarted or was visited between two polls (reaper.go: "A player who
\* dropped mid-mission comes back within the grace period").
KeptWhileFresh ==
  [][\A m \in (Stopped \cap live) \ inside :
       \/ Over(m) \/ m \in missed
       \/ vacant[m] >= (IF MakesRoom THEN MinEmpty ELSE IdleAfter)]_travelVars

\* A finished story that nobody was counted on, or that loops on its player, is
\* stopped by the tick that reads of it (storyend.go: "This guard stops it as soon
\* as it can").
StoryStopped ==
  [][\A m \in StoryMaps \cap live :
       /\ m \in reap.todo \ reap'.todo
       /\ \/ story[m] = "loop"
          \/ story[m] = "left" /\ m \notin reap.counts
       => m \notin up']_travelVars

\* Demand never raises more maps than the budget allows, but for those that came
\* up without being counted: their server drained, failed or died, they were
\* up a moment before, or somebody else raised them (watcher.go: maxLive "caps
\* how many instances may be running before demand is refused").
BudgetHeld ==
  MaxLive = 0 \/ Cardinality(up \ late) <= Max({MaxLive, Cardinality(Warm)})

\* An on-demand map that stays empty gives its slot back.
SlotsReturn ==
  \A m \in OnDemand : (m \in up \ inside) ~> (m \notin up \/ m \in inside)

\* A travel request is answered: its map is started, or refused.
TravelAnswered == \A m \in OnDemand : (m \in asked) ~> (watch.map = m /\ watch.at = "next")

\* watcher.go, NewTailer: "Only what is written from now on describes a player who
\* is actually waiting."  After a trim the requests the log has kept are read
\* again, and their maps start for nobody.
NoReplay == phantom = {}

\* main.go: "it caps how many maps demand may start".  A map asked for again while
\* its last server drains is up and not counted.
BudgetKept == Cardinality(live) <= MaxLive
=============================================================================
