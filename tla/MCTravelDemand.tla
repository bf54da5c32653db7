--------------------------- MODULE MCTravelDemand ---------------------------
(***************************************************************************)
(* Three instances of TravelDemand for TLC, one of which each behaviour is *)
(* of: "room", where two on-demand maps compete for one place and queries, *)
(* starts and servers fail; "story", where one of them plays a story and   *)
(* others write replicas; and "trims", where the Director's log is cut.    *)
(***************************************************************************)
EXTENDS TravelDemand

CONSTANT StoryMap   \* the on-demand map of "story"

VARIABLE focus   \* the instance

Room == INSTANCE TravelDemand WITH
  StoryMaps <- {}, Visited <- {StoryMap}, TravelOps <- 0, LogTrims <- 0
Story == INSTANCE TravelDemand WITH
  StoryMaps <- {StoryMap}, Visited <- {StoryMap}, TravelFaults <- 0, LogTrims <- 0
Trims == INSTANCE TravelDemand WITH
  StoryMaps <- {}, Visited <- {}, TravelFaults <- 0, TravelOps <- 0

DemandInit ==
  \/ focus = "room" /\ Room!TravelInit
  \/ focus = "story" /\ Story!TravelInit
  \/ focus = "trims" /\ Trims!TravelInit

\* But for "room", nobody asks for any other on-demand map or raises it.
OneMap == asked' \cup up' \subseteq {StoryMap} \cup Warm

DemandNext ==
  /\ \/ focus = "room" /\ Room!TravelNext
     \/ focus = "story" /\ Story!TravelNext /\ OneMap
     \/ focus = "trims" /\ Trims!TravelNext /\ OneMap
  /\ UNCHANGED focus

DemandSpec == DemandInit /\ [][DemandNext]_<<focus, travelVars>>
=============================================================================
