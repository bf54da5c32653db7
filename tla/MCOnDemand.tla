----------------------------- MODULE MCOnDemand ------------------------------
(***************************************************************************)
(* The two programs that start a map for whoever travels to it and stop it *)
(* when nobody is there, for TLC: the panel's map scaler, and the travel   *)
(* watcher and idle reaper of mock-k8s. A server runs one or the other, so *)
(* each behaviour of this specification is of one of them, and the other   *)
(* stays as it is.                                                         *)
(***************************************************************************)
EXTENDS MapScaler, TravelDemand

VARIABLE focus   \* the program that runs

onDemandVars == <<focus, scalerVars, travelVars>>

OnDemandInit == focus \in {"panel", "mock-k8s"} /\ ScalerInit /\ TravelInit

PanelRuns == focus = "panel" /\ ScalerNext /\ UNCHANGED <<focus, travelVars>>
MockRuns == focus = "mock-k8s" /\ TravelNext /\ UNCHANGED <<focus, scalerVars>>

OnDemandSpec ==
  /\ OnDemandInit /\ [][PanelRuns \/ MockRuns]_onDemandVars
  /\ \/ focus = "panel" /\ ScalerFairness
     \/ focus = "mock-k8s" /\ TravelFairness

\* Type invariant of both.
OnDemandTypeOK == ScalerTypeOK /\ TravelTypeOK
=============================================================================
