------------------------------ MODULE MCPanel --------------------------------
(***************************************************************************)
(* The programs that run beside the spawner, for TLC: what the panel hands *)
(* out, keeps and schedules, and how mock-k8s keeps its instances on disk. *)
(* These parts share no state that the modules tell apart, so each         *)
(* behaviour of this specification runs one of them, chosen at the start,  *)
(* and the others stay as they are.                                        *)
(***************************************************************************)
EXTENDS Ledger, DimPool, Scheduler, EventEngine, BattlePass, Welcome,
        ChatCommands, MarketBot, PanelSessions, PanelSettings, IniMerge, Certificates, WorldReset

\* The rewards an event may have: none, intel and items, items only.
SomeRewards == {<<>>, <<"currency", "items">>, <<"items">>}

VARIABLE focus   \* the part that runs

loopVars == <<vars, dimVars, schedVars>>
panelVars == <<focus, loopVars, eventVars, bpVars, welcomeVars, chatVars, marketVars, sessVars,
               settingVars, iniVars, certVars, resetVars>>

Parts == {"instances", "dims", "schedule", "events", "pass", "kits", "chat", "market", "sessions",
          "settings", "ini", "certificate", "reset"}

\* A part that does not run has one initial state.
PanelInit ==
  /\ focus \in Parts
  /\ Init /\ DimInit
  /\ SchedInit /\ (focus # "schedule" => conf = {"restart"})
  /\ EventInit
  /\ focus # "events" => \A e \in Events : kind[e] = "zone_race" /\ reward[e] = <<"items">>
  /\ BpInit /\ (focus # "pass" => ~bpConfig.past /\ ~bpConfig.auto /\ satisfied = {})
  /\ WelcomeInit /\ (focus # "kits" => kitActive = CHOOSE k \in Kits : TRUE)
  /\ ChatInit /\ (focus # "chat" => cooldown = Longest)
  /\ MarketInit /\ SessInit /\ SettingInit
  /\ IniInit /\ (focus # "ini" => ini = <<>>)
  /\ CertInit /\ ResetInit

loopsRest == <<eventVars, bpVars, welcomeVars, chatVars, marketVars, sessVars, settingVars,
               iniVars, certVars, resetVars>>

InstancesRun ==
  focus = "instances" /\ Next /\ UNCHANGED <<focus, dimVars, schedVars, loopsRest>>
DimsRun == focus = "dims" /\ DimNext /\ UNCHANGED <<focus, vars, schedVars, loopsRest>>
ScheduleRuns == focus = "schedule" /\ SchedNext /\ UNCHANGED <<focus, vars, dimVars, loopsRest>>

EventsRun ==
  /\ focus = "events" /\ EventNext
  /\ UNCHANGED <<focus, loopVars, bpVars, welcomeVars, chatVars, marketVars, sessVars, settingVars,
                 iniVars, certVars, resetVars>>

PassRuns ==
  /\ focus = "pass" /\ BpNext
  /\ UNCHANGED <<focus, loopVars, eventVars, welcomeVars, chatVars, marketVars, sessVars, settingVars,
                 iniVars, certVars, resetVars>>

KitsRun ==
  /\ focus = "kits" /\ WelcomeNext
  /\ UNCHANGED <<focus, loopVars, eventVars, bpVars, chatVars, marketVars, sessVars, settingVars,
                 iniVars, certVars, resetVars>>

ChatRuns ==
  /\ focus = "chat" /\ ChatNext
  /\ UNCHANGED <<focus, loopVars, eventVars, bpVars, welcomeVars, marketVars, sessVars, settingVars,
                 iniVars, certVars, resetVars>>

MarketRuns ==
  /\ focus = "market" /\ MarketNext
  /\ UNCHANGED <<focus, loopVars, eventVars, bpVars, welcomeVars, chatVars, sessVars, settingVars,
                 iniVars, certVars, resetVars>>

SessionsRun ==
  /\ focus = "sessions" /\ SessNext
  /\ UNCHANGED <<focus, loopVars, eventVars, bpVars, welcomeVars, chatVars, marketVars, settingVars,
                 iniVars, certVars, resetVars>>

SettingsRun ==
  /\ focus = "settings" /\ SettingNext
  /\ UNCHANGED <<focus, loopVars, eventVars, bpVars, welcomeVars, chatVars, marketVars, sessVars,
                 iniVars, certVars, resetVars>>

IniRuns ==
  /\ focus = "ini" /\ IniNext
  /\ UNCHANGED <<focus, loopVars, eventVars, bpVars, welcomeVars, chatVars, marketVars, sessVars,
                 settingVars, certVars, resetVars>>

CertificateRuns ==
  /\ focus = "certificate" /\ CertNext
  /\ UNCHANGED <<focus, loopVars, eventVars, bpVars, welcomeVars, chatVars, marketVars, sessVars,
                 settingVars, iniVars, resetVars>>

ResetRuns ==
  /\ focus = "reset" /\ ResetNext
  /\ UNCHANGED <<focus, loopVars, eventVars, bpVars, welcomeVars, chatVars, marketVars, sessVars,
                 settingVars, iniVars, certVars>>

PanelNext ==
  \/ InstancesRun \/ DimsRun \/ ScheduleRuns
  \/ EventsRun \/ PassRuns \/ KitsRun \/ ChatRuns \/ MarketRuns
  \/ SessionsRun \/ SettingsRun \/ IniRuns \/ CertificateRuns \/ ResetRuns

PanelSpec == PanelInit /\ [][PanelNext]_panelVars

\* Type invariant of all of them.
PanelTypeOK ==
  /\ TypeOK /\ DimTypeOK /\ SchedTypeOK
  /\ EventTypeOK /\ BpTypeOK /\ WelcomeTypeOK /\ ChatTypeOK /\ MarketTypeOK
  /\ SessTypeOK /\ SettingTypeOK /\ IniTypeOK /\ CertTypeOK /\ ResetTypeOK
=============================================================================
