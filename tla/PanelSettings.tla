----------------------------- MODULE PanelSettings -----------------------------
(***************************************************************************)
(* Server settings: a request of the panel pins the setting to its Pelican *)
(* variable, if it has one, and then rewrites the INI file, which the boot *)
(* rewrites from the variables the container was started with              *)
(* (src/scripts/admin-http.py, admin_pelican.py, apply-config.sh).         *)
(*                                                                         *)
(* All settings here share one file.  How a line of it is found and        *)
(* replaced is IniMerge's matter; here the file gives each its value.      *)
(***************************************************************************)
EXTENDS Integers, FiniteSets

CONSTANTS
  Settings,     \* settings of one INI file
  Pinned,       \* those with an egg variable
  Texts,        \* strings, which are written in double quotes; others are numbers
  EmptyOk,      \* strings whose blank means something: empty_ok
  Editors,      \* requests that may be served at once
  SettingValues, \* values that every type accepts
  Unset,        \* no value: the game's default
  Cleared, Spaces, Quote, \* "", white space, a text with a double quote in it
  SettingFaults, \* bound: calls that fail
  SettingOps    \* bound: requests and restarts

ASSUME SettingAssumption ==
  /\ Pinned \cup Texts \subseteq Settings /\ EmptyOk \subseteq Pinned \cap Texts
  /\ {Unset, Cleared, Spaces, Quote} \cap SettingValues = {}
  /\ Cardinality({Unset, Cleared, Spaces, Quote}) = 4 /\ Unset \notin Editors
  /\ {SettingFaults, SettingOps} \subseteq Nat

VARIABLES
  inside,      \* the container runs: the panel serves
  iniFile,     \* the file: each setting's value
  eggVariable, \* Pelican: each pinned setting's variable
  containerEnv, \* the variables the container was started with
  editor,      \* what each request is doing
  commandLock, \* COMMAND_LOCK: the editor that holds it, or Unset
  settingFaults, settingOps,
  promised,    \* history: the value last answered as applied, while no other
               \* request has touched the setting since
  torn         \* history: the settings a file cut short by a crash has lost

settingDisk == <<iniFile, eggVariable, containerEnv>>
settingVars == <<inside, settingDisk, editor, commandLock, settingFaults, settingOps,
                 promised, torn>>

NoEdit == [at |-> "idle"]
Blank == [s \in Settings |-> Unset]

SettingInit ==
  /\ inside = TRUE
  /\ iniFile = Blank
  /\ eggVariable = [s \in Pinned |-> Unset] /\ containerEnv = eggVariable
  /\ editor = [e \in Editors |-> NoEdit] /\ commandLock = Unset
  /\ settingFaults = 0 /\ settingOps = 0
  /\ promised = Blank /\ torn = {}

SettingFault == settingFaults < SettingFaults /\ settingFaults' = settingFaults + 1
NoSettingFault == UNCHANGED settingFaults
SettingOp == settingOps < SettingOps /\ settingOps' = settingOps + 1
Edit(e, step) == editor' = [editor EXCEPT ![e] = step]

-----------------------------------------------------------------------------
(* PUT /api/settings                                                       *)

\* blank_submission_error: white space is no way to clear a setting whose blank
\* means something.
BlankRefused(s, text) == s \in EmptyOk /\ text = Spaces

\* normalize_value strips, and a number must be one.
Normal(text) == IF text = Spaces THEN Cleared ELSE text
Normalizes(s, text) == s \in Texts \/ text \in SettingValues

\* A value that is refused changes nothing.  Two requests for one setting are no
\* longer alone.
Submit(e) ==
  /\ inside /\ editor[e] = NoEdit /\ SettingOp
  /\ \E s \in Settings, text \in SettingValues \cup {Cleared, Spaces, Quote} :
       LET others == {d \in Editors : editor[d] # NoEdit /\ editor[d].setting = s} IN
       /\ ~BlankRefused(s, text) /\ Normalizes(s, text)
       /\ editor' = [d \in Editors |->
            IF d = e THEN [at |-> IF s \in Pinned THEN "pin" ELSE "lock", setting |-> s,
                           value |-> Normal(text), text |-> Blank, alone |-> others = {}]
            ELSE IF d \in others THEN [editor[d] EXCEPT !.alone = FALSE] ELSE editor[d]]
       /\ promised' = [promised EXCEPT ![s] = Unset]
  /\ UNCHANGED <<inside, settingDisk, commandLock, settingFaults, torn>>

\* Broken form for AppliedSurvives: the request goes on when the panel refuses.
PinOrGoOn(e) ==
  /\ editor[e].at = "pin"
  /\ Edit(e, [editor[e] EXCEPT !.at = "lock"])
  /\ \/ /\ eggVariable' = [eggVariable EXCEPT ![editor[e].setting] = editor[e].value]
        /\ NoSettingFault
     \/ SettingFault /\ UNCHANGED eggVariable
  /\ UNCHANGED <<inside, iniFile, containerEnv, commandLock, settingOps, promised, torn>>

\* pin_setting_to_egg: the panel takes the value, refuses it, or takes it and its
\* answer is lost; only in the first case the request goes on.
PinVariable(e) ==
  LET take == eggVariable' = [eggVariable EXCEPT ![editor[e].setting] = editor[e].value] IN
  /\ editor[e].at = "pin"
  /\ \/ take /\ Edit(e, [editor[e] EXCEPT !.at = "lock"]) /\ NoSettingFault
     \/ SettingFault /\ Edit(e, NoEdit) /\ take
     \/ SettingFault /\ Edit(e, NoEdit) /\ UNCHANGED eggVariable
  /\ UNCHANGED <<inside, iniFile, containerEnv, commandLock, settingOps, promised, torn>>

\* write_setting refuses what no quoted line can hold, when the variable has it
\* already; it takes the lock and reads the file, and a missing file is an error.
LockAndRead(e) ==
  /\ editor[e].at = "lock" /\ commandLock = Unset
  /\ \/ /\ editor[e].value = Quote /\ Edit(e, NoEdit)
        /\ NoSettingFault /\ UNCHANGED commandLock
     \/ /\ editor[e].value # Quote
        /\ commandLock' = e
        /\ Edit(e, [editor[e] EXCEPT !.at = "open", !.text = iniFile])
        /\ NoSettingFault
     \/ SettingFault /\ Edit(e, NoEdit) /\ UNCHANGED commandLock
  /\ UNCHANGED <<inside, settingDisk, settingOps, promised, torn>>

\* open(path, "w") empties the file ...
OpenForWriting(e) ==
  /\ editor[e].at = "open"
  /\ iniFile' = Blank
  /\ Edit(e, [editor[e] EXCEPT !.at = "write"])
  /\ UNCHANGED <<inside, eggVariable, containerEnv, commandLock, settingFaults, settingOps,
                 promised, torn>>

\* ... and the text read before, with the setting replaced, is written.
WriteText(e) ==
  LET s == editor[e].setting IN
  /\ editor[e].at = "write"
  /\ iniFile' = [editor[e].text EXCEPT ![s] = editor[e].value]
  /\ commandLock' = Unset /\ Edit(e, NoEdit)
  /\ promised' = IF editor[e].alone THEN [promised EXCEPT ![s] = editor[e].value] ELSE promised
  /\ torn' = torn \ {s}
  /\ UNCHANGED <<inside, eggVariable, containerEnv, settingFaults, settingOps>>

-----------------------------------------------------------------------------
(* The container and Pelican                                               *)

\* The panel, or the container with it, dies or is stopped.
PanelDies ==
  /\ inside /\ SettingOp
  /\ inside' \in BOOLEAN
  /\ editor' = [e \in Editors |-> NoEdit] /\ commandLock' = Unset
  /\ torn' = IF \E e \in Editors : editor[e].at = "write" THEN Settings ELSE torn
  /\ UNCHANGED <<settingDisk, settingFaults, promised>>

\* env_value_to_apply, and apply-config.sh's own refusal of a double quote.
AppliedAtBoot(s) ==
  /\ eggVariable[s] \notin {Unset, Quote}
  /\ eggVariable[s] = Cleared => s \in EmptyOk

\* A start of the container, which captures the variables, and apply-config.sh.
BootContainer ==
  LET applied == {s \in Pinned : AppliedAtBoot(s)} IN
  /\ ~inside /\ inside' = TRUE
  /\ containerEnv' = eggVariable
  /\ iniFile' = [s \in Settings |-> IF s \in applied THEN eggVariable[s] ELSE iniFile[s]]
  /\ torn' = torn \ applied
  /\ UNCHANGED <<eggVariable, editor, commandLock, settingFaults, settingOps, promised>>

\* The operator changes a variable in Pelican.
EditVariable(s) ==
  /\ SettingOp
  /\ \E v \in SettingValues \cup {Cleared, Quote} : eggVariable' = [eggVariable EXCEPT ![s] = v]
  /\ promised' = [promised EXCEPT ![s] = Unset]
  /\ editor' = [e \in Editors |-> IF editor[e] # NoEdit /\ editor[e].setting = s
                                  THEN [editor[e] EXCEPT !.alone = FALSE] ELSE editor[e]]
  /\ UNCHANGED <<inside, iniFile, containerEnv, commandLock, settingFaults, torn>>

SettingNext ==
  \/ \E e \in Editors :
       Submit(e) \/ PinVariable(e) \/ LockAndRead(e) \/ OpenForWriting(e) \/ WriteText(e)
  \/ PanelDies \/ BootContainer
  \/ \E s \in Pinned : EditVariable(s)

SettingSpec == SettingInit /\ [][SettingNext]_settingVars

-----------------------------------------------------------------------------
(* Properties                                                              *)

\* Type invariant; the lock is held by one who is rewriting the file.
SettingTypeOK ==
  /\ {iniFile, promised} \subseteq [Settings -> SettingValues \cup {Unset, Cleared}]
  /\ {eggVariable, containerEnv} \subseteq
       [Pinned -> SettingValues \cup {Unset, Cleared, Quote}]
  /\ torn \subseteq Settings
  /\ \A e \in Editors : editor[e].at \in {"open", "write"} <=> commandLock = e

\* What was answered as applied is what the file says, after any restart too: a
\* boot does not undo it, nor does another request that rewrites the same file,
\* whatever fails in between; until somebody changes that setting again, and
\* unless a crash cut the file.
AppliedSurvives ==
  \A s \in Settings :
    inside /\ promised[s] # Unset /\ s \notin torn /\ (\A e \in Editors : editor[e].at # "write")
      => iniFile[s] = promised[s]
=============================================================================
