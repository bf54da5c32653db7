------------------------------ MODULE PanelProofs ------------------------------
(***************************************************************************)
(* Five promises of the panel, for any number of requests and servers: a   *)
(* setting answered as applied stays applied (PanelSettings); a certificate*)
(* and its key always form a pair the listener can serve (Certificates);   *)
(* the pool of Deep Desert dimensions commands one start at a time, within *)
(* its limits, and drains only what has long been empty (DimPool); the     *)
(* login gate keeps its quota and a logout lasts (PanelSessions); a reset  *)
(* of the world, whatever fails and however often the boot is cut short,   *)
(* loses no world (WorldReset).                                            *)
(***************************************************************************)
EXTENDS PanelSettings, Certificates, DimPool, PanelSessions, WorldReset,
        NumberLemmas, SequenceTheorems, TLAPS

-----------------------------------------------------------------------------
(* Settings: the inductive invariant                                       *)

\* What a text may hold.
FileValues == SettingValues \cup {Unset, Cleared, Spaces, Quote}

\* The shape of a request.
Edits == [at : {"pin", "lock", "open", "write"}, setting : Settings, value : FileValues,
          text : [Settings -> FileValues], alone : BOOLEAN]
EditsOK == editor \in [Editors -> {NoEdit} \cup Edits]

\* The store's own shape.
StoreOK ==
  /\ iniFile \in [Settings -> FileValues] /\ promised \in [Settings -> FileValues]
  /\ eggVariable \in [Pinned -> FileValues]
  /\ ~inside => \A e \in Editors : editor[e] = NoEdit

\* Whoever rewrites the file holds the lock, and only he; while he has not emptied
\* it, the text he read is what the file says.
RewritesAlone ==
  /\ \A e \in Editors : editor[e].at \in {"open", "write"} <=> commandLock = e
  /\ commandLock \in Editors \cup {Unset}
  /\ \A e \in Editors : editor[e].at = "open" => editor[e].text = iniFile

\* Nothing is promised of a setting that a request is about, and a request is
\* alone when no other is about its setting.
AloneOnSetting ==
  \A e \in Editors : editor[e] # NoEdit =>
    /\ promised[editor[e].setting] = Unset
    /\ editor[e].alone =>
         /\ \A d \in Editors \ {e} : editor[d] # NoEdit => editor[d].setting # editor[e].setting
         /\ editor[e].at # "pin" /\ editor[e].setting \in Pinned
              => eggVariable[editor[e].setting] = editor[e].value

\* What is promised is in the variable, if there is one, and in the file, or in
\* the text that is about to be written to it.
PromiseKept ==
  \A s \in Settings : promised[s] # Unset =>
    /\ s \in Pinned => eggVariable[s] = promised[s]
    /\ s \notin torn =>
         /\ (\A e \in Editors : editor[e].at # "write") => iniFile[s] = promised[s]
         /\ \A e \in Editors : editor[e].at = "write" => editor[e].text[s] = promised[s]

SettingInv == EditsOK /\ StoreOK /\ RewritesAlone /\ AloneOnSetting /\ PromiseKept

\* The invariant holds at first.
LEMMA SettingInvInit == ASSUME SettingInit PROVE SettingInv
  BY SettingAssumption
  DEF SettingInit, SettingInv, EditsOK, Edits, StoreOK, RewritesAlone, AloneOnSetting, PromiseKept,
      NoEdit, Blank, FileValues, SettingAssumption

\* A request comes in: the others about its setting are no longer alone.
LEMMA SubmitStep ==
  ASSUME SettingInv, NEW e \in Editors, Submit(e)
  PROVE  SettingInv'
  <1> DEFINE Others(s) == {d \in Editors : editor[d] # NoEdit /\ editor[d].setting = s}
             Asked(s, text) ==
               [at |-> IF s \in Pinned THEN "pin" ELSE "lock", setting |-> s,
                value |-> Normal(text), text |-> Blank, alone |-> Others(s) = {}]
  <1>1. PICK s \in Settings, text \in SettingValues \cup {Cleared, Spaces, Quote} :
          /\ editor' = [d \in Editors |->
               IF d = e THEN Asked(s, text)
               ELSE IF d \in Others(s) THEN [editor[d] EXCEPT !.alone = FALSE] ELSE editor[d]]
          /\ promised' = [promised EXCEPT ![s] = Unset]
    BY DEF Submit
  <1>2. /\ editor[e] = NoEdit /\ inside
        /\ UNCHANGED <<inside, iniFile, eggVariable, commandLock, torn>>
    BY DEF Submit, settingDisk
  <1>3. Normal(text) \in FileValues /\ Blank \in [Settings -> FileValues]
    BY DEF Normal, FileValues, Blank
  <1>4. \A d \in Editors \ {e} :
          /\ editor'[d] = NoEdit <=> editor[d] = NoEdit
          /\ editor'[d].at = editor[d].at
          /\ editor[d] # NoEdit =>
               /\ editor'[d].setting = editor[d].setting /\ editor'[d].text = editor[d].text
               /\ editor'[d].value = editor[d].value
               /\ editor'[d].alone <=> editor[d].alone /\ editor[d].setting # s
    BY <1>1 DEF SettingInv, EditsOK, Edits, NoEdit
  <1>5. /\ editor'[e] = Asked(s, text) /\ editor'[e] # NoEdit
        /\ editor'[e].at \in {"pin", "lock"} /\ (s \in Pinned => editor'[e].at = "pin")
        /\ editor'[e].setting = s /\ (editor'[e].alone <=> Others(s) = {})
    BY <1>1 DEF NoEdit
  <1> HIDE DEF Asked
  <1>6. EditsOK'
    BY <1>1, <1>3, <1>5 DEF SettingInv, EditsOK, Edits, Asked, NoEdit
  <1>7. StoreOK'
    BY <1>1, <1>2 DEF SettingInv, StoreOK, FileValues
  <1>8. RewritesAlone'
    BY <1>2, <1>4, <1>5 DEF SettingInv, RewritesAlone, NoEdit
  <1>9. AloneOnSetting'
    BY <1>1, <1>2, <1>4, <1>5 DEF SettingInv, StoreOK, AloneOnSetting, EditsOK, Edits, NoEdit
  <1>10. PromiseKept'
    BY <1>1, <1>2, <1>4, <1>5 DEF SettingInv, StoreOK, PromiseKept, EditsOK, Edits, NoEdit
  <1> QED
    BY <1>6, <1>7, <1>8, <1>9, <1>10 DEF SettingInv

\* The variable is set, or not; the request goes on, or is answered with an error.
LEMMA PinStep ==
  ASSUME SettingInv, NEW e \in Editors, PinVariable(e)
  PROVE  SettingInv'
  <1> DEFINE s == editor[e].setting
  <1>1. /\ editor[e].at = "pin" /\ editor[e] # NoEdit
        /\ UNCHANGED <<inside, iniFile, commandLock, promised, torn>>
        /\ \/ /\ eggVariable' = [eggVariable EXCEPT ![s] = editor[e].value]
              /\ editor' = [editor EXCEPT ![e].at = "lock"]
           \/ /\ eggVariable' \in {eggVariable, [eggVariable EXCEPT ![s] = editor[e].value]}
              /\ editor' = [editor EXCEPT ![e] = NoEdit]
    BY DEF PinVariable, Edit, NoEdit, SettingInv, EditsOK, Edits
  <1>2. /\ \A d \in Editors \ {e} : editor'[d] = editor[d]
        /\ \/ editor'[e] = NoEdit
           \/ /\ editor'[e] = [editor[e] EXCEPT !.at = "lock"]
              /\ eggVariable' = [eggVariable EXCEPT ![s] = editor[e].value]
    BY <1>1 DEF SettingInv, EditsOK, Edits
  <1>3. /\ editor[e].value \in FileValues /\ s \in Settings
        /\ editor'[e].at \in {"idle", "lock"}
        /\ editor'[e] # NoEdit => editor'[e].setting = s /\ editor'[e].value = editor[e].value
                                  /\ editor'[e].alone = editor[e].alone
    BY <1>1, <1>2 DEF SettingInv, EditsOK, Edits, NoEdit
  <1>4. EditsOK'
    BY <1>1 DEF SettingInv, EditsOK, Edits, NoEdit
  <1>5. StoreOK'
    BY <1>1, <1>2, <1>3 DEF SettingInv, StoreOK
  <1>6. RewritesAlone'
    BY <1>1, <1>2, <1>3 DEF SettingInv, RewritesAlone
  <1>7. \A t \in Pinned : t # s => eggVariable'[t] = eggVariable[t]
    BY <1>1 DEF SettingInv, StoreOK
  <1>8. s \in Pinned /\ editor'[e] # NoEdit => eggVariable'[s] = editor[e].value
    BY <1>1, <1>2 DEF SettingInv, StoreOK
  <1>9. AloneOnSetting'
    <2> SUFFICES ASSUME NEW d \in Editors, editor'[d] # NoEdit
                 PROVE  /\ promised'[editor'[d].setting] = Unset
                        /\ editor'[d].alone =>
                             /\ \A c \in Editors \ {d} :
                                  editor'[c] # NoEdit => editor'[c].setting # editor'[d].setting
                             /\ editor'[d].at # "pin" /\ editor'[d].setting \in Pinned
                                  => eggVariable'[editor'[d].setting] = editor'[d].value
      BY DEF AloneOnSetting
    <2>1. CASE d = e
      BY <1>1, <1>2, <1>3, <1>8, <2>1 DEF SettingInv, AloneOnSetting
    <2>2. CASE d # e
      BY <1>1, <1>2, <1>3, <1>7, <2>2 DEF SettingInv, AloneOnSetting
    <2> QED
      BY <2>1, <2>2
  <1>10. PromiseKept'
    BY <1>1, <1>2, <1>3, <1>7 DEF SettingInv, PromiseKept, AloneOnSetting
  <1> QED
    BY <1>4, <1>5, <1>6, <1>9, <1>10 DEF SettingInv

\* write_setting comes to the lock: refused, or the file is read under it.
LEMMA LockStep ==
  ASSUME SettingInv, NEW e \in Editors, LockAndRead(e)
  PROVE  SettingInv'
  <1>1. /\ editor[e].at = "lock" /\ editor[e] # NoEdit /\ commandLock = Unset
        /\ UNCHANGED <<inside, iniFile, eggVariable, promised, torn>>
        /\ \/ editor' = [editor EXCEPT ![e] = NoEdit] /\ UNCHANGED commandLock
           \/ /\ editor' = [editor EXCEPT ![e] = [editor[e] EXCEPT !.at = "open", !.text = iniFile]]
              /\ commandLock' = e
    BY DEF LockAndRead, Edit, NoEdit, settingDisk
  <1>2. /\ \A d \in Editors \ {e} : editor'[d] = editor[d]
        /\ \/ editor'[e] = NoEdit /\ UNCHANGED commandLock
           \/ /\ editor'[e] = [editor[e] EXCEPT !.at = "open", !.text = iniFile]
              /\ commandLock' = e
    BY <1>1 DEF SettingInv, EditsOK, Edits
  <1>3. /\ editor[e] \in Edits
        /\ iniFile \in [Settings -> FileValues]
    BY <1>1 DEF SettingInv, EditsOK, Edits, StoreOK
  <1>4. editor'[e] # NoEdit =>
          /\ editor'[e].at = "open" /\ editor'[e].text = iniFile
          /\ editor'[e].setting = editor[e].setting /\ editor'[e].value = editor[e].value
          /\ editor'[e].alone = editor[e].alone
    BY <1>2, <1>3 DEF Edits
  <1>5. editor'[e].at \in {"idle", "open"}
    BY <1>2, <1>4 DEF NoEdit
  <1>6. EditsOK'
    <2>1. [editor[e] EXCEPT !.at = "open", !.text = iniFile] \in Edits
      BY <1>3 DEF Edits
    <2> QED
      BY <1>1, <2>1 DEF SettingInv, EditsOK, Edits
  <1>7. StoreOK'
    BY <1>1, <1>2 DEF SettingInv, StoreOK
  <1>8. RewritesAlone'
    <2>1. \A d \in Editors : editor[d].at \notin {"open", "write"}
      BY <1>1, SettingAssumption DEF SettingInv, RewritesAlone, SettingAssumption
    <2>2. \/ editor'[e] = NoEdit /\ editor'[e].at = "idle" /\ commandLock' = Unset
          \/ editor'[e].at = "open" /\ editor'[e].text = iniFile /\ commandLock' = e
      <3>1. CASE editor'[e] = NoEdit /\ UNCHANGED commandLock
        BY <1>1, <3>1 DEF NoEdit
      <3>2. CASE /\ editor'[e] = [editor[e] EXCEPT !.at = "open", !.text = iniFile]
                 /\ commandLock' = e
        BY <1>3, <3>2
      <3> QED
        BY <1>2, <3>1, <3>2
    <2>3. CASE editor'[e] = NoEdit /\ editor'[e].at = "idle" /\ commandLock' = Unset
      BY <1>1, <1>2, <2>1, <2>2, <2>3, SettingAssumption DEF RewritesAlone, SettingAssumption
    <2>4. CASE editor'[e].at = "open" /\ editor'[e].text = iniFile /\ commandLock' = e
      <3>1. \A d \in Editors : editor'[d].at \in {"open", "write"} <=> d = e
        BY <1>2, <2>1, <2>4
      <3>2. \A d \in Editors : editor'[d].at = "open" => editor'[d].text = iniFile'
        BY <1>1, <1>2, <2>1, <2>4
      <3> QED
        BY <2>4, <3>1, <3>2 DEF RewritesAlone
    <2> QED
      BY <2>2, <2>3, <2>4
  <1>9. AloneOnSetting'
    <2> SUFFICES ASSUME NEW d \in Editors, editor'[d] # NoEdit
                 PROVE  /\ promised'[editor'[d].setting] = Unset
                        /\ editor'[d].alone =>
                             /\ \A c \in Editors \ {d} :
                                  editor'[c] # NoEdit => editor'[c].setting # editor'[d].setting
                             /\ editor'[d].at # "pin" /\ editor'[d].setting \in Pinned
                                  => eggVariable'[editor'[d].setting] = editor'[d].value
      BY DEF AloneOnSetting
    <2>1. CASE d = e
      BY <1>1, <1>2, <1>4, <2>1 DEF SettingInv, AloneOnSetting
    <2>2. CASE d # e
      BY <1>1, <1>2, <1>4, <2>2 DEF SettingInv, AloneOnSetting
    <2> QED
      BY <2>1, <2>2
  <1>10. PromiseKept'
    BY <1>1, <1>2, <1>5 DEF SettingInv, PromiseKept
  <1> QED
    BY <1>6, <1>7, <1>8, <1>9, <1>10 DEF SettingInv

\* The open and the write of the file.
LEMMA RewriteSteps ==
  ASSUME SettingInv, NEW e \in Editors, OpenForWriting(e) \/ WriteText(e)
  PROVE  SettingInv'
  <1> USE SettingAssumption
      DEF SettingInv, EditsOK, Edits, StoreOK, RewritesAlone, AloneOnSetting, PromiseKept, NoEdit,
          FileValues, SettingAssumption, Edit, settingDisk, Blank
  <1>1. CASE OpenForWriting(e)
    BY <1>1 DEF OpenForWriting
  <1>2. CASE WriteText(e)
    BY <1>2 DEF WriteText
  <1> QED
    BY <1>1, <1>2

\* The operator changes a variable: nobody is alone on its setting any more.
LEMMA EditVariableStep ==
  ASSUME SettingInv, NEW s \in Pinned, EditVariable(s)
  PROVE  SettingInv'
  <1>1. PICK v \in FileValues : eggVariable' = [eggVariable EXCEPT ![s] = v]
    BY DEF EditVariable, FileValues
  <1>2. /\ s \in Settings /\ promised' = [promised EXCEPT ![s] = Unset]
        /\ editor' = [e \in Editors |-> IF editor[e] # NoEdit /\ editor[e].setting = s
                                        THEN [editor[e] EXCEPT !.alone = FALSE] ELSE editor[e]]
        /\ UNCHANGED <<inside, iniFile, commandLock, torn>>
    BY SettingAssumption DEF EditVariable, SettingAssumption
  <1>3. \A d \in Editors : editor[d] # NoEdit => editor[d] \in Edits
    BY DEF SettingInv, EditsOK, Edits
  <1>4. \A d \in Editors :
          /\ editor'[d] = NoEdit <=> editor[d] = NoEdit
          /\ editor[d] = NoEdit => editor'[d] = editor[d]
          /\ editor[d] # NoEdit =>
               /\ editor'[d] \in Edits /\ editor'[d].at = editor[d].at
               /\ editor'[d].setting = editor[d].setting
               /\ editor'[d].value = editor[d].value /\ editor'[d].text = editor[d].text
               /\ editor'[d].alone => editor[d].alone /\ editor[d].setting # s
    <2> SUFFICES ASSUME NEW d \in Editors
                 PROVE  /\ editor'[d] = NoEdit <=> editor[d] = NoEdit
                        /\ editor[d] = NoEdit => editor'[d] = editor[d]
                        /\ editor[d] # NoEdit =>
                             /\ editor'[d] \in Edits /\ editor'[d].at = editor[d].at
                             /\ editor'[d].setting = editor[d].setting
                             /\ editor'[d].value = editor[d].value
                             /\ editor'[d].text = editor[d].text
                             /\ editor'[d].alone => editor[d].alone /\ editor[d].setting # s
      OBVIOUS
    <2>1. CASE editor[d] # NoEdit /\ editor[d].setting = s
      BY <1>2, <1>3, <2>1 DEF NoEdit, Edits
    <2>2. CASE ~(editor[d] # NoEdit /\ editor[d].setting = s)
      BY <1>2, <1>3, <2>2
    <2> QED
      BY <2>1, <2>2
  <1>5. \A d \in Editors : editor'[d].at = editor[d].at
    BY <1>4
  <1>6. /\ \A t \in Pinned \ {s} : eggVariable'[t] = eggVariable[t]
        /\ eggVariable' \in [Pinned -> FileValues] /\ promised' \in [Settings -> FileValues]
        /\ promised'[s] = Unset
        /\ \A t \in Settings \ {s} : promised'[t] = promised[t]
    BY <1>1, <1>2 DEF SettingInv, StoreOK, FileValues
  <1>7. EditsOK'
    BY <1>2, <1>4 DEF EditsOK, Edits
  <1>8. StoreOK'
    BY <1>2, <1>4, <1>6 DEF SettingInv, StoreOK
  <1>9. RewritesAlone'
    <2>1. \A d \in Editors : editor[d].at = "open" => editor[d] # NoEdit
      BY DEF NoEdit
    <2> QED
      BY <1>2, <1>4, <1>5, <2>1 DEF SettingInv, RewritesAlone
  <1>10. AloneOnSetting'
    BY <1>3, <1>4, <1>5, <1>6 DEF SettingInv, AloneOnSetting, Edits
  <1>11. PromiseKept'
    <2>1. \A d \in Editors : editor[d].at = "write" => editor'[d].text = editor[d].text
      BY <1>4 DEF NoEdit
    <2> QED
      BY <1>2, <1>5, <1>6, <2>1 DEF SettingInv, PromiseKept
  <1> QED
    BY <1>7, <1>8, <1>9, <1>10, <1>11 DEF SettingInv

\* Stops and boots.
LEMMA HostSteps ==
  ASSUME SettingInv, PanelDies \/ BootContainer
  PROVE  SettingInv'
  <1> USE SettingAssumption
      DEF SettingInv, EditsOK, Edits, StoreOK, RewritesAlone, AloneOnSetting, PromiseKept, NoEdit,
          FileValues, SettingAssumption, SettingOp, settingDisk
  <1>1. CASE PanelDies
    BY <1>1 DEF PanelDies
  <1>2. CASE BootContainer
    BY <1>2 DEF BootContainer, AppliedAtBoot
  <1> QED
    BY <1>1, <1>2

\* Every reachable state of the settings has it.
LEMMA SettingInvariant == SettingSpec => []SettingInv
  <1>1. SettingInit => SettingInv
    BY SettingInvInit
  <1>2. SettingInv /\ [SettingNext]_settingVars => SettingInv'
    <2> SUFFICES ASSUME SettingInv, [SettingNext]_settingVars PROVE SettingInv'
      OBVIOUS
    <2>1. CASE \E e \in Editors :
                 Submit(e) \/ PinVariable(e) \/ LockAndRead(e) \/ OpenForWriting(e) \/ WriteText(e)
      BY <2>1, SubmitStep, PinStep, LockStep, RewriteSteps
    <2>2. CASE PanelDies \/ BootContainer \/ \E s \in Pinned : EditVariable(s)
      BY <2>2, HostSteps, EditVariableStep
    <2>3. CASE UNCHANGED settingVars
      BY <2>3 DEF SettingInv, EditsOK, Edits, StoreOK, RewritesAlone, AloneOnSetting, PromiseKept,
                  settingVars, settingDisk
    <2> QED
      BY <2>1, <2>2, <2>3 DEF SettingNext
  <1> QED
    BY <1>1, <1>2, PTL DEF SettingSpec

\* What was answered as applied stays applied, for any requests, refusals, stops
\* and boots (AppliedSurvives).
THEOREM AppliedAlways == SettingSpec => []AppliedSurvives
  <1>1. SettingInv => AppliedSurvives
    BY DEF SettingInv, PromiseKept, AppliedSurvives
  <1> QED
    BY <1>1, SettingInvariant, PTL

-----------------------------------------------------------------------------
(* The certificate: the inductive invariant                               *)

\* The shape of an order: it carries a chain from its issue to its end.
OrderOK ==
  order \in [at : {"none"}]
      \cup [at : {"key", "fillKey", "order", "publish", "visible", "validate", "finalize",
                  "withdrawFailed", "end"}, id : Nat]
      \cup [at : {"withdraw", "write", "end"}, id : Nat, chain : [key : Int, order : Nat]]

\* A key is made once, before there is a certificate; an order that has passed it
\* finds a whole one on disk, and its chain is for that key.
KeysOK ==
  /\ keys \in Nat /\ orders \in Nat /\ keyFile \in Int
  /\ keyFile \in {NoKey, TornKey} => certFile = NoCert
  /\ order.at = "fillKey" => certFile = NoCert /\ keys > 0
  /\ order.at \in {"order", "publish", "visible", "validate", "finalize", "withdraw", "write"}
       => keyFile \notin {NoKey, TornKey}
  /\ order.at \in {"withdraw", "write"} => order.chain.key = keyFile

\* An order that has not published yet, or has withdrawn, leaves nothing behind.
RecordsOK ==
  order.at \notin {"visible", "validate", "finalize", "withdraw", "withdrawFailed"}
    => records \subseteq orphans

CertInv == OrderOK /\ KeysOK /\ RecordsOK /\ CertSafe

\* The invariant holds at first.
LEMMA CertInvInit == ASSUME CertInit PROVE CertInv
  BY DEF CertInit, CertInv, OrderOK, KeysOK, RecordsOK, CertSafe, ServesItsKey,
         NoStaleRecord, NoOrder, NoCert, NoKey, TornKey

\* The steps of a renewal up to its key.
LEMMA KeySteps ==
  ASSUME CertInv, BeginRenewal \/ GenerateKey \/ FillKey \/ UseKey
  PROVE  CertInv'
  <1> USE DEF CertInv, OrderOK, KeysOK, RecordsOK, CertSafe, ServesItsKey, NoStaleRecord,
              NoOrder, NoCert, NoKey, TornKey, Fits, OrderAt, OrderTo, panelTls, certFiles
  <1>1. CASE BeginRenewal
    BY <1>1 DEF BeginRenewal
  <1>2. CASE GenerateKey
    BY <1>2 DEF GenerateKey
  <1>3. CASE FillKey
    BY <1>3 DEF FillKey
  <1>4. CASE UseKey
    BY <1>4 DEF UseKey
  <1> QED
    BY <1>1, <1>2, <1>3, <1>4

\* The order itself, from its creation to the chain.
LEMMA OrderSteps ==
  ASSUME CertInv,
         CreateOrder \/ PublishRecord \/ AwaitVisible \/ AwaitValidation \/ Finalize
  PROVE  CertInv'
  <1> USE DEF CertInv, OrderOK, KeysOK, RecordsOK, CertSafe, ServesItsKey, NoStaleRecord,
              NoOrder, NoCert, NoKey, TornKey, Fits, OrderAt, OrderTo, panelTls, certFiles
  <1>1. CASE CreateOrder
    BY <1>1 DEF CreateOrder
  <1>2. CASE PublishRecord
    BY <1>2 DEF PublishRecord
  <1>3. CASE AwaitVisible
    BY <1>3 DEF AwaitVisible
  <1>4. CASE AwaitValidation
    BY <1>4 DEF AwaitValidation
  <1>5. CASE Finalize
    BY <1>5 DEF Finalize
  <1> QED
    BY <1>1, <1>2, <1>3, <1>4, <1>5

\* Its end: the record goes, the file is replaced.
LEMMA LastSteps ==
  ASSUME CertInv, Withdraw \/ WriteCert \/ EndRenewal
  PROVE  CertInv'
  <1> USE DEF CertInv, OrderOK, KeysOK, RecordsOK, CertSafe, ServesItsKey, NoStaleRecord,
              NoOrder, NoCert, NoKey, TornKey, Fits, OrderAt, OrderTo, panelTls, certFiles
  <1>1. CASE Withdraw
    BY <1>1 DEF Withdraw
  <1>2. CASE WriteCert
    BY <1>2 DEF WriteCert
  <1>3. CASE EndRenewal
    BY <1>3 DEF EndRenewal
  <1> QED
    BY <1>1, <1>2, <1>3

\* The panel and the container, which may stop at any of these.
LEMMA PanelSteps ==
  ASSUME CertInv, StartPanel \/ Reload \/ CertAges \/ ContainerRestarts
  PROVE  CertInv'
  <1> USE DEF CertInv, OrderOK, KeysOK, RecordsOK, CertSafe, ServesItsKey, NoStaleRecord,
              NoOrder, NoCert, NoKey, TornKey, Fits, panelTls, certFiles
  <1>1. CASE StartPanel
    BY <1>1 DEF StartPanel
  <1>2. CASE Reload
    BY <1>2 DEF Reload
  <1>3. CASE CertAges
    BY <1>3 DEF CertAges
  <1>4. CASE ContainerRestarts
    BY <1>4 DEF ContainerRestarts
  <1> QED
    BY <1>1, <1>2, <1>3, <1>4

-----------------------------------------------------------------------------
(* The theorem                                                             *)

\* Every reachable state of the certificate has it.
LEMMA CertInvariant == CertSpec => []CertInv
<1>1. CertInit => CertInv
  BY CertInvInit
<1>2. CertInv /\ [CertNext]_certVars => CertInv'
  <2>1. ASSUME CertInv, CertNext PROVE CertInv'
    BY <2>1, KeySteps, OrderSteps, LastSteps, PanelSteps DEF CertNext
  <2>2. ASSUME CertInv, UNCHANGED certVars PROVE CertInv'
    BY <2>2
    DEF certVars, certFiles, panelTls, certBounds, CertInv, OrderOK, KeysOK, RecordsOK,
        CertSafe, ServesItsKey, NoStaleRecord, Fits
  <2> QED
    BY <2>1, <2>2
<1> QED
  BY <1>1, <1>2, PTL DEF CertSpec

\* Whatever step of a renewal fails or is cut short (generate_csr, issue,
\* renew_certificate), the certificate on disk is of the key on disk, the panel
\* holds a certificate with its own key, and only a failed or interrupted call
\* leaves a challenge record in the zone.
THEOREM RenewalSafe == CertSpec => []CertSafe
<1>1. CertInv => CertSafe
  BY DEF CertInv
<1> QED
  BY <1>1, CertInvariant, PTL

-----------------------------------------------------------------------------
(* The pool of dimensions: the inductive invariant                         *)

\* What a tick of the loop holds: the rows it read, and once it has decided, a
\* dimension to command.
DimTickOK ==
  /\ ddTick \in [at : {"rest", "decide", "act", "mark"},
                 rows : [Dims -> {Off} \cup 0..DimCrowd],
                 verb : {"hold", "spawn", "reap"}, dim : Dims \cup {NoDim}]
  /\ ddTick.at \in {"act", "mark"} => ddTick.dim \in Dims /\ ddTick.verb \in {"spawn", "reap"}
  /\ downCall \in Dims \cup {NoDim}

\* The cooldown is no older than the loop's last command, nor than any spawn script
\* the loop started; a command is only about to be given once it has passed, and it
\* was started again before.
CooldownOK ==
  /\ cmdAge \in 0..Cooldown
  /\ cmdAge < Cooldown => actAge # NoDim /\ actAge <= cmdAge
  /\ \A d \in Dims : script["loop"][d] # NoDim
                       => actAge # NoDim /\ actAge <= script["loop"][d]
  /\ ddTick.at = "act" => /\ actAge = 0 /\ cmdAge = Cooldown
                          /\ \A d \in Dims : script["loop"][d] = NoDim
  /\ ddTick.at = "mark" => actAge = 0

\* A drain timer is no older than the last decision that saw the dimension occupied
\* or not live; one about to be reaped was empty for a whole drain.
DrainsOK ==
  /\ seenAge \in [Dims -> 0..DrainAfter]
  /\ \A d \in Dims : emptyAge[d] # NoDim => emptyAge[d] <= seenAge[d]
  /\ ddTick.at = "act" /\ ddTick.verb = "reap" => seenAge[ddTick.dim] >= DrainAfter

PoolInv == DimTypeOK /\ DimTickOK /\ CooldownOK /\ DrainsOK

\* A function whose value at one place is replaced keeps its type.
LEMMA Replaced ==
  ASSUME NEW D, NEW R, NEW f \in [D -> R], NEW x, NEW v \in R
  PROVE  [f EXCEPT ![x] = v] \in [D -> R]
  OBVIOUS

\* What the assumptions say of the times.
LEMMA DimNumbers ==
  /\ Cooldown \in Nat \ {0} /\ DrainAfter \in Nat \ {0} /\ Window \in Nat /\ SpawnTime \in Nat
  /\ SpawnTime < Cooldown /\ DimCrowd \in Nat /\ NoDim \notin Int /\ Off \notin Int
  /\ Dims \subseteq Nat /\ IsFiniteSet(Dims)
  BY DimAssumption

\* A period makes an age one older, up to its limit.
LEMMA AgedByOne ==
  ASSUME NEW limit \in Nat, NEW age \in 0..limit
  PROVE  /\ Aged(age, limit) = IF age < limit THEN age + 1 ELSE limit
         /\ Aged(age, limit) \in 0..limit
  <1>1. age # NoDim /\ age + 1 \in Int /\ limit \in Int
    BY DimNumbers
  <1>2. Min({age + 1, limit}) = IF age + 1 <= limit THEN age + 1 ELSE limit
    BY <1>1, MinOfTwo
  <1>3. Aged(age, limit) = IF age < limit THEN age + 1 ELSE limit
    BY <1>1, <1>2 DEF Aged
  <1> QED
    BY <1>3

\* What does not run does not age.
LEMMA NoDimAges == ASSUME NEW limit PROVE Aged(NoDim, limit) = NoDim
  BY DEF Aged

\* decide_dimension_pool commands a dimension only when no cooldown runs; one that is
\* reaped has been empty for as long as its timer says.
LEMMA DecisionSound ==
  ASSUME NEW rows \in [Dims -> {Off} \cup 0..DimCrowd], NEW inFlight,
         emptyAge \in [Dims -> {NoDim} \cup 0..DrainAfter]
  PROVE  LET decision == DimDecision(rows, inFlight) IN
         \/ decision = [verb |-> "hold", dim |-> NoDim]
         \/ /\ decision.verb = "spawn" /\ decision.dim \in Dims /\ ~Cooling
            /\ decision = [verb |-> "spawn", dim |-> decision.dim]
         \/ /\ decision.verb = "reap" /\ decision.dim \in Dims /\ ~Cooling
            /\ decision = [verb |-> "reap", dim |-> decision.dim]
            /\ rows[decision.dim] = 0 /\ emptyAge[decision.dim] # NoDim
            /\ emptyAge[decision.dim] >= DrainAfter
  <1> DEFINE decision == DimDecision(rows, inFlight)
             offline == Dims \ LiveRows(rows)
             timers == EmptyTimers(rows)
             drained == {d \in LiveRows(rows) : timers[d] # NoDim /\ timers[d] >= DrainAfter}
  <1>1. offline # {} => Min(offline) \in Dims
    <2>1. offline \in SUBSET Nat
      BY DimNumbers
    <2> QED
      BY <2>1, MinOfNaturals
  <1>2. drained # {} => Max(drained) \in drained
    <2>1. drained \in SUBSET Dims
      BY DEF LiveRows
    <2> HIDE DEF drained
    <2>2. IsFiniteSet(drained)
      BY <2>1, DimNumbers, FS_Subset
    <2>3. drained \in SUBSET Int
      BY <2>1, DimNumbers
    <2> QED
      BY <2>2, <2>3, MaxOfSet
  <1>3. \A d \in drained : /\ d \in Dims /\ rows[d] = 0 /\ emptyAge[d] # NoDim
                           /\ emptyAge[d] >= DrainAfter
    BY DimNumbers DEF LiveRows, EmptyTimers
  <1>4. \/ decision = [verb |-> "hold", dim |-> NoDim]
        \/ offline # {} /\ ~Cooling /\ decision = [verb |-> "spawn", dim |-> Min(offline)]
        \/ drained # {} /\ ~Cooling /\ decision = [verb |-> "reap", dim |-> Max(drained)]
    <2> DEFINE blocked == inFlight # NoDim \/ Cooling
               wanted == \/ Cardinality(LiveRows(rows)) < FloorDims
                         \/ /\ LiveRows(rows) # {} /\ Cardinality(LiveRows(rows)) < CapDims
                            /\ PlayersOn(rows) >= PlayersPerDim * Cardinality(LiveRows(rows))
               spare == Cardinality(LiveRows(rows)) > FloorDims
    <2>1. decision = IF blocked THEN [verb |-> "hold", dim |-> NoDim]
                     ELSE IF offline # {} /\ wanted THEN [verb |-> "spawn", dim |-> Min(offline)]
                     ELSE IF spare /\ drained # {} THEN [verb |-> "reap", dim |-> Max(drained)]
                     ELSE [verb |-> "hold", dim |-> NoDim]
      BY DEF DimDecision
    <2> HIDE DEF decision, offline, drained, wanted, spare
    <2> QED
      BY <2>1
  <1> HIDE DEF offline, drained, decision
  <1>5. CASE offline # {} /\ ~Cooling /\ decision = [verb |-> "spawn", dim |-> Min(offline)]
    BY <1>1, <1>5 DEF decision
  <1>6. CASE drained # {} /\ ~Cooling /\ decision = [verb |-> "reap", dim |-> Max(drained)]
    BY <1>2, <1>3, <1>6 DEF decision
  <1> QED
    BY <1>4, <1>5, <1>6 DEF decision

\* The invariant holds when the loop first starts.
LEMMA PoolInvInit == ASSUME DimInit PROVE PoolInv
  BY DimNumbers
  DEF DimInit, PoolInv, DimTypeOK, DimTickOK, CooldownOK, DrainsOK, Resting, Starters

\* The tick: what it reads, a failure, a crash.
LEMMA PoolTickSteps ==
  ASSUME PoolInv, ReadRows \/ RowsUnreadable \/ CommandFails \/ LoopCrash
  PROVE  PoolInv'
  <1> USE DimNumbers DEF PoolInv
  <1>1. UNCHANGED <<dimWorld, dimLedger, downCall, dimHistory>>
    BY DEF ReadRows, RowsUnreadable, CommandFails, LoopCrash
  <1>2. /\ ddTick' \in [at : {"rest", "decide", "act", "mark"},
                        rows : [Dims -> {Off} \cup 0..DimCrowd],
                        verb : {"hold", "spawn", "reap"}, dim : Dims \cup {NoDim}]
        /\ ddTick'.at \in {"act", "mark"} => ddTick' = ddTick
    <2>1. CASE ReadRows
      <3> DEFINE rows == [d \in Dims |-> IF Alive(d) THEN players[d] ELSE Off]
      <3>1. rows \in [Dims -> {Off} \cup 0..DimCrowd]
        BY DEF DimTypeOK
      <3>2. ddTick' = [at |-> "decide", rows |-> rows, verb |-> "hold", dim |-> NoDim]
        BY <2>1 DEF ReadRows, Resting
      <3> HIDE DEF rows
      <3> QED
        BY <3>1, <3>2
    <2>2. CASE RowsUnreadable
      BY <2>2 DEF RowsUnreadable, DimTickOK
    <2>3. CASE CommandFails \/ LoopCrash
      BY <2>3 DEF CommandFails, LoopCrash, Resting
    <2> QED
      BY <2>1, <2>2, <2>3
  <1>3. DimTypeOK' /\ DimTickOK'
    BY <1>1, <1>2 DEF DimTypeOK, DimTickOK, dimWorld, dimLedger
  <1>4. CooldownOK' /\ DrainsOK'
    BY <1>1, <1>2 DEF CooldownOK, DrainsOK, dimWorld, dimLedger, dimHistory
  <1> QED
    BY <1>3, <1>4

\* The decision, with the timers it persists first.
LEMMA DecideStep == ASSUME PoolInv, DecideDims PROVE PoolInv'
  <1> USE DimNumbers DEF PoolInv
  <1> DEFINE rows == ddTick.rows
             over == spawnPid # NoDim /\ (rows[spawnPid] # Off \/ spawnAge > Window)
             inFlight == IF over THEN NoDim ELSE spawnPid
             decision == DimDecision(rows, inFlight)
  <1>1. /\ spawnPid' = inFlight /\ spawnAge' = IF over THEN NoDim ELSE spawnAge
        /\ emptyAge' = EmptyTimers(rows)
        /\ actAge' = IF decision.verb = "hold" THEN actAge ELSE 0
        /\ ddTick' = IF decision.verb = "hold" THEN Resting
                     ELSE [ddTick EXCEPT !.at = "act", !.verb = decision.verb, !.dim = decision.dim]
        /\ seenAge' = [d \in Dims |-> IF rows[d] = 0 THEN seenAge[d] ELSE 0]
        /\ UNCHANGED <<dimWorld, downCall, cmdAge>> /\ ddTick.at = "decide"
    BY DEF DecideDims
  <1>2. rows \in [Dims -> {Off} \cup 0..DimCrowd]
    BY DEF DimTickOK
  <1>3. \/ decision = [verb |-> "hold", dim |-> NoDim]
        \/ /\ decision.verb = "spawn" /\ decision.dim \in Dims /\ ~Cooling
        \/ /\ decision.verb = "reap" /\ decision.dim \in Dims /\ ~Cooling
           /\ rows[decision.dim] = 0 /\ emptyAge[decision.dim] # NoDim
           /\ emptyAge[decision.dim] >= DrainAfter
    <2> HIDE DEF rows, inFlight
    <2> QED
      BY <1>2, DecisionSound DEF DimTypeOK
  <1> HIDE DEF decision
  <1>4. DimTypeOK'
    <2>1. EmptyTimers(rows) \in [Dims -> {NoDim} \cup 0..DrainAfter]
      BY DEF EmptyTimers, DimTypeOK
    <2>2. spawnPid' \in {NoDim} \cup Dims /\ spawnAge' \in {NoDim} \cup 0..(Window + 1)
          /\ (spawnAge' = NoDim) = (spawnPid' = NoDim)
      BY <1>1 DEF DimTypeOK
    <2>3. ddTick'.at \in {"rest", "act"}
      BY <1>1 DEF DimTickOK, Resting
    <2>4. actAge' \in {NoDim} \cup 0..Cooldown
      BY <1>1 DEF DimTypeOK
    <2> HIDE DEF rows, over, inFlight
    <2> QED
      BY <1>1, <2>1, <2>2, <2>3, <2>4 DEF DimTypeOK, dimWorld
  <1>5. \A d \in Dims : /\ seenAge'[d] \in 0..DrainAfter
                        /\ emptyAge'[d] # NoDim => emptyAge'[d] <= seenAge'[d]
    BY <1>1 DEF EmptyTimers, DimTypeOK, DrainsOK
  <1>6. seenAge' \in [Dims -> 0..DrainAfter]
    BY <1>1, <1>5
  <1>7. CASE decision.verb = "hold"
    <2>1. ddTick' = Resting /\ actAge' = actAge /\ script' = script /\ cmdAge' = cmdAge
      BY <1>1, <1>7 DEF dimWorld
    <2>4. Resting \in [at : {"rest", "decide", "act", "mark"},
                       rows : [Dims -> {Off} \cup 0..DimCrowd],
                       verb : {"hold", "spawn", "reap"}, dim : Dims \cup {NoDim}]
          /\ Resting.at = "rest"
      BY DEF Resting
    <2>2. DimTickOK'
      BY <1>1, <2>1, <2>4 DEF DimTickOK
    <2>3. CooldownOK' /\ DrainsOK'
      BY <1>5, <1>6, <2>1, <2>4 DEF CooldownOK, DrainsOK
    <2> QED
      BY <1>4, <2>2, <2>3
  <1>8. CASE decision.verb # "hold"
    <2>1. /\ ddTick' = [ddTick EXCEPT !.at = "act", !.verb = decision.verb, !.dim = decision.dim]
          /\ actAge' = 0 /\ script' = script /\ cmdAge' = cmdAge
      BY <1>1, <1>8 DEF dimWorld
    <2>2. decision.dim \in Dims /\ decision.verb \in {"spawn", "reap"} /\ ~Cooling
      BY <1>3, <1>8
    <2>3. DimTickOK' /\ ddTick'.at = "act" /\ ddTick'.dim = decision.dim
          /\ ddTick'.verb = decision.verb
      BY <1>1, <2>1, <2>2 DEF DimTickOK
    <2>4. actAge = NoDim \/ actAge >= Cooldown
      BY <2>2 DEF Cooling, DimTypeOK
    <2>5. \A d \in Dims : script["loop"][d] \in {NoDim} \cup 0..SpawnTime
      BY DEF DimTypeOK, Starters
    <2>6. cmdAge = Cooldown /\ \A d \in Dims : script["loop"][d] = NoDim
      BY <2>4, <2>5 DEF CooldownOK, DimTypeOK
    <2>7. CooldownOK'
      BY <2>1, <2>3, <2>6 DEF CooldownOK
    <2>8. decision.verb = "reap" => seenAge'[decision.dim] >= DrainAfter
      <3> SUFFICES ASSUME decision.verb = "reap" PROVE seenAge'[decision.dim] >= DrainAfter
        OBVIOUS
      <3> DEFINE e == decision.dim
      <3> HIDE DEF rows
      <3>1. e \in Dims /\ rows[e] = 0 /\ emptyAge[e] # NoDim /\ emptyAge[e] >= DrainAfter
        BY <1>3
      <3> HIDE DEF e
      <3>2. seenAge'[e] = seenAge[e]
        BY <1>1, <3>1
      <3>3. emptyAge[e] \in 0..DrainAfter /\ seenAge[e] \in 0..DrainAfter
        BY <3>1 DEF DrainsOK, DimTypeOK
      <3>4. emptyAge[e] <= seenAge[e]
        BY <3>1 DEF DrainsOK
      <3>5. seenAge'[e] >= DrainAfter
        BY <3>1, <3>2, <3>3, <3>4
      <3> QED
        BY <3>5 DEF e
    <2>9. DrainsOK'
      BY <1>5, <1>6, <2>3, <2>8 DEF DrainsOK
    <2> QED
      BY <1>4, <2>3, <2>7, <2>9
  <1> QED
    BY <1>7, <1>8

\* The command, which starts the cooldown's clock for the history.
LEMMA CommandStep == ASSUME PoolInv, CommandDim PROVE PoolInv'
  <1> USE DimNumbers DEF PoolInv
  <1> DEFINE d == ddTick.dim
  <1>1. d \in Dims /\ actAge = 0 /\ ddTick.at = "act"
    BY DEF CommandDim, DimTickOK, CooldownOK
  <1>2. /\ ddTick' = [ddTick EXCEPT !.at = "mark"] /\ cmdAge' = 0
        /\ UNCHANGED <<dimLedger, downCall, seenAge>>
    BY DEF CommandDim
  <1>3. DimTickOK'
    BY <1>1, <1>2 DEF DimTickOK
  <1>4. ddTick'.at = "mark"
    BY <1>2 DEF DimTickOK
  <1>5. /\ script' \in [Starters -> [Dims -> {NoDim} \cup 0..SpawnTime]]
        /\ server' \in [Dims -> BOOLEAN] /\ bound' \in [Dims -> BOOLEAN]
        /\ players' \in [Dims -> 0..DimCrowd]
        /\ \A e \in Dims : script'["loop"][e] \in {script["loop"][e], 0}
    <2>1. CASE ddTick.verb = "spawn"
      <3>1. /\ UNCHANGED <<bound, players>> /\ server' = [server EXCEPT ![d] = @ \/ ~bound[d]]
            /\ script' = IF bound[d] THEN script ELSE [script EXCEPT !["loop"][d] = 0]
        BY <2>1 DEF CommandDim, StartSpawn
      <3>2. server' \in [Dims -> BOOLEAN]
        BY <3>1 DEF DimTypeOK
      <3>3. CASE bound[d]
        BY <3>1, <3>2, <3>3 DEF DimTypeOK
      <3>4. CASE ~bound[d]
        <4>1. script' = [script EXCEPT !["loop"] = [script["loop"] EXCEPT ![d] = 0]]
          BY <3>1, <3>4
        <4>2. script["loop"] \in [Dims -> {NoDim} \cup 0..SpawnTime]
          BY DEF DimTypeOK, Starters
        <4>3. [script["loop"] EXCEPT ![d] = 0] \in [Dims -> {NoDim} \cup 0..SpawnTime]
          <5>1. 0 \in {NoDim} \cup 0..SpawnTime
            OBVIOUS
          <5> QED
            BY <4>2, <5>1, Replaced
        <4> QED
          BY <1>1, <3>1, <3>2, <4>1, <4>2, <4>3 DEF DimTypeOK, Starters
      <3> QED
        BY <3>3, <3>4
    <2>2. CASE ddTick.verb # "spawn"
      <3>1. /\ script' = script /\ server' = [server EXCEPT ![d] = FALSE]
            /\ bound' = [bound EXCEPT ![d] = FALSE] /\ players' = [players EXCEPT ![d] = 0]
        BY <2>2 DEF CommandDim, TakeDown
      <3>2. server' \in [Dims -> BOOLEAN] /\ bound' \in [Dims -> BOOLEAN]
        BY <3>1, Replaced DEF DimTypeOK
      <3>3. players' \in [Dims -> 0..DimCrowd]
        <4>1. 0 \in 0..DimCrowd /\ players \in [Dims -> 0..DimCrowd]
          BY DEF DimTypeOK
        <4> QED
          BY <3>1, <4>1, Replaced
      <3> QED
        BY <3>1, <3>2, <3>3 DEF DimTypeOK
    <2> QED
      BY <2>1, <2>2
  <1>6. DimTypeOK'
    BY <1>2, <1>4, <1>5 DEF DimTypeOK, dimLedger
  <1>7. CooldownOK' /\ DrainsOK'
    BY <1>1, <1>2, <1>4, <1>5 DEF CooldownOK, DrainsOK, DimTypeOK, dimLedger
  <1> QED
    BY <1>3, <1>6, <1>7

\* What is recorded after the command.
LEMMA MarkStep == ASSUME PoolInv, MarkDim PROVE PoolInv'
  <1> USE DimNumbers DEF PoolInv
  <1>1. /\ ddTick.at = "mark" /\ ddTick' = Resting /\ ddTick.dim \in Dims
        /\ UNCHANGED <<dimWorld, actAge, downCall, dimHistory>>
    BY DEF MarkDim, DimTickOK
  <1>2. /\ emptyAge' \in [Dims -> {NoDim} \cup 0..DrainAfter]
        /\ \A d \in Dims : emptyAge'[d] \in {NoDim, emptyAge[d]}
        /\ spawnPid' \in {NoDim} \cup Dims /\ spawnAge' \in {NoDim} \cup 0..(Window + 1)
        /\ (spawnAge' = NoDim) = (spawnPid' = NoDim)
    <2>1. CASE ddTick.verb = "spawn"
      <3>1. spawnPid' = ddTick.dim /\ spawnAge' = 0 /\ emptyAge' = emptyAge
        BY <2>1 DEF MarkDim
      <3>2. 0 \in 0..(Window + 1) /\ ddTick.dim # NoDim /\ 0 # NoDim
        <4>1. 0 \in 0..(Window + 1) /\ 0 # NoDim
          OBVIOUS
        <4>2. \A e \in Dims : e # NoDim
          OBVIOUS
        <4> QED
          BY <1>1, <4>1, <4>2
      <3>3. spawnPid' \in {NoDim} \cup Dims /\ spawnAge' \in {NoDim} \cup 0..(Window + 1)
            /\ (spawnAge' = NoDim) = (spawnPid' = NoDim)
        BY <1>1, <3>1, <3>2
      <3>4. /\ emptyAge' \in [Dims -> {NoDim} \cup 0..DrainAfter]
            /\ \A d \in Dims : emptyAge'[d] \in {NoDim, emptyAge[d]}
        BY <3>1 DEF DimTypeOK
      <3> QED
        BY <3>3, <3>4
    <2>2. CASE ddTick.verb # "spawn"
      <3> DEFINE d == ddTick.dim
      <3>1. emptyAge' = [emptyAge EXCEPT ![d] = NoDim] /\ UNCHANGED <<spawnPid, spawnAge>>
        BY <2>2 DEF MarkDim
      <3>2. emptyAge' \in [Dims -> {NoDim} \cup 0..DrainAfter]
        <4>1. NoDim \in {NoDim} \cup 0..DrainAfter
              /\ emptyAge \in [Dims -> {NoDim} \cup 0..DrainAfter]
          BY DEF DimTypeOK
        <4> QED
          BY <3>1, <4>1, Replaced
      <3>3. \A e \in Dims : emptyAge'[e] \in {NoDim, emptyAge[e]}
        BY <3>1 DEF DimTypeOK
      <3> QED
        BY <3>1, <3>2, <3>3 DEF DimTypeOK
    <2> QED
      BY <2>1, <2>2
  <1>3. ddTick'.at = "rest" /\ DimTickOK'
    BY <1>1 DEF DimTickOK, Resting
  <1>4. DimTypeOK'
    BY <1>1, <1>2, <1>3 DEF DimTypeOK, dimWorld
  <1>5. CooldownOK' /\ DrainsOK'
    BY <1>1, <1>2, <1>3 DEF CooldownOK, DrainsOK, dimWorld, dimHistory
  <1> QED
    BY <1>3, <1>4, <1>5

\* The panel's routes, the scripts, the servers and the players leave the loop's
\* ledger alone, and start no script in the loop's name.
LEMMA WorldSteps ==
  ASSUME PoolInv,
         \/ PanelDown
         \/ \E d \in Dims : PanelUp(d) \/ PanelDownChecked(d) \/ SpawnDies(d) \/ PlayersMove(d)
         \/ \E w \in Starters, d \in Dims : SpawnEnds(w, d)
  PROVE  PoolInv'
  <1> USE DimNumbers DEF PoolInv
  <1>1. UNCHANGED <<dimLedger, ddTick, dimHistory>>
    BY DEF PanelDown, PanelUp, PanelDownChecked, SpawnDies, PlayersMove, SpawnEnds
  <1> DEFINE Scripts == [Dims -> {NoDim} \cup 0..SpawnTime]
             World == /\ script' \in [Starters -> Scripts]
                      /\ server' \in [Dims -> BOOLEAN] /\ bound' \in [Dims -> BOOLEAN]
                      /\ players' \in [Dims -> 0..DimCrowd]
                      /\ \A e \in Dims : script'["loop"][e] \in {script["loop"][e], NoDim}
                      /\ downCall' \in Dims \cup {NoDim}
  <1>3. ASSUME NEW d \in Dims, PanelUp(d) PROVE World
    <2>1. /\ UNCHANGED <<bound, players, downCall>> /\ server' = [server EXCEPT ![d] = @ \/ ~bound[d]]
          /\ script' = IF bound[d] THEN script ELSE [script EXCEPT !["panel"][d] = 0]
      BY <1>3 DEF PanelUp, StartSpawn
    <2>2. server' \in [Dims -> BOOLEAN]
      BY <2>1 DEF DimTypeOK
    <2>3. CASE bound[d]
      BY <2>1, <2>2, <2>3 DEF DimTypeOK, DimTickOK
    <2>4. CASE ~bound[d]
      <3>1. script' = [script EXCEPT !["panel"] = [script["panel"] EXCEPT ![d] = 0]]
        BY <2>1, <2>4
      <3>2. [script["panel"] EXCEPT ![d] = 0] \in Scripts
        BY DEF DimTypeOK, Starters
      <3>3. script' \in [Starters -> Scripts] /\ script'["loop"] = script["loop"]
        BY <3>1, <3>2 DEF DimTypeOK, Starters
      <3> QED
        BY <2>1, <2>2, <3>3 DEF DimTypeOK, DimTickOK
    <2> QED
      BY <2>3, <2>4
  <1>4. ASSUME NEW w \in Starters, NEW d \in Dims, SpawnEnds(w, d) PROVE World
    <2>1. /\ UNCHANGED <<server, players, downCall>> /\ bound' = [bound EXCEPT ![d] = @ \/ server[d]]
          /\ script' = [script EXCEPT ![w] = [script[w] EXCEPT ![d] = NoDim]]
      BY <1>4 DEF SpawnEnds
    <2>2. bound' \in [Dims -> BOOLEAN]
      BY <2>1 DEF DimTypeOK
    <2>3. [script[w] EXCEPT ![d] = NoDim] \in Scripts
      BY DEF DimTypeOK
    <2>4. script' \in [Starters -> Scripts]
          /\ \A e \in Dims : script'["loop"][e] \in {script["loop"][e], NoDim}
      BY <2>1, <2>3 DEF DimTypeOK, Starters
    <2> QED
      BY <2>1, <2>2, <2>4 DEF DimTypeOK, DimTickOK
  <1>5. ASSUME NEW d \in Dims, PanelDownChecked(d) \/ SpawnDies(d) \/ PlayersMove(d) PROVE World
    BY <1>5 DEF PanelDownChecked, SpawnDies, PlayersMove, DimTypeOK, DimTickOK, dimWorld
  <1>6. World
    <2>1. CASE PanelDown
      BY <2>1 DEF PanelDown, TakeDown, DimTypeOK, DimTickOK
    <2> QED
      BY <1>3, <1>4, <1>5, <2>1
  <1>7. DimTypeOK' /\ DimTickOK'
    BY <1>1, <1>6 DEF DimTypeOK, DimTickOK, dimLedger
  <1>8. CooldownOK' /\ DrainsOK'
    BY <1>1, <1>6 DEF CooldownOK, DrainsOK, dimLedger, dimHistory
  <1> QED
    BY <1>7, <1>8

\* A period passes: what is compared grows older together.
LEMMA ClockStep == ASSUME PoolInv, DimClock PROVE PoolInv'
  <1> USE DimNumbers DEF PoolInv
  <1>1. /\ script' = [w \in Starters |-> [d \in Dims |-> Aged(script[w][d], SpawnTime)]]
        /\ emptyAge' = [d \in Dims |-> Aged(emptyAge[d], DrainAfter)]
        /\ actAge' = Aged(actAge, Cooldown) /\ spawnAge' = Aged(spawnAge, Window + 1)
        /\ cmdAge' = Aged(cmdAge, Cooldown)
        /\ seenAge' = [d \in Dims |-> Aged(seenAge[d], DrainAfter)]
        /\ UNCHANGED <<server, bound, players, spawnPid, ddTick, downCall>>
        /\ ddTick.at = "rest" /\ \A w \in Starters, d \in Dims : script[w][d] # SpawnTime
    BY DEF DimClock
  <1>2. ASSUME NEW age \in {NoDim} \cup 0..Cooldown PROVE
          /\ Aged(age, Cooldown) = IF age = NoDim THEN NoDim
                                   ELSE IF age < Cooldown THEN age + 1 ELSE Cooldown
          /\ Aged(age, Cooldown) \in {NoDim} \cup 0..Cooldown
    BY AgedByOne, NoDimAges
  <1>3. ASSUME NEW age \in {NoDim} \cup 0..DrainAfter PROVE
          /\ Aged(age, DrainAfter) = IF age = NoDim THEN NoDim
                                     ELSE IF age < DrainAfter THEN age + 1 ELSE DrainAfter
          /\ Aged(age, DrainAfter) \in {NoDim} \cup 0..DrainAfter
    BY AgedByOne, NoDimAges
  <1>4. ASSUME NEW age \in {NoDim} \cup 0..SpawnTime PROVE
          /\ Aged(age, SpawnTime) = IF age = NoDim THEN NoDim
                                    ELSE IF age < SpawnTime THEN age + 1 ELSE SpawnTime
          /\ Aged(age, SpawnTime) \in {NoDim} \cup 0..SpawnTime
    BY AgedByOne, NoDimAges
  <1>5. ASSUME NEW age \in {NoDim} \cup 0..(Window + 1) PROVE
          /\ Aged(age, Window + 1) \in {NoDim} \cup 0..(Window + 1)
          /\ (Aged(age, Window + 1) = NoDim) = (age = NoDim)
    BY AgedByOne, NoDimAges
  <1>6. DimTypeOK' /\ DimTickOK'
    <2>1. script' \in [Starters -> [Dims -> {NoDim} \cup 0..SpawnTime]]
      BY <1>1, <1>4 DEF DimTypeOK
    <2>2. emptyAge' \in [Dims -> {NoDim} \cup 0..DrainAfter]
      BY <1>1, <1>3 DEF DimTypeOK
    <2>3. actAge' \in {NoDim} \cup 0..Cooldown
      BY <1>1, <1>2 DEF DimTypeOK
    <2>4. spawnAge' \in {NoDim} \cup 0..(Window + 1) /\ (spawnAge' = NoDim) = (spawnAge = NoDim)
      BY <1>1, <1>5 DEF DimTypeOK
    <2> QED
      BY <1>1, <2>1, <2>2, <2>3, <2>4 DEF DimTypeOK, DimTickOK
  <1>7. CooldownOK'
    <2>1. /\ cmdAge' = (IF cmdAge < Cooldown THEN cmdAge + 1 ELSE Cooldown) /\ cmdAge' \in 0..Cooldown
          /\ actAge' = IF actAge = NoDim THEN NoDim
                       ELSE IF actAge < Cooldown THEN actAge + 1 ELSE Cooldown
      BY <1>1, <1>2 DEF CooldownOK, DimTypeOK
    <2>2. cmdAge' < Cooldown => actAge' # NoDim /\ actAge' <= cmdAge'
      BY <2>1 DEF CooldownOK, DimTypeOK
    <2>3. ASSUME NEW d \in Dims, script'["loop"][d] # NoDim
          PROVE  actAge' # NoDim /\ actAge' <= script'["loop"][d]
      <3>1. script["loop"][d] \in {NoDim} \cup 0..SpawnTime /\ script["loop"][d] # SpawnTime
        BY <1>1 DEF DimTypeOK, Starters
      <3>2. script'["loop"][d] = Aged(script["loop"][d], SpawnTime)
        BY <1>1 DEF Starters
      <3>3. script["loop"][d] # NoDim /\ script'["loop"][d] = script["loop"][d] + 1
        BY <1>4, <2>3, <3>1, <3>2
      <3> QED
        BY <2>1, <3>1, <3>3 DEF CooldownOK, DimTypeOK
    <2> QED
      BY <1>1, <2>1, <2>2, <2>3 DEF CooldownOK
  <1>8. DrainsOK'
    <2>1. ASSUME NEW d \in Dims
          PROVE  /\ seenAge'[d] \in 0..DrainAfter
                 /\ emptyAge'[d] # NoDim => emptyAge'[d] <= seenAge'[d]
      <3>1. seenAge[d] \in 0..DrainAfter /\ emptyAge[d] \in {NoDim} \cup 0..DrainAfter
        BY DEF DrainsOK, DimTypeOK
      <3>2. seenAge'[d] = Aged(seenAge[d], DrainAfter) /\ emptyAge'[d] = Aged(emptyAge[d], DrainAfter)
        BY <1>1
      <3> QED
        BY <1>3, <3>1, <3>2 DEF DrainsOK
    <2>2. seenAge' \in [Dims -> 0..DrainAfter]
      BY <1>1, <2>1
    <2> QED
      BY <1>1, <2>1, <2>2 DEF DrainsOK
  <1> QED
    BY <1>6, <1>7, <1>8

\* Every step keeps the invariant.
LEMMA PoolInvStep == ASSUME PoolInv, [DimNext]_dimVars PROVE PoolInv'
  <1>1. CASE UNCHANGED dimVars
    BY <1>1 DEF dimVars, dimWorld, dimLedger, dimHistory, PoolInv, DimTypeOK, DimTickOK,
                CooldownOK, DrainsOK
  <1> QED
    BY <1>1, PoolTickSteps, DecideStep, CommandStep, MarkStep, WorldSteps, ClockStep DEF DimNext

\* Every reachable state of the pool has it.
LEMMA PoolInvariant == DimSpec => []PoolInv
  BY PoolInvInit, PoolInvStep, PTL DEF DimSpec

\* The loop commands a dimension only a cooldown after its last command, never starts
\* a second script while its own first one waits, and reaps only what every decision
\* of a whole drain had live and empty (run_dd_tick, decide_dimension_pool), whatever
\* fails, crashes or is done behind its back: the cooldown is persisted first, and
\* outlasts a spawn.
THEOREM PoolAlwaysSafe == DimSpec => PoolSafe
  <1>1. PoolInv /\ [DimNext]_dimVars
          => [\A d \in Dims : ddTick.at = "act" /\ ddTick'.at = "mark" /\ ddTick.verb = "spawn"
                     /\ ddTick.dim = d => script["loop"][d] = NoDim]_dimVars
    BY DEF PoolInv, CooldownOK
  <1>2. PoolInv /\ [DimNext]_dimVars
          => [ddTick.at = "act" /\ ddTick'.at = "mark" => cmdAge >= Cooldown]_dimVars
    BY DimNumbers DEF PoolInv, CooldownOK
  <1>3. PoolInv /\ [DimNext]_dimVars
          => [ddTick.at = "act" /\ ddTick'.at = "mark" /\ ddTick.verb = "reap"
                => seenAge[ddTick.dim] >= DrainAfter]_dimVars
    BY DEF PoolInv, DrainsOK
  <1> QED
    BY <1>1, <1>2, <1>3, PoolInvInit, PoolInvStep, PTL
    DEF DimSpec, PoolSafe, OneSpawnInFlight, CommandsSpaced, ReapEarned

-----------------------------------------------------------------------------
(* Sessions: the inductive invariant                                       *)

\* What a connection's thread may be doing.
Threads ==
  {NoConn, [at |-> "done"], [at |-> "issue"]}
  \cup [at : {"read"}, who : Clients, peer : Clients \cup Proxies]
  \cup [at : {"login", "check"}, who : Clients, right : BOOLEAN,
        from : Clients \cup Proxies]
  \cup [at : {"call", "logout", "revoke"}, jti : Nat, late : BOOLEAN]

\* A request is charged to the client it comes from, whatever a header claims, and is
\* about a token that was issued.
Proper(t) ==
  /\ t.at = "read" => t.peer \in Proxies \/ t.peer = t.who
  /\ t.at \in {"login", "check"} => t.from = t.who
  /\ t.at \in {"call", "logout", "revoke"} => t.jti \in DOMAIN sessions

\* The state's shape.
FrontOK ==
  /\ sessClock \in Nat /\ sessions \in Seq(Nat)
  /\ attempts \in [Clients \cup Proxies -> Seq(Nat)] /\ passed \in [Clients -> Seq(Nat)]
  /\ conn \in [Connections -> Threads]
  /\ \A k \in Connections : Proper(conn[k])

\* A bucket is in the order of its attempts.
InOrder(times) ==
  /\ \A i \in 1..Len(times) : times[i] <= sessClock
  /\ \A i, j \in 1..Len(times) : i <= j => times[i] <= times[j]

\* A bucket holds what the gate has let through but for a beginning older than the window.
Explains(bucket, through) ==
  /\ Len(bucket) <= Len(through)
  /\ \A i \in 1..Len(bucket) : bucket[i] = through[Len(through) - Len(bucket) + i]
  /\ \A i \in 1..(Len(through) - Len(bucket)) : through[i] < sessClock - LoginWindow

\* Each client's bucket is in order, full at most, and accounts for what was let through.
BucketsOK ==
  \A c \in Clients : /\ InOrder(attempts[c]) /\ Len(attempts[c]) <= LoginMax
                     /\ Explains(attempts[c], passed[c])

\* A token that was logged out has expired or is revoked, in memory and in the file, unless
\* a file error has lost it; a request that came after the logout knows it.
RevocationsOK ==
  /\ loggedOut \subseteq DOMAIN sessions
  /\ \A k \in Connections : conn[k].at = "call" /\ conn[k].late => conn[k].jti \in loggedOut
  /\ \A j \in loggedOut \ unsaved :
       sessions[j] <= sessClock \/ (j \in revoked /\ j \in revokedFile)
  /\ LogoutLasts

FrontInv == FrontOK /\ BucketsOK /\ RevocationsOK

-----------------------------------------------------------------------------
(* Sessions: buckets                                                       *)

\* What is left of a bucket after its old attempts is an end of it.
LEMMA LiveIsEnd ==
  ASSUME sessClock \in Nat, NEW s \in Seq(Nat)
  PROVE  /\ Live(s) \in Seq(Nat) /\ Explains(Live(s), s)
         /\ Live(s) # <<>> => Live(s)[1] >= sessClock - LoginWindow
  <1> DEFINE young == {i \in 1..Len(s) : s[i] >= sessClock - LoginWindow}
  <1>0. /\ Len(s) \in Nat /\ s \in [1..Len(s) -> Nat] /\ LoginWindow \in Nat
        /\ \A i \in 1..Len(s) : s[i] \in Nat
    BY LenProperties, SessAssumption DEF SessAssumption
  <1>1. CASE young = {}
    <2>1. Live(s) = <<>>
      BY <1>1 DEF Live, SelectInSeq
    <2>2. <<>> \in Seq(Nat) /\ Len(<<>>) = 0
      BY EmptySeq
    <2>3. \A i \in 1..Len(s) : s[i] < sessClock - LoginWindow
      BY <1>0, <1>1
    <2> QED
      BY <1>0, <2>1, <2>2, <2>3 DEF Explains
  <1>2. CASE young # {}
    <2> DEFINE m == Min(young)
    <2>0. young \in SUBSET Nat
      BY <1>0
    <2>1. m \in young /\ \A k \in young : m <= k
      BY <1>2, <2>0, MinOfNaturals
    <2>2. m \in 1..Len(s) /\ m # 0 /\ m \in Int /\ Len(s) \in Int
      BY <1>0, <2>1
    <2>3. Live(s) = SubSeq(s, m, Len(s))
      BY <1>2, <2>2 DEF Live, SelectInSeq
    <2>4. \A i \in m..Len(s) : s[i] \in Nat
      BY <1>0, <2>2
    <2> HIDE DEF m, young
    <2>5. /\ Live(s) \in Seq(Nat) /\ Len(Live(s)) = Len(s) - m + 1
          /\ \A i \in 1..(Len(s) - m + 1) : Live(s)[i] = s[m + i - 1]
      <3>1. SubSeq(s, m, Len(s)) \in Seq(Nat)
        BY <2>2, <2>4, SubSeqProperties
      <3>2. Len(SubSeq(s, m, Len(s))) = Len(s) - m + 1
        BY <1>0, <2>2, <2>4, SubSeqProperties
      <3>3. \A i \in 1..(Len(s) - m + 1) : SubSeq(s, m, Len(s))[i] = s[m + i - 1]
        BY <1>0, <2>2, <2>4, SubSeqProperties
      <3> QED
        BY <2>3, <3>1, <3>2, <3>3
    <2>6. \A i \in 1..(m - 1) : s[i] < sessClock - LoginWindow
      <3> SUFFICES ASSUME NEW i \in 1..(m - 1) PROVE s[i] < sessClock - LoginWindow
        OBVIOUS
      <3>1. i \in 1..Len(s) /\ i < m /\ s[i] \in Nat
        BY <1>0, <2>2
      <3>2. i \notin young
        BY <2>1, <3>1, <2>2
      <3> QED
        BY <1>0, <3>1, <3>2 DEF young
    <2>7. s[m] >= sessClock - LoginWindow
      BY <2>1 DEF young
    <2>8. Explains(Live(s), s)
      BY <1>0, <2>2, <2>5, <2>6 DEF Explains
    <2>9. Live(s)[1] = s[m]
      <3>1. 1 \in 1..(Len(s) - m + 1) /\ m + 1 - 1 = m
        BY <1>0, <2>2
      <3>2. Live(s)[1] = s[m + 1 - 1]
        BY <2>5, <3>1
      <3> QED
        BY <3>1, <3>2
    <2> QED
      BY <2>5, <2>7, <2>8, <2>9
  <1> QED
    BY <1>1, <1>2

\* An end of an end is an end.
LEMMA AccountsThrough ==
  ASSUME sessClock \in Nat, NEW a \in Seq(Nat), NEW b \in Seq(Nat), NEW c \in Seq(Nat),
         Explains(a, b), Explains(b, c)
  PROVE  Explains(a, c)
  <1>0. Len(a) \in Nat /\ Len(b) \in Nat /\ Len(c) \in Nat
    BY LenProperties
  <1>1. Len(a) <= Len(b) /\ Len(b) <= Len(c)
    BY DEF Explains
  <1>2. ASSUME NEW i \in 1..Len(a) PROVE a[i] = c[Len(c) - Len(a) + i]
    <2>1. a[i] = b[Len(b) - Len(a) + i] /\ Len(b) - Len(a) + i \in 1..Len(b)
      BY <1>0, <1>1 DEF Explains
    <2>2. b[Len(b) - Len(a) + i] = c[Len(c) - Len(b) + (Len(b) - Len(a) + i)]
      BY <2>1 DEF Explains
    <2>3. Len(c) - Len(b) + (Len(b) - Len(a) + i) = Len(c) - Len(a) + i
      BY <1>0
    <2> QED
      BY <2>1, <2>2, <2>3
  <1>3. ASSUME NEW i \in 1..(Len(c) - Len(a)) PROVE c[i] < sessClock - LoginWindow
    <2>1. CASE i <= Len(c) - Len(b)
      BY <1>0, <1>1, <2>1 DEF Explains
    <2>2. CASE i > Len(c) - Len(b)
      <3> DEFINE n == i - (Len(c) - Len(b))
      <3>1. n \in 1..(Len(b) - Len(a)) /\ n \in 1..Len(b) /\ Len(c) - Len(b) + n = i
        BY <1>0, <1>1, <2>2
      <3> HIDE DEF n
      <3>2. b[n] < sessClock - LoginWindow
        BY <3>1 DEF Explains
      <3>3. b[n] = c[Len(c) - Len(b) + n]
        BY <3>1 DEF Explains
      <3> QED
        BY <3>1, <3>2, <3>3
    <2> QED
      BY <1>0, <2>1, <2>2
  <1> QED
    BY <1>0, <1>1, <1>2, <1>3 DEF Explains

\* An attempt that is charged and let through is added to both.
LEMMA AccountsAppend ==
  ASSUME NEW a \in Seq(Nat), NEW b \in Seq(Nat), NEW e \in Nat, Explains(a, b)
  PROVE  Explains(Append(a, e), Append(b, e))
  <1>0. Len(a) \in Nat /\ Len(b) \in Nat /\ Len(a) <= Len(b)
    BY LenProperties DEF Explains
  <1>1. /\ Len(Append(a, e)) = Len(a) + 1 /\ Len(Append(b, e)) = Len(b) + 1
        /\ \A i \in 1..Len(a) : Append(a, e)[i] = a[i]
        /\ \A i \in 1..Len(b) : Append(b, e)[i] = b[i]
        /\ Append(a, e)[Len(a) + 1] = e /\ Append(b, e)[Len(b) + 1] = e
    BY AppendProperties
  <1>2. ASSUME NEW i \in 1..(Len(a) + 1)
        PROVE  Append(a, e)[i] = Append(b, e)[(Len(b) + 1) - (Len(a) + 1) + i]
    <2>1. CASE i <= Len(a)
      <3>1. i \in 1..Len(a) /\ Len(b) - Len(a) + i \in 1..Len(b)
        BY <1>0, <2>1
      <3>2. (Len(b) + 1) - (Len(a) + 1) + i = Len(b) - Len(a) + i
        BY <1>0
      <3> QED
        BY <1>1, <3>1, <3>2 DEF Explains
    <2>2. CASE i = Len(a) + 1
      <3>1. (Len(b) + 1) - (Len(a) + 1) + i = Len(b) + 1
        BY <1>0, <2>2
      <3> QED
        BY <1>1, <2>2, <3>1
    <2>3. i <= Len(a) \/ i = Len(a) + 1
      BY <1>0
    <2> QED
      BY <2>1, <2>2, <2>3
  <1>3. ASSUME NEW i \in 1..((Len(b) + 1) - (Len(a) + 1))
        PROVE  Append(b, e)[i] < sessClock - LoginWindow
    <2>1. i \in 1..(Len(b) - Len(a)) /\ i \in 1..Len(b)
      BY <1>0
    <2> QED
      BY <1>1, <2>1 DEF Explains
  <1> HIDE DEF Explains
  <1>4. Len(Append(a, e)) <= Len(Append(b, e))
    BY <1>0, <1>1
  <1> QED
    BY <1>1, <1>2, <1>3, <1>4 DEF Explains

\* An end of a bucket in order is in order, and so is one with an attempt of now.
LEMMA EndInOrder ==
  ASSUME NEW a \in Seq(Nat), NEW b \in Seq(Nat), InOrder(b), Explains(a, b)
  PROVE  InOrder(a)
  <1>0. Len(a) \in Nat /\ Len(b) \in Nat /\ Len(a) <= Len(b)
    BY LenProperties DEF Explains
  <1>1. \A i \in 1..Len(a) : /\ Len(b) - Len(a) + i \in 1..Len(b)
                             /\ a[i] = b[Len(b) - Len(a) + i]
    BY <1>0 DEF Explains
  <1>2. \A i \in 1..Len(a) : a[i] <= sessClock
    BY <1>1 DEF InOrder
  <1>3. ASSUME NEW i \in 1..Len(a), NEW j \in 1..Len(a), i <= j PROVE a[i] <= a[j]
    <2>1. Len(b) - Len(a) + i <= Len(b) - Len(a) + j
      BY <1>0, <1>3
    <2> QED
      BY <1>1, <2>1 DEF InOrder
  <1> QED
    BY <1>2, <1>3 DEF InOrder

LEMMA AppendInOrder ==
  ASSUME sessClock \in Nat, NEW a \in Seq(Nat), InOrder(a)
  PROVE  InOrder(Append(a, sessClock))
  <1>0. Len(a) \in Nat /\ \A i \in 1..Len(a) : a[i] \in Nat
    BY LenProperties
  <1>1. /\ Len(Append(a, sessClock)) = Len(a) + 1
        /\ \A i \in 1..Len(a) : Append(a, sessClock)[i] = a[i]
        /\ Append(a, sessClock)[Len(a) + 1] = sessClock
    BY AppendProperties
  <1>2. \A i \in 1..(Len(a) + 1) : i \in 1..Len(a) \/ i = Len(a) + 1
    BY <1>0
  <1> QED
    BY <1>0, <1>1, <1>2 DEF InOrder

\* A sweep leaves a bucket or none for each address.
LEMMA SweptFunction == ASSUME FrontOK PROVE Swept \in [Clients \cup Proxies -> Seq(Nat)]
  BY EmptySeq DEF Swept, FrontOK

\* A sweep takes nothing from a bucket that is younger than the window.
LEMMA SweptIsEnd ==
  ASSUME FrontOK, BucketsOK, NEW c \in Clients
  PROVE  Swept[c] \in Seq(Nat) /\ Explains(Swept[c], attempts[c])
  <1> USE SessAssumption DEF SessAssumption
  <1> DEFINE b == attempts[c]
  <1>0. b \in Seq(Nat) /\ Len(b) \in Nat /\ b \in [1..Len(b) -> Nat] /\ sessClock \in Nat
    BY LenProperties DEF FrontOK
  <1>1. Swept[c] = b \/ (Expired(b) /\ Swept[c] = <<>>)
    BY DEF Swept, FrontOK
  <1> HIDE DEF b
  <1>2. Explains(b, b)
    BY <1>0 DEF Explains
  <1>3. ASSUME Expired(b) PROVE Explains(<<>>, b)
    <2>1. b # <<>> /\ b[Len(b)] < sessClock - LoginWindow
      BY <1>3 DEF Expired
    <2>2. Len(<<>>) = 0
      BY EmptySeq
    <2>3. ASSUME NEW i \in 1..Len(b) PROVE b[i] < sessClock - LoginWindow
      <3>1. Len(b) \in 1..Len(b) /\ i <= Len(b) /\ b[i] \in Nat /\ b[Len(b)] \in Nat
        BY <1>0
      <3>2. b[i] <= b[Len(b)]
        BY <3>1 DEF BucketsOK, InOrder, b
      <3>3. LoginWindow \in Nat
        OBVIOUS
      <3> QED
        BY <1>0, <2>1, <3>1, <3>2, <3>3
    <2> QED
      BY <1>0, <2>2, <2>3 DEF Explains
  <1>4. <<>> \in Seq(Nat)
    BY EmptySeq
  <1> QED
    BY <1>0, <1>1, <1>2, <1>3, <1>4 DEF b

\* What the gate finds in a client's bucket accounts for what was let through.
LEMMA GateBucket ==
  ASSUME FrontOK, BucketsOK, NEW c \in Clients
  PROVE  /\ Live(Swept[c]) \in Seq(Nat)
         /\ InOrder(Live(Swept[c])) /\ Explains(Live(Swept[c]), passed[c])
         /\ InOrder(Swept[c]) /\ Explains(Swept[c], passed[c])
         /\ Len(Live(Swept[c])) <= LoginMax /\ Len(Swept[c]) <= LoginMax
  <1>0. attempts[c] \in Seq(Nat) /\ passed[c] \in Seq(Nat) /\ sessClock \in Nat
    BY DEF FrontOK
  <1>1. Swept[c] \in Seq(Nat) /\ Explains(Swept[c], attempts[c])
    BY SweptIsEnd
  <1>2. Live(Swept[c]) \in Seq(Nat) /\ Explains(Live(Swept[c]), Swept[c])
    BY <1>0, <1>1, LiveIsEnd
  <1>3. InOrder(attempts[c]) /\ Explains(attempts[c], passed[c]) /\ Len(attempts[c]) <= LoginMax
    BY DEF BucketsOK
  <1>4. InOrder(Swept[c]) /\ Explains(Swept[c], passed[c])
    BY <1>0, <1>1, <1>3, EndInOrder, AccountsThrough
  <1>5. InOrder(Live(Swept[c])) /\ Explains(Live(Swept[c]), passed[c])
    BY <1>0, <1>1, <1>2, <1>4, EndInOrder, AccountsThrough
  <1>6. /\ Len(Swept[c]) <= Len(attempts[c]) /\ Len(Live(Swept[c])) <= Len(Swept[c])
        /\ Len(Swept[c]) \in Nat /\ Len(attempts[c]) \in Nat /\ Len(Live(Swept[c])) \in Nat
    BY <1>0, <1>1, <1>2, LenProperties DEF Explains
  <1> QED
    BY <1>2, <1>3, <1>4, <1>5, <1>6, SessAssumption DEF SessAssumption

\* No more than a bucket holds has been let through within the window.
LEMMA BucketsBound == ASSUME FrontOK, BucketsOK PROVE QuotaKept
  <1> SUFFICES ASSUME NEW c \in Clients PROVE Len(Live(passed[c])) <= LoginMax
    BY DEF QuotaKept
  <1> DEFINE p == passed[c]
             b == attempts[c]
             l == Live(passed[c])
  <1>0. p \in Seq(Nat) /\ b \in Seq(Nat) /\ sessClock \in Nat
    BY DEF FrontOK
  <1>1. l \in Seq(Nat) /\ Explains(l, p) /\ (l # <<>> => l[1] >= sessClock - LoginWindow)
    BY <1>0, LiveIsEnd
  <1>2. Explains(b, p) /\ Len(b) <= LoginMax
    BY DEF BucketsOK
  <1> HIDE DEF p, b, l
  <1>3. Len(p) \in Nat /\ Len(b) \in Nat /\ Len(l) \in Nat /\ p \in [1..Len(p) -> Nat]
    BY <1>0, <1>1, LenProperties
  <1>4. ASSUME Len(l) > Len(b) PROVE FALSE
    <2>1. l # <<>> /\ 1 \in 1..Len(l) /\ Len(l) <= Len(p)
      BY <1>1, <1>3, <1>4, EmptySeq DEF Explains
    <2>2. l[1] = p[Len(p) - Len(l) + 1] /\ Len(p) - Len(l) + 1 \in 1..(Len(p) - Len(b))
      BY <1>1, <1>3, <1>4, <2>1 DEF Explains
    <2>3. p[Len(p) - Len(l) + 1] < sessClock - LoginWindow
      BY <1>2, <2>2 DEF Explains
    <2>4. p[Len(p) - Len(l) + 1] \in Nat
      BY <1>3, <1>4, <2>1
    <2>5. LoginWindow \in Nat
      BY SessAssumption DEF SessAssumption
    <2> QED
      BY <1>0, <1>1, <2>1, <2>2, <2>3, <2>4, <2>5
  <1>5. Len(l) <= LoginMax
    BY <1>2, <1>3, <1>4, SessAssumption DEF SessAssumption
  <1> QED
    BY <1>5 DEF l

\* The address a request is charged to is its client's, whatever the header claims.
LEMMA ResolvesClient ==
  ASSUME NEW c \in Clients, NEW peer \in {c} \cup Proxies, NEW hops \in Headers(c, peer)
  PROVE  ResolveClient(peer, hops) = c
  <1>1. c \notin Proxies
    BY SessAssumption DEF SessAssumption
  <1>2. CASE peer = c
    BY <1>1, <1>2 DEF ResolveClient
  <1>3. CASE peer # c
    <2>1. peer \in Proxies
      BY <1>3
    <2>2. PICK h : h \in {<<>>} \cup {<<d>> : d \in Clients \cup Proxies} /\ hops = h \o <<c>>
      BY <1>3 DEF Headers
    <2>4. Len(hops) \in {1, 2} /\ hops[Len(hops)] = c
      <3>1. CASE h = <<>>
        BY <2>2, <3>1
      <3>2. ASSUME NEW d, h = <<d>> PROVE Len(hops) = 2 /\ hops[2] = c
        BY <2>2, <3>2
      <3> QED
        BY <2>2, <3>1, <3>2
    <2> DEFINE r == Reverse(hops)
               mine == {i \in 1..Len(r) : r[i] \notin Proxies}
    <2>5. r = [i \in 1..Len(hops) |-> hops[(Len(hops) - i) + 1]]
      BY DEF Reverse
    <2>6. Len(r) = Len(hops) /\ r[1] = c
      BY <2>4, <2>5
    <2> HIDE DEF r
    <2>7. 1 \in mine /\ mine \in SUBSET Nat /\ \A i \in mine : 1 <= i
      BY <1>1, <2>4, <2>6
    <2>8. Min(mine) = 1
      <3>1. Min(mine) \in mine /\ \A k \in mine : Min(mine) <= k
        BY <2>7, MinOfNaturals
      <3>2. Min(mine) \in Nat /\ Min(mine) <= 1 /\ 1 <= Min(mine)
        BY <2>7, <3>1
      <3> QED
        BY <3>2
    <2>9. SelectInSeq(r, LAMBDA n : n \notin Proxies) = 1
      BY <2>7, <2>8 DEF SelectInSeq
    <2> QED
      BY <2>1, <2>6, <2>9 DEF ResolveClient, r
  <1> QED
    BY <1>2, <1>3

\* What a thread's place says of it.
LEMMA ThreadForms ==
  ASSUME NEW t \in Threads
  PROVE  /\ t.at = "read" => t.who \in Clients
         /\ t.at \in {"login", "check"} =>
              /\ t = [at |-> t.at, who |-> t.who, right |-> t.right, from |-> t.from]
              /\ t.who \in Clients /\ t.right \in BOOLEAN
              /\ [t EXCEPT !.at = "check"]
                   = [at |-> "check", who |-> t.who, right |-> t.right, from |-> t.from]
         /\ t.at \in {"call", "logout", "revoke"} =>
              /\ t = [at |-> t.at, jti |-> t.jti, late |-> t.late]
              /\ t.jti \in Nat /\ t.late \in BOOLEAN
              /\ [t EXCEPT !.at = "revoke"] = [at |-> "revoke", jti |-> t.jti, late |-> t.late]
  <1>1. CASE t \in {NoConn, [at |-> "done"], [at |-> "issue"]}
    BY <1>1 DEF NoConn
  <1>2. CASE t \in [at : {"read"}, who : Clients, peer : Clients \cup Proxies]
    BY <1>2
  <1>3. CASE t \in [at : {"login", "check"}, who : Clients, right : BOOLEAN,
                    from : Clients \cup Proxies]
    BY <1>3
  <1>4. CASE t \in [at : {"call", "logout", "revoke"}, jti : Nat, late : BOOLEAN]
    BY <1>4
  <1> QED
    BY <1>1, <1>2, <1>3, <1>4 DEF Threads

-----------------------------------------------------------------------------
(* Sessions: every step                                                    *)

\* A step of one connection's thread.
LEMMA OneThread ==
  ASSUME FrontOK, NEW k \in Connections, NEW t, t \in Threads, Proper(t),
         conn' = [conn EXCEPT ![k] = t],
         sessions' \in Seq(Nat), DOMAIN sessions \subseteq DOMAIN sessions'
  PROVE  conn' \in [Connections -> Threads] /\ \A j \in Connections : Proper(conn[j])'
  BY DEF FrontOK, Proper


\* Every step keeps the front door's shape.
LEMMA FrontKept ==
  ASSUME FrontOK, [SessNext]_sessVars
  PROVE  FrontOK'
  <1> USE SessAssumption DEF SessAssumption, FrontOK, NoConn, Hangup,
          sessLog
  <1>1. ASSUME NEW k \in Connections, NEW c \in Clients, Connect(k, c) PROVE FrontOK'
    <2>1. UNCHANGED <<sessClock, sessions, attempts, passed>>
      BY <1>1 DEF Connect
    <2>2. CASE conn' = conn
      BY <2>1, <2>2 DEF Proper
    <2>3. ASSUME NEW p \in {c} \cup Proxies,
                 conn' = [conn EXCEPT ![k] = [at |-> "read", who |-> c, peer |-> p]]
          PROVE  FrontOK'
      <3>1. /\ [at |-> "read", who |-> c, peer |-> p] \in Threads
            /\ Proper([at |-> "read", who |-> c, peer |-> p])
        BY DEF Threads, Proper
      <3> QED
        BY <2>1, <2>3, <3>1, OneThread
    <2> QED
      BY <1>1, <2>2, <2>3 DEF Connect
  <1>2. ASSUME NEW k \in Connections, ReadRequest(k) PROVE FrontOK'
    <2>1. UNCHANGED <<sessClock, sessions, attempts, passed>> /\ conn[k].at = "read"
      BY <1>2 DEF ReadRequest
    <2>2. conn[k].who \in Clients /\ conn[k].peer \in {conn[k].who} \cup Proxies
      BY <2>1, ThreadForms DEF Proper
    <2>3. ASSUME NEW right \in BOOLEAN, NEW hops \in Headers(conn[k].who, conn[k].peer),
                 conn' = [conn EXCEPT ![k] = [at |-> "login", who |-> @.who, right |-> right,
                                              from |-> ResolveClient(@.peer, hops)]]
          PROVE  FrontOK'
      <3>1. ResolveClient(conn[k].peer, hops) = conn[k].who
        BY <2>2, ResolvesClient
      <3>2. PICK t : t = [at |-> "login", who |-> conn[k].who, right |-> right,
                          from |-> conn[k].who]
        OBVIOUS
      <3>3. t \in Threads /\ Proper(t) /\ conn' = [conn EXCEPT ![k] = t]
        BY <2>2, <2>3, <3>1, <3>2 DEF Threads, Proper
      <3> QED
        BY <2>1, <3>3, OneThread
    <2>4. ASSUME NEW j \in DOMAIN sessions, NEW route \in {"call", "logout"},
                 conn' = [conn EXCEPT ![k] = [at |-> route, jti |-> j, late |-> j \in loggedOut]]
          PROVE  FrontOK'
      <3>1. PICK b \in BOOLEAN : b <=> j \in loggedOut
        OBVIOUS
      <3>2. PICK t : t = [at |-> route, jti |-> j, late |-> b]
        OBVIOUS
      <3>3. j \in Nat
        BY LenProperties
      <3>4. t \in Threads /\ Proper(t)
        BY <3>2, <3>3 DEF Threads, Proper
      <3>5. conn' = [conn EXCEPT ![k] = t]
        BY <2>4, <3>1, <3>2, Zenon
      <3> QED
        BY <2>1, <3>4, <3>5, OneThread
    <2>5. CASE conn' = [conn EXCEPT ![k] = [at |-> "done"]]
      <3>1. [at |-> "done"] \in Threads /\ Proper([at |-> "done"])
        BY DEF Threads, Proper
      <3> QED
        BY <2>1, <2>5, <3>1, OneThread
    <2> QED
      BY <1>2, <2>3, <2>4, <2>5 DEF ReadRequest
  <1>3. ASSUME NEW k \in Connections, EndRequest(k) PROVE FrontOK'
    <2>1. UNCHANGED <<sessClock, sessions, attempts, passed>>
      BY <1>3 DEF EndRequest
    <2>2. conn' = [conn EXCEPT ![k] = NoConn]
      BY <1>3 DEF EndRequest
    <2>3. NoConn \in Threads /\ Proper(NoConn)
      BY DEF Threads, Proper
    <2> QED
      BY <2>1, <2>2, <2>3, OneThread
  <1>4. ASSUME NEW k \in Connections, LoginGate(k) PROVE FrontOK'
    <2> DEFINE c == conn[k].from
               w == conn[k].who
    <2>1. /\ UNCHANGED <<sessClock, sessions>> /\ conn[k].at = "login"
          /\ c \in Clients /\ w = c
          /\ conn[k] = [at |-> "login", who |-> w, right |-> conn[k].right, from |-> c]
          /\ conn[k].right \in BOOLEAN
      <3>1. UNCHANGED <<sessClock, sessions>> /\ conn[k].at = "login"
        BY <1>4 DEF LoginGate
      <3>2. c = w
        BY <3>1 DEF Proper
      <3> QED
        BY <3>1, <3>2, ThreadForms
    <2>2. Swept \in [Clients \cup Proxies -> Seq(Nat)] /\ Live(Swept[c]) \in Seq(Nat)
      <3>1. <<>> \in Seq(Nat)
        BY EmptySeq
      <3>2. Swept \in [Clients \cup Proxies -> Seq(Nat)]
        BY <3>1 DEF Swept
      <3> QED
        BY <2>1, <3>2, LiveIsEnd
    <2> HIDE DEF c, w
    <2>3. CASE Len(Live(Swept[c])) >= LoginMax
      <3>1. /\ attempts' = [Swept EXCEPT ![c] = Live(Swept[c])] /\ passed' = passed
            /\ conn' = [conn EXCEPT ![k] = [at |-> "done"]]
        BY <1>4, <2>3 DEF LoginGate, c
      <3>2. [at |-> "done"] \in Threads /\ Proper([at |-> "done"])
        BY DEF Threads, Proper
      <3>3. attempts' \in [Clients \cup Proxies -> Seq(Nat)]
        BY <2>2, <3>1
      <3> QED
        BY <2>1, <3>1, <3>2, <3>3, OneThread
    <2>4. CASE ~(Len(Live(Swept[c])) >= LoginMax)
      <3>1. /\ attempts' = [Swept EXCEPT ![c] = Append(Live(Swept[c]), sessClock)]
            /\ passed' = [passed EXCEPT ![w] = Append(@, sessClock)]
            /\ conn' = [conn EXCEPT ![k] = [@ EXCEPT !.at = "check"]]
        BY <1>4, <2>4 DEF LoginGate, c, w
      <3> DEFINE t == [at |-> "check", who |-> w, right |-> conn[k].right, from |-> c]
      <3>2. conn' = [conn EXCEPT ![k] = t]
        <4>1. [conn[k] EXCEPT !.at = "check"] = t
          BY <2>1, ThreadForms DEF c, w
        <4> HIDE DEF t
        <4> QED
          BY <3>1, <4>1
      <3>3. t \in Threads /\ Proper(t)
        BY <2>1 DEF Threads, Proper
      <3>4. Append(Live(Swept[c]), sessClock) \in Seq(Nat) /\ Append(passed[w], sessClock) \in Seq(Nat)
        BY <2>1, <2>2, AppendProperties
      <3>5. attempts' \in [Clients \cup Proxies -> Seq(Nat)] /\ passed' \in [Clients -> Seq(Nat)]
        BY <2>2, <3>1, <3>4
      <3> HIDE DEF t
      <3> QED
        BY <2>1, <3>2, <3>3, <3>5, OneThread
    <2> QED
      BY <2>3, <2>4
  <1>5. ASSUME NEW k \in Connections, CheckPassword(k) PROVE FrontOK'
    <2>1. /\ UNCHANGED <<sessClock, sessions>>
          /\ \/ conn' = [conn EXCEPT ![k] = [at |-> "done"]]
             \/ conn' = [conn EXCEPT ![k] = [at |-> "issue"]]
      BY <1>5 DEF CheckPassword
    <2>2. attempts' \in [Clients \cup Proxies -> Seq(Nat)] /\ passed' \in [Clients -> Seq(Nat)]
      <3>1. <<>> \in Seq(Nat)
        BY EmptySeq
      <3>2. \/ UNCHANGED <<attempts, passed>>
            \/ /\ attempts' = [attempts EXCEPT ![conn[k].from] = <<>>]
               /\ passed' = [passed EXCEPT ![conn[k].who] = <<>>]
        BY <1>5 DEF CheckPassword
      <3> QED
        BY <3>1, <3>2
    <2>3. /\ [at |-> "done"] \in Threads /\ Proper([at |-> "done"])
          /\ [at |-> "issue"] \in Threads /\ Proper([at |-> "issue"])
      BY DEF Threads, Proper
    <2> QED
      BY <2>1, <2>2, <2>3, OneThread
  <1>6. ASSUME NEW k \in Connections, IssueToken(k) PROVE FrontOK'
    <2>1. /\ UNCHANGED <<sessClock, attempts, passed>>
          /\ conn' = [conn EXCEPT ![k] = [at |-> "done"]]
          /\ sessions' = Append(sessions, sessClock + SessionTTL)
      BY <1>6 DEF IssueToken
    <2>2. sessions' \in Seq(Nat) /\ DOMAIN sessions \subseteq DOMAIN sessions'
      <3>1. sessClock + SessionTTL \in Nat
        BY SessAssumption DEF SessAssumption
      <3> QED
        BY <2>1, <3>1, AppendProperties, LenProperties
    <2>3. [at |-> "done"] \in Threads /\ Proper([at |-> "done"])
      BY DEF Threads, Proper
    <2> QED
      BY <2>1, <2>2, <2>3, OneThread
  <1>7. ASSUME NEW k \in Connections, Serve(k) PROVE FrontOK'
    <2>1. UNCHANGED <<sessClock, sessions, attempts, passed>>
      BY <1>7 DEF Serve
    <2>2. conn' = [conn EXCEPT ![k] = [at |-> "done"]]
      BY <1>7 DEF Serve
    <2>3. [at |-> "done"] \in Threads /\ Proper([at |-> "done"])
      BY DEF Threads, Proper
    <2> QED
      BY <2>1, <2>2, <2>3, OneThread
  <1>8. ASSUME NEW k \in Connections, Logout(k) PROVE FrontOK'
    <2>1. UNCHANGED <<sessClock, sessions, attempts, passed>> /\ conn[k].at = "logout"
      BY <1>8 DEF Logout
    <2>2. CASE conn' = [conn EXCEPT ![k] = [@ EXCEPT !.at = "revoke"]]
      <3> DEFINE t == [at |-> "revoke", jti |-> conn[k].jti, late |-> conn[k].late]
      <3>1. t \in Threads /\ Proper(t) /\ [conn[k] EXCEPT !.at = "revoke"] = t
        <4>1. /\ conn[k].jti \in Nat /\ conn[k].jti \in DOMAIN sessions
              /\ conn[k].late \in BOOLEAN
              /\ conn[k] = [at |-> "logout", jti |-> conn[k].jti, late |-> conn[k].late]
          BY <2>1, ThreadForms DEF Proper
        <4>2. [conn[k] EXCEPT !.at = "revoke"] = t
          BY <2>1, ThreadForms
        <4>3. t \in Threads /\ Proper(t)
          BY <4>1 DEF Threads, Proper
        <4> QED
          BY <4>2, <4>3
      <3>2. conn' = [conn EXCEPT ![k] = t]
        BY <2>2, <3>1
      <3> HIDE DEF t
      <3> QED
        BY <2>1, <3>1, <3>2, OneThread
    <2>3. CASE conn' = [conn EXCEPT ![k] = [at |-> "done"]]
      <3>1. [at |-> "done"] \in Threads /\ Proper([at |-> "done"])
        BY DEF Threads, Proper
      <3> QED
        BY <2>1, <2>3, <3>1, OneThread
    <2> QED
      BY <1>8, <2>2, <2>3 DEF Logout
  <1>9. ASSUME NEW k \in Connections, RevokeToken(k) PROVE FrontOK'
    <2>1. UNCHANGED <<sessClock, sessions, attempts, passed>>
      BY <1>9 DEF RevokeToken
    <2>2. conn' = [conn EXCEPT ![k] = [at |-> "done"]]
      BY <1>9 DEF RevokeToken
    <2>3. [at |-> "done"] \in Threads /\ Proper([at |-> "done"])
      BY DEF Threads, Proper
    <2> QED
      BY <2>1, <2>2, <2>3, OneThread
  <1>10. CASE RestartPanel
    BY <1>10, EmptySeq DEF RestartPanel, sessVars, Proper, Threads
  <1>11. CASE SessTick
    BY <1>11, EmptySeq DEF SessTick, sessVars, Proper, Threads
  <1>12. CASE UNCHANGED sessVars
    BY <1>12, EmptySeq DEF sessVars, sessVars, Proper, Threads
  <1> QED
    BY <1>1, <1>2, <1>3, <1>4, <1>5, <1>6, <1>7, <1>8, <1>9, <1>10, <1>11, <1>12 DEF SessNext

\* A step that takes no time.
LEMMA SameInstant ==
  ASSUME sessClock' = sessClock,
         \A c \in Clients : /\ InOrder(attempts'[c]) /\ Len(attempts'[c]) <= LoginMax
                           /\ Explains(attempts'[c], passed'[c])
  PROVE  BucketsOK'
  BY DEF BucketsOK, InOrder, Explains

\* Every step keeps the buckets' account.
LEMMA BucketsKept ==
  ASSUME FrontOK, BucketsOK, [SessNext]_sessVars
  PROVE  BucketsOK'
  <1> USE SessAssumption DEF SessAssumption, sessLog
  <1>1. ASSUME NEW k \in Connections, NEW c \in Clients, Connect(k, c) PROVE BucketsOK'
    BY <1>1, SameInstant DEF Connect, BucketsOK
  <1>2. ASSUME NEW k \in Connections, ReadRequest(k) PROVE BucketsOK'
    BY <1>2, SameInstant DEF ReadRequest, BucketsOK
  <1>3. ASSUME NEW k \in Connections, EndRequest(k) PROVE BucketsOK'
    BY <1>3, SameInstant DEF EndRequest, BucketsOK
  <1>4. ASSUME NEW k \in Connections, LoginGate(k) PROVE BucketsOK'
    <2> DEFINE c == conn[k].from
    <2>1. /\ sessClock' = sessClock /\ c \in Clients /\ conn[k].who = c
      <3>1. sessClock' = sessClock /\ conn[k].at = "login"
        BY <1>4 DEF LoginGate
      <3> QED
        BY <3>1, ThreadForms DEF FrontOK, Proper
    <2>2. \A d \in Clients : /\ InOrder(Swept[d]) /\ Len(Swept[d]) <= LoginMax
                            /\ Explains(Swept[d], passed[d])
      BY GateBucket
    <2>3. /\ Live(Swept[c]) \in Seq(Nat) /\ Len(Live(Swept[c])) <= LoginMax
          /\ InOrder(Live(Swept[c])) /\ Explains(Live(Swept[c]), passed[c])
      BY <2>1, GateBucket
    <2>4. DOMAIN Swept = Clients \cup Proxies
      BY DEF Swept, FrontOK
    <2>5. CASE Len(Live(Swept[c])) >= LoginMax
      <3>1. attempts' = [Swept EXCEPT ![c] = Live(Swept[c])] /\ passed' = passed
        BY <1>4, <2>5 DEF LoginGate
      <3> HIDE DEF c
      <3> QED
        BY <2>1, <2>2, <2>3, <2>4, <3>1, SweptFunction, SameInstant
    <2>6. CASE ~(Len(Live(Swept[c])) >= LoginMax)
      <3> DEFINE e == Append(Live(Swept[c]), sessClock)
                 p == Append(passed[c], sessClock)
      <3>1. attempts' = [Swept EXCEPT ![c] = e] /\ passed' = [passed EXCEPT ![c] = p]
        BY <1>4, <2>1, <2>6 DEF LoginGate
      <3>2. sessClock \in Nat /\ passed[c] \in Seq(Nat)
        BY <2>1 DEF FrontOK
      <3>3. InOrder(e) /\ Explains(e, p)
        BY <2>3, <3>2, AppendInOrder, AccountsAppend
      <3>4. Len(e) <= LoginMax
        <4>1. Len(e) = Len(Live(Swept[c])) + 1 /\ Len(Live(Swept[c])) \in Nat /\ LoginMax \in Nat
          BY <2>3, <3>2, AppendProperties, LenProperties, SessAssumption DEF SessAssumption
        <4> QED
          BY <2>6, <4>1
      <3> HIDE DEF c, e, p
      <3> QED
        BY <2>1, <2>2, <2>4, <3>1, <3>3, <3>4, SweptFunction, SameInstant DEF FrontOK
    <2> QED
      BY <2>5, <2>6
  <1>5. ASSUME NEW k \in Connections, CheckPassword(k) PROVE BucketsOK'
    <2>1. \/ UNCHANGED <<attempts, passed>>
          \/ /\ attempts' = [attempts EXCEPT ![conn[k].from] = <<>>]
             /\ passed' = [passed EXCEPT ![conn[k].who] = <<>>]
      BY <1>5 DEF CheckPassword
    <2>2. sessClock' = sessClock /\ conn[k].from = conn[k].who
      BY <1>5 DEF CheckPassword, FrontOK, Proper
    <2>3. Len(<<>>) = 0 /\ LoginMax \in Nat
      BY EmptySeq, SessAssumption DEF SessAssumption
    <2>4. InOrder(<<>>) /\ Explains(<<>>, <<>>)
      BY <2>3 DEF InOrder, Explains
    <2>5. \A c \in Clients : /\ InOrder(attempts'[c]) /\ Len(attempts'[c]) <= LoginMax
                            /\ Explains(attempts'[c], passed'[c])
      BY <2>1, <2>2, <2>3, <2>4 DEF FrontOK, BucketsOK
    <2> QED
      BY <2>2, <2>5, SameInstant
  <1>6. ASSUME NEW k \in Connections, IssueToken(k) PROVE BucketsOK'
    BY <1>6, SameInstant DEF IssueToken, BucketsOK
  <1>7. ASSUME NEW k \in Connections, Serve(k) PROVE BucketsOK'
    BY <1>7, SameInstant DEF Serve, BucketsOK
  <1>8. ASSUME NEW k \in Connections, Logout(k) PROVE BucketsOK'
    BY <1>8, SameInstant DEF Logout, BucketsOK
  <1>9. ASSUME NEW k \in Connections, RevokeToken(k) PROVE BucketsOK'
    BY <1>9, SameInstant DEF RevokeToken, BucketsOK
  <1>10. CASE RestartPanel
    <2>1. /\ sessClock' = sessClock
          /\ attempts' = [c \in Clients \cup Proxies |-> <<>>] /\ passed' = [c \in Clients |-> <<>>]
      BY <1>10 DEF RestartPanel
    <2>2. Len(<<>>) = 0 /\ LoginMax \in Nat
      BY EmptySeq, SessAssumption DEF SessAssumption
    <2>3. InOrder(<<>>) /\ Explains(<<>>, <<>>)
      BY <2>2 DEF InOrder, Explains
    <2> QED
      BY <2>1, <2>2, <2>3, SameInstant
  <1>11. CASE SessTick
    <2>1. UNCHANGED <<attempts, passed>> /\ sessClock' = sessClock + 1
      BY <1>11 DEF SessTick
    <2> SUFFICES ASSUME NEW c \in Clients
                 PROVE  (/\ InOrder(attempts[c]) /\ Len(attempts[c]) <= LoginMax
                         /\ Explains(attempts[c], passed[c]))'
      BY DEF BucketsOK
    <2>2. /\ InOrder(attempts[c]) /\ Len(attempts[c]) <= LoginMax
          /\ Explains(attempts[c], passed[c])
      BY DEF BucketsOK
    <2>3. /\ attempts[c] \in Seq(Nat) /\ passed[c] \in Seq(Nat) /\ sessClock \in Nat
          /\ LoginWindow \in Nat
      BY SessAssumption DEF FrontOK, SessAssumption
    <2>4. /\ Len(attempts[c]) \in Nat /\ Len(passed[c]) \in Nat
          /\ \A i \in 1..Len(attempts[c]) : attempts[c][i] \in Nat
          /\ \A i \in 1..Len(passed[c]) : passed[c][i] \in Nat
      BY <2>3, LenProperties
    <2>5. InOrder(attempts[c])'
      <3>1. \A i \in 1..Len(attempts[c]) : attempts[c][i] <= sessClock + 1
        BY <2>2, <2>3, <2>4 DEF InOrder
      <3> QED
        BY <2>1, <2>2, <3>1 DEF InOrder
    <2>6. Explains(attempts[c], passed[c])'
      <3>1. \A i \in 1..(Len(passed[c]) - Len(attempts[c])) : i \in 1..Len(passed[c])
        BY <2>4
      <3>2. ASSUME NEW i \in 1..(Len(passed[c]) - Len(attempts[c]))
            PROVE  passed[c][i] < (sessClock + 1) - LoginWindow
        <4>1. passed[c][i] < sessClock - LoginWindow
          BY <2>2 DEF Explains
        <4> QED
          BY <2>3, <2>4, <3>1, <4>1
      <3> QED
        BY <2>1, <2>2, <3>2 DEF Explains
    <2> QED
      BY <2>1, <2>2, <2>5, <2>6
  <1>12. CASE UNCHANGED sessVars
    BY <1>12, SameInstant DEF sessVars, BucketsOK
  <1> QED
    BY <1>1, <1>2, <1>3, <1>4, <1>5, <1>6, <1>7, <1>8, <1>9, <1>10, <1>11, <1>12 DEF SessNext

\* A step of one connection's thread, for what the thread knows of a logout.
LEMMA OneLateThread ==
  ASSUME FrontOK, RevocationsOK, NEW k \in Connections, NEW t,
         t.at = "call" /\ t.late => t.jti \in loggedOut',
         conn' = [conn EXCEPT ![k] = t], loggedOut \subseteq loggedOut'
  PROVE  \A j \in Connections : conn'[j].at = "call" /\ conn'[j].late
                                  => conn'[j].jti \in loggedOut'
  BY DEF FrontOK, RevocationsOK

\* Every step keeps what is revoked revoked.
LEMMA RevocationsKept ==
  ASSUME FrontOK, RevocationsOK, [SessNext]_sessVars
  PROVE  RevocationsOK'
  <1> USE SessAssumption DEF SessAssumption, FrontOK, RevocationsOK, LogoutLasts, NoConn, Hangup,
          sessLog
  <1>1. ASSUME NEW k \in Connections, NEW c \in Clients, Connect(k, c) PROVE RevocationsOK'
    <2>1. UNCHANGED <<sessClock, sessions, revoked, revokedFile, loggedOut, unsaved, servedOut>>
      BY <1>1 DEF Connect
    <2>2. \A j \in Connections : conn'[j].at = "call" /\ conn'[j].late
                                   => conn'[j].jti \in loggedOut'
      <3>1. CASE conn' = conn
        BY <2>1, <3>1
      <3>2. ASSUME NEW p, conn' = [conn EXCEPT ![k] = [at |-> "read", who |-> c, peer |-> p]]
            PROVE  \A j \in Connections : conn'[j].at = "call" /\ conn'[j].late
                                           => conn'[j].jti \in loggedOut'
        BY <2>1, <3>2, OneLateThread
      <3> QED
        BY <1>1, <3>1, <3>2 DEF Connect
    <2> QED
      BY <2>1, <2>2 DEF RevocationsOK, LogoutLasts
  <1>2. ASSUME NEW k \in Connections, ReadRequest(k) PROVE RevocationsOK'
    <2>1. UNCHANGED <<sessClock, sessions, revoked, revokedFile, loggedOut, unsaved, servedOut>>
      BY <1>2 DEF ReadRequest
    <2>2. \A j \in Connections : conn'[j].at = "call" /\ conn'[j].late
                                   => conn'[j].jti \in loggedOut'
      <3>1. CASE conn' = [conn EXCEPT ![k] = [at |-> "done"]]
        BY <2>1, <3>1, OneLateThread
      <3>2. ASSUME NEW right, NEW hops,
                   conn' = [conn EXCEPT ![k] = [at |-> "login", who |-> @.who, right |-> right,
                                                from |-> ResolveClient(@.peer, hops)]]
            PROVE  \A j \in Connections : conn'[j].at = "call" /\ conn'[j].late
                                           => conn'[j].jti \in loggedOut'
        <4>1. PICK t : t = [at |-> "login", who |-> conn[k].who, right |-> right,
                            from |-> ResolveClient(conn[k].peer, hops)]
          OBVIOUS
        <4>2. t.at = "login" /\ conn' = [conn EXCEPT ![k] = t]
          BY <3>2, <4>1
        <4> QED
          BY <2>1, <4>2, OneLateThread
      <3>3. ASSUME NEW m, NEW route,
                   conn' = [conn EXCEPT ![k] = [at |-> route, jti |-> m,
                                                late |-> m \in loggedOut]]
            PROVE  \A j \in Connections : conn'[j].at = "call" /\ conn'[j].late
                                           => conn'[j].jti \in loggedOut'
        <4>1. PICK b \in BOOLEAN : b <=> m \in loggedOut
          OBVIOUS
        <4>2. PICK t : t = [at |-> route, jti |-> m, late |-> b]
          OBVIOUS
        <4>3. conn' = [conn EXCEPT ![k] = t]
          BY <3>3, <4>1, <4>2, Zenon
        <4>4. t.late => t.jti \in loggedOut'
          BY <2>1, <4>1, <4>2
        <4> QED
          BY <2>1, <4>3, <4>4, OneLateThread
      <3> QED
        BY <1>2, <3>1, <3>2, <3>3 DEF ReadRequest
    <2> QED
      BY <2>1, <2>2 DEF RevocationsOK, LogoutLasts
  <1>3. ASSUME NEW k \in Connections, EndRequest(k) PROVE RevocationsOK'
    BY <1>3 DEF EndRequest
  <1>4. ASSUME NEW k \in Connections, LoginGate(k) PROVE RevocationsOK'
    <2>1. UNCHANGED <<sessClock, sessions, revoked, revokedFile, loggedOut, unsaved, servedOut>>
      BY <1>4 DEF LoginGate
    <2>2. \A j \in Connections : conn'[j].at = "call" /\ conn'[j].late
                                   => conn'[j].jti \in loggedOut'
      <3>1. \/ conn' = [conn EXCEPT ![k] = [at |-> "done"]]
            \/ conn[k].at = "login" /\ conn' = [conn EXCEPT ![k] = [@ EXCEPT !.at = "check"]]
        BY <1>4 DEF LoginGate
      <3>2. conn[k].at = "login" => [conn[k] EXCEPT !.at = "check"].at = "check"
        BY ThreadForms DEF FrontOK
      <3>3. CASE conn' = [conn EXCEPT ![k] = [at |-> "done"]]
        BY <2>1, <3>3, OneLateThread
      <3>4. CASE /\ conn[k].at = "login"
                 /\ conn' = [conn EXCEPT ![k] = [@ EXCEPT !.at = "check"]]
        <4>1. PICK t : t = [conn[k] EXCEPT !.at = "check"]
          OBVIOUS
        <4>2. conn' = [conn EXCEPT ![k] = t] /\ t.at = "check"
          BY <3>2, <3>4, <4>1
        <4> QED
          BY <2>1, <4>2, OneLateThread
      <3> QED
        BY <3>1, <3>3, <3>4
    <2> QED
      BY <2>1, <2>2 DEF RevocationsOK, LogoutLasts
  <1>5. ASSUME NEW k \in Connections, CheckPassword(k) PROVE RevocationsOK'
    <2>1. UNCHANGED <<sessClock, sessions, revoked, revokedFile, loggedOut, unsaved, servedOut>>
      BY <1>5 DEF CheckPassword
    <2>2. \A j \in Connections : conn'[j].at = "call" /\ conn'[j].late
                                   => conn'[j].jti \in loggedOut'
      <3>1. \/ conn' = [conn EXCEPT ![k] = [at |-> "done"]]
            \/ conn' = [conn EXCEPT ![k] = [at |-> "issue"]]
        BY <1>5 DEF CheckPassword
      <3> QED
        BY <2>1, <3>1, OneLateThread
    <2> QED
      BY <2>1, <2>2 DEF RevocationsOK, LogoutLasts
  <1>6. ASSUME NEW k \in Connections, IssueToken(k) PROVE RevocationsOK'
    BY <1>6 DEF IssueToken
  <1>7. ASSUME NEW k \in Connections, Serve(k) PROVE RevocationsOK'
    <2> DEFINE j == conn[k].jti
    <2>1. /\ UNCHANGED <<sessClock, sessions, revoked, revokedFile, loggedOut, unsaved>>
          /\ conn' = [conn EXCEPT ![k] = [at |-> "done"]] /\ conn[k].at = "call"
      BY <1>7 DEF Serve
    <2>2. \A i \in Connections : conn'[i].at = "call" /\ conn'[i].late
                                   => conn'[i].jti \in loggedOut'
      BY <2>1, OneLateThread
    <2>3. LogoutLasts'
      <3>1. CASE TokenValid(j) /\ conn[k].late /\ j \notin unsaved
        <4>1. j \in loggedOut /\ j \in DOMAIN sessions /\ sessions[j] \in Nat
          BY <2>1, <3>1 DEF RevocationsOK, FrontOK, Proper
        <4>2. sessions[j] <= sessClock /\ sessions[j] >= sessClock
          BY <3>1, <4>1 DEF RevocationsOK, TokenValid
        <4>3. sessions[j] - sessClock = 0
          BY <4>1, <4>2 DEF FrontOK
        <4>4. servedOut' = servedOut \cup {<<j, sessions[j] - sessClock>>}
          BY <1>7, <3>1 DEF Serve
        <4> QED
          BY <4>3, <4>4 DEF RevocationsOK, LogoutLasts
      <3>2. CASE ~(TokenValid(j) /\ conn[k].late /\ j \notin unsaved)
        <4>1. servedOut' = servedOut
          BY <1>7, <3>2 DEF Serve
        <4> QED
          BY <4>1 DEF RevocationsOK, LogoutLasts
      <3> QED
        BY <3>1, <3>2
    <2> QED
      BY <2>1, <2>2, <2>3 DEF RevocationsOK
  <1>8. ASSUME NEW k \in Connections, Logout(k) PROVE RevocationsOK'
    <2>1. UNCHANGED <<sessClock, sessions, revoked, revokedFile, loggedOut, unsaved, servedOut>>
      BY <1>8 DEF Logout
    <2>2. \A j \in Connections : conn'[j].at = "call" /\ conn'[j].late
                                   => conn'[j].jti \in loggedOut'
      <3>1. \/ conn' = [conn EXCEPT ![k] = [at |-> "done"]]
            \/ conn[k].at = "logout" /\ conn' = [conn EXCEPT ![k] = [@ EXCEPT !.at = "revoke"]]
        BY <1>8 DEF Logout
      <3>2. conn[k].at = "logout" => [conn[k] EXCEPT !.at = "revoke"].at = "revoke"
        BY ThreadForms DEF FrontOK
      <3>3. CASE conn' = [conn EXCEPT ![k] = [at |-> "done"]]
        BY <2>1, <3>3, OneLateThread
      <3>4. CASE /\ conn[k].at = "logout"
                 /\ conn' = [conn EXCEPT ![k] = [@ EXCEPT !.at = "revoke"]]
        <4>1. PICK t : t = [conn[k] EXCEPT !.at = "revoke"]
          OBVIOUS
        <4>2. conn' = [conn EXCEPT ![k] = t] /\ t.at = "revoke"
          BY <3>2, <3>4, <4>1
        <4> QED
          BY <2>1, <4>2, OneLateThread
      <3> QED
        BY <3>1, <3>3, <3>4
    <2> QED
      BY <2>1, <2>2 DEF RevocationsOK, LogoutLasts
  <1>9. ASSUME NEW k \in Connections, RevokeToken(k) PROVE RevocationsOK'
    <2> DEFINE j == conn[k].jti
    <2>1. /\ UNCHANGED <<sessClock, sessions, servedOut>>
          /\ conn' = [conn EXCEPT ![k] = [at |-> "done"]] /\ conn[k].at = "revoke"
          /\ revoked' = revoked \cup {j} /\ loggedOut' = loggedOut \cup {j}
          /\ \/ revokedFile' = revoked' /\ unsaved' = unsaved \ revoked'
             \/ unsaved' = unsaved \cup {j} /\ revokedFile' = revokedFile
      BY <1>9 DEF RevokeToken
    <2>2. \A i \in Connections : conn'[i].at = "call" /\ conn'[i].late
                                   => conn'[i].jti \in loggedOut'
      BY <2>1, OneLateThread
    <2>3. j \in DOMAIN sessions
      BY <2>1 DEF FrontOK, Proper
    <2> QED
      BY <2>1, <2>2, <2>3 DEF RevocationsOK, LogoutLasts
  <1>10. CASE RestartPanel
    BY <1>10 DEF RestartPanel
  <1>11. CASE SessTick
    BY <1>11 DEF SessTick
  <1>12. CASE UNCHANGED sessVars
    BY <1>12 DEF sessVars
  <1> QED
    BY <1>1, <1>2, <1>3, <1>4, <1>5, <1>6, <1>7, <1>8, <1>9, <1>10, <1>11, <1>12 DEF SessNext

\* At first nobody is connected and no token was issued.
LEMMA FrontInvInit == ASSUME SessInit PROVE FrontInv
  <1>1. Len(<<>>) = 0 /\ <<>> \in Seq(Nat)
    BY EmptySeq
  <1>2. FrontOK
    BY <1>1 DEF SessInit, FrontOK, Threads, Proper, NoConn
  <1>3. BucketsOK
    <2>1. \A c \in Clients : attempts[c] = <<>> /\ passed[c] = <<>>
      BY DEF SessInit
    <2>2. InOrder(<<>>) /\ Explains(<<>>, <<>>) /\ Len(<<>>) <= LoginMax
      BY <1>1, SessAssumption DEF InOrder, Explains, SessAssumption
    <2> QED
      BY <2>1, <2>2 DEF BucketsOK
  <1>4. RevocationsOK
    BY DEF SessInit, RevocationsOK, LogoutLasts, NoConn
  <1> QED
    BY <1>2, <1>3, <1>4 DEF FrontInv

\* Every reachable state of the login gate has it.
LEMMA FrontInvariant == SessSpec => []FrontInv
  <1>1. SessInit => FrontInv
    BY FrontInvInit
  <1>2. FrontInv /\ [SessNext]_sessVars => FrontInv'
    BY FrontKept, BucketsKept, RevocationsKept DEF FrontInv
  <1> QED
    BY <1>1, <1>2, PTL DEF SessSpec

\* The front door keeps its promises, with any number of threads, clients and proxies and
\* however often the panel restarts: no client has more than LoginMax passwords looked at
\* within the window, and a token that was logged out is not served again.
THEOREM FrontDoorSafe == SessSpec => []SessionsSafe
  <1>1. FrontInv => SessionsSafe
    BY BucketsBound DEF FrontInv, SessionsSafe, RevocationsOK
  <1> QED
    BY <1>1, FrontInvariant, PTL

-----------------------------------------------------------------------------
(* Sequences of directories                                                *)

Distinct(s) == \A i, j \in DOMAIN s : s[i] = s[j] => i = j

\* A directory moved to the front of the others.
LEMMA Pushed ==
  ASSUME NEW s \in Seq(Nat), NEW x \in Nat
  PROVE  /\ <<x>> \o s \in Seq(Nat)
         /\ ToSet(<<x>> \o s) = {x} \cup ToSet(s)
         /\ (<<x>> \o s)[1] = x /\ Len(<<x>> \o s) > 0
         /\ Distinct(s) /\ x \notin ToSet(s) => Distinct(<<x>> \o s)
  <1> DEFINE t == <<x>> \o s
  <1>1. t \in Seq(Nat) /\ Len(t) = Len(s) + 1 /\ t[1] = x /\ \A i \in 2..Len(t) : t[i] = s[i - 1]
    <2>1. <<x>> \in Seq(Nat) /\ Len(<<x>>) = 1 /\ <<x>>[1] = x
      OBVIOUS
    <2>2. /\ t \in Seq(Nat) /\ Len(t) = Len(<<x>>) + Len(s)
          /\ \A i \in 1..(Len(<<x>>) + Len(s)) :
               t[i] = IF i <= Len(<<x>>) THEN <<x>>[i] ELSE s[i - Len(<<x>>)]
      BY <2>1, ConcatProperties
    <2>3. Len(s) \in Nat
      BY LenProperties
    <2> HIDE DEF t
    <2> QED
      BY <2>1, <2>2, <2>3
  <1> HIDE DEF t
  <1>2. DOMAIN s = 1..Len(s) /\ DOMAIN t = 1..Len(t) /\ Len(s) \in Nat
    BY LenProperties
  <1>3. ASSUME NEW i \in 1..Len(s) PROVE i + 1 \in DOMAIN t /\ t[i + 1] = s[i]
    <2>1. i + 1 \in 2..Len(t) /\ (i + 1) - 1 = i
      BY <1>1, <1>2
    <2>2. t[i + 1] = s[(i + 1) - 1]
      BY <1>1, <2>1
    <2> QED
      BY <1>2, <2>1, <2>2
  <1>4. \A i \in DOMAIN t : i = 1 \/ (i - 1 \in DOMAIN s /\ t[i] = s[i - 1])
    BY <1>1, <1>2
  <1>5. ToSet(t) = {x} \cup ToSet(s)
    <2>1. ToSet(t) \subseteq {x} \cup ToSet(s)
      BY <1>1, <1>4 DEF ToSet
    <2>2. x \in ToSet(t)
      BY <1>1, <1>2 DEF ToSet
    <2>3. ToSet(s) \subseteq ToSet(t)
      BY <1>2, <1>3 DEF ToSet
    <2> QED
      BY <2>1, <2>2, <2>3
  <1>6. Distinct(s) /\ x \notin ToSet(s) => Distinct(t)
    <2> SUFFICES ASSUME Distinct(s), x \notin ToSet(s), NEW i \in DOMAIN t, NEW j \in DOMAIN t,
                        t[i] = t[j]
                 PROVE  i = j
      BY DEF Distinct
    <2>1. i = 1 <=> j = 1
      BY <1>1, <1>4 DEF ToSet
    <2>2. CASE i # 1 /\ j # 1
      BY <2>2, <1>2, <1>4 DEF Distinct
    <2> QED
      BY <2>1, <2>2
  <1> QED
    <2>1. Len(t) > 0
      BY <1>1, <1>2
    <2> QED
      BY <1>1, <1>5, <1>6, <2>1 DEF t

\* A sequence that is another but for the place i.
Skips(t, s, i) ==
  /\ Len(t) = Len(s) - 1
  /\ \A k \in 1..Len(t) : t[k] = IF k < i THEN s[k] ELSE s[k + 1]

\* What was in that place is all that is gone.
LEMMA Skipped ==
  ASSUME NEW s \in Seq(Nat), NEW t \in Seq(Nat), NEW i \in DOMAIN s, Distinct(s),
         Skips(t, s, i)
  PROVE  ToSet(t) = ToSet(s) \ {s[i]} /\ Distinct(t)
  <1>1. /\ DOMAIN s = 1..Len(s) /\ DOMAIN t = 1..Len(t)
        /\ Len(s) \in Nat /\ Len(t) = Len(s) - 1 /\ i \in 1..Len(s)
    BY LenProperties DEF Skips
  <1>2. \A k \in DOMAIN t :
          LET h == IF k < i THEN k ELSE k + 1 IN h \in DOMAIN s /\ h # i /\ t[k] = s[h]
    BY <1>1 DEF Skips
  <1>3. ToSet(t) \subseteq ToSet(s) \ {s[i]}
    <2>1. ASSUME NEW k \in DOMAIN t PROVE t[k] \in ToSet(s) \ {s[i]}
      <3>1. PICK h \in DOMAIN s : h # i /\ t[k] = s[h]
        BY <1>2
      <3>2. s[h] # s[i]
        BY <3>1 DEF Distinct
      <3> QED
        BY <3>1, <3>2 DEF ToSet
    <2> QED
      BY <2>1 DEF ToSet
  <1>4. ASSUME NEW h \in DOMAIN s, h # i PROVE s[h] \in ToSet(t)
    <2>1. CASE h < i
      <3>1. h \in DOMAIN t /\ t[h] = s[h]
        BY <2>1, <1>1 DEF Skips
      <3> QED
        BY <3>1 DEF ToSet
    <2>2. CASE h > i
      <3>1. h - 1 \in DOMAIN t /\ t[h - 1] = s[h]
        BY <2>2, <1>1 DEF Skips
      <3> QED
        BY <3>1 DEF ToSet
    <2> QED
      BY <2>1, <2>2, <1>1, <1>4
  <1>5. ToSet(s) \ {s[i]} \subseteq ToSet(t)
    BY <1>4 DEF ToSet
  <1>6. Distinct(t)
    <2> SUFFICES ASSUME NEW j \in DOMAIN t, NEW k \in DOMAIN t, t[j] = t[k] PROVE j = k
      BY DEF Distinct
    <2>1. (IF j < i THEN j ELSE j + 1) = (IF k < i THEN k ELSE k + 1)
      BY <1>2 DEF Distinct
    <2>2. j \in Int /\ k \in Int /\ i \in Int
      BY <1>1
    <2> QED
      BY <2>1, <2>2
  <1> QED
    BY <1>3, <1>5, <1>6

\* What is up to the place before one is what is before it.
LEMMA Below ==
  \A i, n \in Int : n <= i - 1 <=> n < i
  OBVIOUS

\* Places counted from one on.
LEMMA From ==
  \A i, n, m \in Int : i <= n /\ n <= m - 1 =>
    n - (i - 1) \in 1..(m - i) /\ i + (n - (i - 1)) = n + 1
  OBVIOUS

\* What comes before a place, joined to what comes after it.
LEMMA Joined ==
  ASSUME NEW s \in Seq(Nat), NEW i \in 1..Len(s), NEW a \in Seq(Nat), NEW b \in Seq(Nat),
         NEW t \in Seq(Nat),
         Len(a) = i - 1, \A k \in 1..(i - 1) : a[k] = s[k],
         Len(b) = Len(s) - i, \A k \in 1..(Len(s) - i) : b[k] = s[i + k],
         Len(t) = Len(a) + Len(b),
         \A k \in 1..(Len(a) + Len(b)) : t[k] = IF k <= Len(a) THEN a[k] ELSE b[k - Len(a)]
  PROVE  Skips(t, s, i)
  <1>1. i \in Int /\ Len(s) \in Nat /\ Len(t) = Len(s) - 1 /\ Len(a) = i - 1
    BY LenProperties
  <1>2. ASSUME NEW k \in 1..(Len(s) - 1) PROVE t[k] = IF k < i THEN s[k] ELSE s[k + 1]
    <2> DEFINE h == k - (i - 1)
    <2>1. k \in Int /\ k \in 1..(Len(a) + Len(b)) /\ (k <= Len(a) <=> k < i)
      <3>1. \A n \in Int : n <= i - 1 <=> n < i
        BY <1>1, Below
      <3>2. k \in Int /\ (k <= Len(a) <=> k <= i - 1)
        BY <1>1
      <3>3. Len(a) + Len(b) = Len(s) - 1
        BY <1>1
      <3> QED
        BY <3>1, <3>2, <3>3
    <2>2. t[k] = IF k <= Len(a) THEN a[k] ELSE b[k - Len(a)]
      BY <2>1
    <2>3. CASE k < i
      <3>1. k \in 1..(i - 1)
        BY <1>1, <2>1, <2>3
      <3> QED
        BY <2>1, <2>2, <2>3, <3>1
    <2>4. CASE k >= i
      <3>1. k - Len(a) = h /\ h \in 1..(Len(s) - i) /\ i + h = k + 1
        <4>1. k \in Int /\ Len(s) \in Int /\ i <= k /\ k <= Len(s) - 1 /\ k - Len(a) = h
          BY <1>1, <2>1, <2>4
        <4> QED
          BY <1>1, <4>1, From
      <3>2. b[h] = s[i + h]
        BY <3>1
      <3>3. ~(k <= Len(a))
        BY <1>1, <2>1, <2>4
      <3> QED
        BY <2>2, <2>4, <3>1, <3>2, <3>3, <2>1
    <2> QED
      BY <2>1, <2>3, <2>4, <1>1
  <1> QED
    BY <1>1, <1>2 DEF Skips

\* A directory moved out from among the others.
LEMMA Removed ==
  ASSUME NEW s \in Seq(Nat), NEW i \in DOMAIN s, Distinct(s)
  PROVE  /\ RemoveAt(s, i) \in Seq(Nat)
         /\ ToSet(RemoveAt(s, i)) = ToSet(s) \ {s[i]}
         /\ Distinct(RemoveAt(s, i))
  <1> DEFINE a == SubSeq(s, 1, i - 1)
             b == SubSeq(s, i + 1, Len(s))
             t == a \o b
  <1>1. i \in 1..Len(s) /\ Len(s) \in Nat /\ \A k \in 1..Len(s) : s[k] \in Nat
    BY LenProperties, ElementOfSeq
  <1>2. /\ a \in Seq(Nat) /\ Len(a) = IF 1 <= i - 1 THEN (i - 1) - 1 + 1 ELSE 0
        /\ \A k \in 1..((i - 1) - 1 + 1) : a[k] = s[1 + k - 1]
    <2>1. 1 \in Int /\ i - 1 \in Int /\ \A k \in 1..(i - 1) : s[k] \in Nat
      BY <1>1
    <2> QED
      BY <2>1, SubSeqProperties
  <1>3. /\ b \in Seq(Nat) /\ Len(b) = IF i + 1 <= Len(s) THEN Len(s) - (i + 1) + 1 ELSE 0
        /\ \A k \in 1..(Len(s) - (i + 1) + 1) : b[k] = s[(i + 1) + k - 1]
    <2>1. i + 1 \in Int /\ Len(s) \in Int /\ \A k \in (i + 1)..Len(s) : s[k] \in Nat
      BY <1>1
    <2> QED
      BY <2>1, SubSeqProperties
  <1>4. RemoveAt(s, i) = t
    BY DEF RemoveAt
  <1> HIDE DEF a, b
  <1>5. /\ t \in Seq(Nat) /\ Len(t) = Len(a) + Len(b)
        /\ \A k \in 1..(Len(a) + Len(b)) : t[k] = IF k <= Len(a) THEN a[k] ELSE b[k - Len(a)]
    BY <1>2, <1>3, ConcatProperties
  <1> HIDE DEF t
  <1>6. Len(a) = i - 1 /\ \A k \in 1..(i - 1) : a[k] = s[k]
    BY <1>1, <1>2
  <1>7. Len(b) = Len(s) - i /\ \A k \in 1..(Len(s) - i) : b[k] = s[i + k]
    BY <1>1, <1>3
  <1>8. Skips(t, s, i)
    BY <1>1, <1>2, <1>3, <1>5, <1>6, <1>7, Joined
  <1> QED
    BY <1>4, <1>5, <1>8, Skipped

\* The first directory moved out.
LEMMA Popped ==
  ASSUME NEW s \in Seq(Nat), Len(s) > 0, Distinct(s)
  PROVE  /\ Tail(s) \in Seq(Nat)
         /\ ToSet(Tail(s)) = ToSet(s) \ {s[1]}
         /\ Distinct(Tail(s))
  <1>1. s # <<>> /\ 1 \in DOMAIN s
    BY LenProperties
  <1>2. Tail(s) \in Seq(Nat) /\ Skips(Tail(s), s, 1)
    BY <1>1, HeadTailProperties, LenProperties DEF Skips
  <1> QED
    BY <1>1, <1>2, Skipped

\* The oldest directories removed.
LEMMA Cut ==
  ASSUME NEW s \in Seq(Nat), NEW n \in Nat
  PROVE  /\ Newest(s, n) \in Seq(Nat)
         /\ ToSet(Newest(s, n)) \subseteq ToSet(s)
         /\ Distinct(s) => Distinct(Newest(s, n))
  <1>1. PICK m \in 0..Len(s) : Newest(s, n) = SubSeq(s, 1, m)
    BY LenProperties DEF Newest
  <1>2. PICK t \in Seq(Nat) : /\ t = Newest(s, n) /\ Len(t) = m
                              /\ \A k \in 1..m : t[k] = s[k]
    <2>1. m \in Int /\ 1 \in Int /\ m >= 0 /\ \A k \in 1..m : s[k] \in Nat
      BY LenProperties, ElementOfSeq
    <2>2. Len(s) \in Nat /\ m <= Len(s)
      BY LenProperties
    <2>3. SubSeq(s, 1, m) \in Seq(Nat) /\ Len(SubSeq(s, 1, m)) = m
      BY <2>1, <2>2
    <2>4. \A k \in 1..m : SubSeq(s, 1, m)[k] = s[k]
      BY <2>1, <2>2
    <2> QED
      BY <1>1, <2>3, <2>4
  <1>3. \A k \in DOMAIN t : k \in DOMAIN s /\ t[k] = s[k]
    BY <1>2, LenProperties
  <1>4. ToSet(t) \subseteq ToSet(s) /\ (Distinct(s) => Distinct(t))
    BY <1>3 DEF ToSet, Distinct
  <1> QED
    BY <1>2, <1>4

-----------------------------------------------------------------------------
(* The inductive invariant                                                 *)

\* A world is in one place.
PlacesOK ==
  /\ worlds \in Nat /\ pg \in 0..worlds /\ rollbackMarker \in Nat /\ setAside \in Nat
  /\ sentinel \in BOOLEAN
  /\ preserved \in Seq(Nat) /\ parked \in Seq(Nat)
  /\ ToSet(preserved) \subseteq 1..worlds /\ ToSet(parked) \subseteq 1..worlds
  /\ Distinct(preserved) /\ Distinct(parked)
  /\ ToSet(preserved) \cap ToSet(parked) = {}
  /\ pg \notin ToSet(preserved) \cup ToSet(parked)
  /\ played \subseteq 1..worlds

\* Between the two renames of a swap pg is empty, and the world set aside is the
\* newest of its kind.
SwapOK ==
  /\ boot \in {"swap", "parkReset"} => pg = NoWorld
  /\ boot = "swap" /\ setAside # NoWorld => Len(parked) > 0 /\ parked[1] = setAside
  /\ boot = "parkReset" => rollbackMarker = NoWorld
  /\ boot = "up" => sentinel /\ pg # NoWorld

\* Without a sentinel no rollback can start: the world it names is in place.
SentinelOK ==
  /\ boot \in {"swap", "park"} => sentinel
  /\ boot = "park" => rollbackMarker \notin ToSet(preserved)
  /\ ~sentinel => rollbackMarker \notin ToSet(preserved)
  /\ ~sentinel /\ pg \in played /\ boot # "touch" => pg \in exposed

ResetInv == PlacesOK /\ SwapOK /\ SentinelOK /\ WorldsKept

\* The invariant holds at first.
LEMMA ResetInvInit == ASSUME ResetInit PROVE ResetInv
  <1>1. ToSet(<<>>) = {} /\ <<>> \in Seq(Nat) /\ Distinct(<<>>)
    BY DEF ToSet, Distinct
  <1>2. PlacesOK
    BY <1>1 DEF ResetInit, PlacesOK, NoWorld
  <1> QED
    BY <1>1, <1>2 DEF ResetInit, ResetInv, SwapOK, SentinelOK, WorldsKept, NoWorld

-----------------------------------------------------------------------------
(* Each step preserves it                                                  *)

\* The operator, the players and the backup move nothing.
LEMMA ArmSteps ==
  ASSUME ResetInv,
         ArmReset \/ ArmRollback \/ CancelReset \/ BackupGoes \/ PlayWorld \/ Shutdown
  PROVE  ResetInv'
  <1> USE DEF ResetInv, SwapOK, SentinelOK, WorldsKept, NoWorld, BootAt, BootTo, ArmOp,
              OnlyMarks, dirs, marks, bounds, resetLog
  <1>1. CASE ArmReset
    BY <1>1 DEF ArmReset, PlacesOK
  <1>2. CASE ArmRollback
    <2>1. rollbackMarker' \in Nat
      BY <1>2, LenProperties, ElementOfSeq DEF ArmRollback, PlacesOK
    <2>2. PlacesOK'
      BY <1>2, <2>1 DEF ArmRollback, PlacesOK
    <2> QED
      BY <1>2, <2>2 DEF ArmRollback
  <1>3. CASE CancelReset
    <2>1. NoWorld \notin ToSet(preserved)
      BY DEF PlacesOK
    <2> QED
      BY <1>3, <2>1 DEF CancelReset, PlacesOK
  <1>4. CASE BackupGoes
    BY <1>4 DEF BackupGoes, PlacesOK
  <1>5. CASE PlayWorld
    <2>1. pg \in 1..worlds /\ played' = played \cup {pg}
      BY <1>5 DEF PlayWorld, PlacesOK
    <2>2. PlacesOK'
      BY <1>5, <2>1 DEF PlayWorld, PlacesOK
    <2> QED
      BY <1>5, <2>1, <2>2 DEF PlayWorld
  <1>6. CASE Shutdown
    BY <1>6 DEF Shutdown, PlacesOK
  <1> QED
    BY <1>1, <1>2, <1>3, <1>4, <1>5, <1>6

\* The renames of a rollback.
LEMMA RollbackMoves ==
  ASSUME ResetInv, RollbackAside \/ RollbackInPlace
  PROVE  ResetInv'
  <1> USE DEF ResetInv, SwapOK, SentinelOK, WorldsKept, NoWorld, BootAt, BootTo, Smoothly,
              FailedMove, ClearRollback, dirs, marks, bounds, resetLog
  <1>1. CASE RollbackAside
    <2>1. rollbackMarker \in ToSet(preserved)
      BY <1>1, LenProperties DEF RollbackAside, Contains, ToSet, PlacesOK
    <2>2. sentinel
      BY <2>1
    <2>3. /\ parked' \in Seq(Nat) /\ Distinct(parked')
          /\ ToSet(parked') = ToSet(parked) \cup ({pg} \ {NoWorld})
          /\ pg # NoWorld => parked'[1] = pg /\ Len(parked') > 0
      BY <1>1, Pushed DEF RollbackAside, PlacesOK
    <2>4. /\ pg' = NoWorld /\ setAside' = pg /\ boot' = "swap"
          /\ UNCHANGED <<preserved, sentinel, worlds, rollbackMarker, resetLog>>
      BY <1>1 DEF RollbackAside
    <2>5. PlacesOK'
      BY <2>3, <2>4 DEF PlacesOK
    <2>6. NoWorld \notin played
      BY DEF PlacesOK
    <2> QED
      BY <2>2, <2>3, <2>4, <2>5, <2>6
  <1>2. CASE RollbackInPlace
    <2>1. CASE BootTo("park")
      <3>1. PICK i \in DOMAIN preserved :
              preserved[i] = rollbackMarker /\ preserved' = RemoveAt(preserved, i)
        BY <1>2, <2>1 DEF RollbackInPlace
      <3>2. /\ pg = NoWorld /\ pg' = rollbackMarker
            /\ UNCHANGED <<parked, rollbackMarker, sentinel, worlds, setAside, resetLog>>
        BY <1>2, <2>1 DEF RollbackInPlace
      <3>3. /\ preserved' \in Seq(Nat) /\ Distinct(preserved')
            /\ ToSet(preserved') = ToSet(preserved) \ {rollbackMarker}
            /\ rollbackMarker \in ToSet(preserved)
        <4>1. rollbackMarker \in ToSet(preserved)
          BY <3>1 DEF ToSet
        <4>2. /\ RemoveAt(preserved, i) \in Seq(Nat) /\ Distinct(RemoveAt(preserved, i))
              /\ ToSet(RemoveAt(preserved, i)) = ToSet(preserved) \ {preserved[i]}
          BY Removed DEF PlacesOK
        <4> QED
          BY <3>1, <4>1, <4>2
      <3>4. PlacesOK'
        BY <3>2, <3>3 DEF PlacesOK
      <3> QED
        BY <1>2, <2>1, <3>2, <3>3, <3>4 DEF RollbackInPlace, PlacesOK
    <2>2. CASE ~BootTo("park")
      <3>1. /\ pg = NoWorld /\ boot = "swap" /\ boot' = "prestart" /\ rollbackMarker' = NoWorld
            /\ UNCHANGED <<preserved, sentinel, worlds, setAside, resetLog>>
        BY <1>2, <2>2 DEF RollbackInPlace
      <3>2. NoWorld \notin ToSet(preserved)
        BY DEF PlacesOK
      <3>3. CASE UNCHANGED <<pg, parked>>
        BY <3>1, <3>2, <3>3 DEF PlacesOK
      <3>4. CASE setAside # NoWorld /\ pg' = setAside /\ parked' = Tail(parked)
        <4>1. /\ parked' \in Seq(Nat) /\ Distinct(parked')
              /\ ToSet(parked') = ToSet(parked) \ {setAside}
          BY <3>1, <3>4, Popped DEF PlacesOK
        <4>2. setAside \in ToSet(parked)
          BY <3>1, <3>4, LenProperties DEF PlacesOK, ToSet
        <4>3. PlacesOK'
          BY <3>1, <3>4, <4>1, <4>2 DEF PlacesOK
        <4> QED
          BY <3>1, <3>2, <3>4, <4>1, <4>3 DEF PlacesOK
      <3>5. CASE setAside = NoWorld /\ pg' = setAside /\ parked' = parked
        BY <3>1, <3>2, <3>5 DEF PlacesOK
      <3> QED
        BY <1>2, <2>2, <3>1, <3>3, <3>4, <3>5 DEF RollbackInPlace
    <2> QED
      BY <2>1, <2>2
  <1> QED
    BY <1>1, <1>2

\* The other steps of a rollback: its sentinel, its refusal and its marker.
LEMMA RollbackMarks ==
  ASSUME ResetInv, RollbackRefused \/ RollbackPark \/ RollbackTouch \/ RollbackClear
  PROVE  ResetInv'
  <1> USE DEF ResetInv, SwapOK, SentinelOK, WorldsKept, NoWorld, BootAt, BootTo, Smoothly,
              FailedMove, ClearRollback, dirs, marks, bounds, resetLog, PlacesOK
  <1>1. CASE RollbackRefused
    BY <1>1 DEF RollbackRefused
  <1>2. CASE RollbackPark
    BY <1>2 DEF RollbackPark
  <1>3. CASE RollbackTouch
    BY <1>3 DEF RollbackTouch
  <1>4. CASE RollbackClear
    BY <1>4 DEF RollbackClear
  <1> QED
    BY <1>1, <1>2, <1>3, <1>4

\* The reset itself.
LEMMA ResetSteps ==
  ASSUME ResetInv, NoMarker \/ ResetRefused \/ ResetAside \/ ResetPark \/ ClearReset
  PROVE  ResetInv'
  <1> USE DEF ResetInv, SwapOK, SentinelOK, WorldsKept, NoWorld, BootAt, BootTo, Smoothly,
              FailedMove, ClearResetMarker, ResetDue, dirs, marks, bounds, resetLog
  <1>1. CASE NoMarker
    BY <1>1 DEF NoMarker, PlacesOK
  <1>2. CASE ResetRefused
    BY <1>2 DEF ResetRefused, PlacesOK
  <1>3. CASE ResetAside
    <2>1. /\ preserved' \in Seq(Nat) /\ Distinct(preserved')
          /\ ToSet(preserved') = {pg} \cup ToSet(preserved)
      BY <1>3, Pushed DEF ResetAside, PlacesOK
    <2>2. /\ pg' = NoWorld /\ pg # NoWorld /\ setAside' = pg /\ boot' = "parkReset"
          /\ rollbackMarker = NoWorld
          /\ UNCHANGED <<parked, sentinel, worlds, rollbackMarker, resetLog>>
      BY <1>3 DEF ResetAside
    <2>3. PlacesOK'
      BY <2>1, <2>2 DEF PlacesOK
    <2>4. NoWorld \notin played \cup ToSet(preserved')
      BY <2>3, <2>2 DEF PlacesOK
    <2> QED
      BY <2>1, <2>2, <2>3, <2>4
  <1>4. CASE ResetPark
    <2>1. NoWorld \notin played \cup ToSet(preserved)
      BY DEF PlacesOK
    <2>2. PlacesOK'
      BY <1>4 DEF ResetPark, PlacesOK
    <2> QED
      BY <1>4, <2>1, <2>2 DEF ResetPark
  <1>5. CASE ClearReset
    BY <1>5 DEF ClearReset, PlacesOK
  <1> QED
    BY <1>1, <1>2, <1>3, <1>4, <1>5

\* What both hooks and the boot do afterwards, and a boot cut short.
LEMMA BootSteps ==
  ASSUME ResetInv, PruneWorlds \/ InitDb \/ LoadSchema \/ StartWorld \/ PowerCut
  PROVE  ResetInv'
  <1> USE DEF ResetInv, SwapOK, SentinelOK, WorldsKept, NoWorld, BootAt, BootTo, Smoothly,
              dirs, marks, bounds, resetLog
  <1>1. CASE PruneWorlds
    <2>1. /\ preserved' \in Seq(Nat) /\ ToSet(preserved') \subseteq ToSet(preserved)
          /\ Distinct(preserved')
      BY <1>1, Cut DEF PruneWorlds, KeepWorlds, PlacesOK
    <2>2. /\ parked' \in Seq(Nat) /\ ToSet(parked') \subseteq ToSet(parked)
          /\ Distinct(parked')
      BY <1>1, Cut DEF PruneWorlds, KeepParked, PlacesOK
    <2>3. PlacesOK'
      BY <1>1, <2>1, <2>2 DEF PruneWorlds, PlacesOK
    <2> QED
      BY <1>1, <2>1, <2>2, <2>3 DEF PruneWorlds
  <1>2. CASE InitDb
    <2>1. PlacesOK'
      BY <1>2 DEF InitDb, PlacesOK
    <2>2. pg' \notin played /\ NoWorld \notin played
      BY <1>2 DEF InitDb, PlacesOK
    <2> QED
      BY <1>2, <2>1, <2>2 DEF InitDb
  <1>3. CASE LoadSchema
    BY <1>3 DEF LoadSchema, PlacesOK
  <1>4. CASE StartWorld
    BY <1>4 DEF StartWorld, PlacesOK
  <1>5. CASE PowerCut
    BY <1>5 DEF PowerCut, PlacesOK
  <1> QED
    BY <1>1, <1>2, <1>3, <1>4, <1>5

-----------------------------------------------------------------------------
(* The theorem                                                             *)

\* The invariant holds of the specification.
LEMMA ResetInvariant == ResetSpec => []ResetInv
<1>1. ResetInit => ResetInv
  BY ResetInvInit
<1>2. ResetInv /\ [ResetNext]_resetVars => ResetInv'
  <2>1. ASSUME ResetInv, ResetNext PROVE ResetInv'
    BY <2>1, ArmSteps, RollbackMoves, RollbackMarks, ResetSteps, BootSteps DEF ResetNext
  <2>2. ASSUME ResetInv, UNCHANGED resetVars PROVE ResetInv'
    BY <2>2
    DEF resetVars, dirs, marks, bounds, resetLog, ResetInv, PlacesOK, SwapOK, SentinelOK,
        WorldsKept
  <2> QED
    BY <2>1, <2>2
<1> QED
  BY <1>1, <1>2, PTL DEF ResetSpec

\* Whatever rename fails and whenever the power goes off between two steps of
\* apply-world-reset.sh or prestart.sh, a played world is in pg or beside it until
\* prune_preserved removes it, and resetdb runs over one only if its sentinel had
\* been lost between the parking of the old one and the touch of the new.
THEOREM NoWorldLost == ResetSpec => []WorldsKept
  BY ResetInvariant, PTL DEF ResetInv

\* No boot is cut short and no move fails.
Undisturbed == ResetFaults = 0 /\ PowerCuts = 0

\* Then no world is ever left without its sentinel.
LEMMA NothingExposed ==
  ASSUME Undisturbed PROVE ResetSpec => [](resetFaults \in Nat /\ powerCuts \in Nat /\ exposed = {})
<1> DEFINE Calm == resetFaults \in Nat /\ powerCuts \in Nat /\ exposed = {}
<1>1. ResetInit => Calm
  BY DEF ResetInit
<1>2. Calm /\ [ResetNext]_resetVars => Calm'
  <2> SUFFICES ASSUME Calm, [ResetNext]_resetVars PROVE Calm'
    OBVIOUS
  <2> USE DEF Smoothly, FailedMove, bounds, resetLog, dirs, marks, OnlyMarks, ArmOp, ClearRollback,
              ClearResetMarker, Undisturbed
  <2>1. CASE ArmReset \/ ArmRollback \/ CancelReset \/ BackupGoes \/ PlayWorld \/ Shutdown
    BY <2>1 DEF ArmReset, ArmRollback, CancelReset, BackupGoes, PlayWorld, Shutdown
  <2>2. CASE RollbackRefused
    BY <2>2 DEF RollbackRefused
  <2>3. CASE RollbackAside
    BY <2>3 DEF RollbackAside
  <2>4. CASE RollbackInPlace
    BY <2>4 DEF RollbackInPlace
  <2>5. CASE RollbackPark
    BY <2>5 DEF RollbackPark
  <2>6. CASE RollbackTouch
    BY <2>6 DEF RollbackTouch
  <2>7. CASE PruneWorlds
    BY <2>7 DEF PruneWorlds
  <2>8. CASE RollbackClear
    BY <2>8 DEF RollbackClear
  <2>9. CASE NoMarker
    BY <2>9 DEF NoMarker
  <2>10. CASE ResetRefused
    BY <2>10 DEF ResetRefused
  <2>11. CASE ResetAside
    BY <2>11 DEF ResetAside
  <2>12. CASE ResetPark
    BY <2>12 DEF ResetPark
  <2>13. CASE ClearReset
    BY <2>13 DEF ClearReset
  <2>14. CASE InitDb
    BY <2>14 DEF InitDb
  <2>15. CASE LoadSchema
    BY <2>15 DEF LoadSchema
  <2>16. CASE StartWorld
    BY <2>16 DEF StartWorld
  <2>17. CASE PowerCut
    BY <2>17 DEF PowerCut
  <2>18. CASE UNCHANGED resetVars
    BY <2>18 DEF resetVars
  <2> QED
    BY <2>1, <2>2, <2>3, <2>4, <2>5, <2>6, <2>7, <2>8, <2>9,
       <2>10, <2>11, <2>12, <2>13, <2>14, <2>15, <2>16,
       <2>17, <2>18
    DEF ResetNext
<1> QED
  BY <1>1, <1>2, PTL DEF ResetSpec

\* What the hook says of the sentinel it recreates, that prestart never runs
\* resetdb over live data, is true of boots that nothing disturbs.
THEOREM NeverWipedUndisturbed == ASSUME Undisturbed PROVE ResetSpec => []NeverResetOverData
<1>1. ResetSpec => [](exposed = {})
  BY NothingExposed, PTL
<1>2. WorldsKept /\ exposed = {} => NeverResetOverData
  BY DEF WorldsKept, NeverResetOverData
<1> QED
  BY <1>1, <1>2, NoWorldLost, PTL
=============================================================================
